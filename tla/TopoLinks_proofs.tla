---------------------------- MODULE TopoLinks_proofs ----------------------------
(***************************************************************************)
(* Around every node the links of the edge ends are their clockwise order. *)
(*                                                                         *)
(* rtgeom_topo.c never sorts the edges of a node.  A call that adds, splits, *)
(* heals, removes or reshapes edges looks up the neighbours of the ends it *)
(* touches and renames links one by one, so that the order is a property   *)
(* of the whole history.  The inductive invariant is Turning: at each node *)
(* the links are a rotation of the edge ends there, that is a map onto the *)
(* ends in which each end goes on with the first end met when turning      *)
(* clockwise from it.  Being onto is what lets a call find the one end     *)
(* whose link it has to change; LinksFollowRotation does not say it.       *)
(*                                                                         *)
(* First come facts about turning from one direction to another, then      *)
(* rotations of a set of ends and what inserting, removing, renaming and   *)
(* replacing ends makes of them, then the ends of a topology, and then     *)
(* one lemma for each operation of the call.                               *)
(*                                                                         *)
(* The last part draws a conclusion for getRingEdges.  Links that are a    *)
(* rotation at each node are an injection of the darts, and the edge table *)
(* is finite, so that a walk along the links comes back to its start.      *)
(***************************************************************************)
EXTENDS TopoPlanar_proofs, FiniteSetTheorems
-----------------------------------------------------------------------------
(* Directions.                                                             *)

Way == {v \in Int \X Int : v # <<0, 0>>}

CrossOf(u, v) == u[1] * v[2] - u[2] * v[1]
DotOf(u, v) == u[1] * v[1] + u[2] * v[2]

LEMMA WayCoordinates ==
  ASSUME NEW v \in Way
  PROVE  \E x, y \in Int : v = <<x, y>> /\ v[1] = x /\ v[2] = y /\ (x # 0 \/ y # 0)
BY DEF Way

LEMMA SquareIsPositive ==
  ASSUME NEW x \in Int, NEW y \in Int, x # 0 \/ y # 0
  PROVE  x * x + y * y > 0
<1>1. x * x >= 0 /\ y * y >= 0
  OBVIOUS
<1>2. x # 0 => x * x > 0
  OBVIOUS
<1>3. y # 0 => y * y > 0
  OBVIOUS
<1> QED BY <1>1, <1>2, <1>3

LEMMA TurnBySigns ==
  ASSUME NEW u \in Way, NEW v \in Way
  PROVE  /\ CrossOf(u, v) \in Int /\ DotOf(u, v) \in Int
         /\ CrossOf(v, u) = -CrossOf(u, v) /\ DotOf(v, u) = DotOf(u, v)
         /\ CrossOf(u, v) = 0 => DotOf(u, v) # 0
         /\ Turn(u, v) = IF CrossOf(u, v) < 0 THEN 1 ELSE IF CrossOf(u, v) > 0 THEN 3
                         ELSE IF DotOf(u, v) > 0 THEN 0 ELSE 2
<1> PICK a, b \in Int : u = <<a, b>> /\ u[1] = a /\ u[2] = b /\ (a # 0 \/ b # 0) BY WayCoordinates
<1> PICK c, d \in Int : v = <<c, d>> /\ v[1] = c /\ v[2] = d /\ (c # 0 \/ d # 0) BY WayCoordinates
<1>1. CrossOf(u, v) = a * d - b * c /\ DotOf(u, v) = a * c + b * d
  BY DEF CrossOf, DotOf
<1>2. CrossOf(v, u) = c * b - d * a /\ DotOf(v, u) = c * a + d * b
  BY DEF CrossOf, DotOf
<1>3. a * d \in Int /\ b * c \in Int /\ a * c \in Int /\ b * d \in Int
      /\ c * b = b * c /\ d * a = a * d /\ c * a = a * c /\ d * b = b * d
  OBVIOUS
<1>4. CrossOf(u, v) = 0 => DotOf(u, v) # 0
  <2> SUFFICES ASSUME a * d = b * c, a * c + b * d = 0 PROVE FALSE
    BY <1>1, <1>3
  <2>1. (a * a + b * b) * (c * c + d * d) = (a * c + b * d) * (a * c + b * d) + (a * d - b * c) * (a * d - b * c)
    OBVIOUS
  <2>2. a * d - b * c = 0
    BY <1>3
  <2>3. (a * a + b * b) * (c * c + d * d) = 0
    BY <2>1, <2>2
  <2>4. a * a + b * b > 0 /\ c * c + d * d > 0
    BY SquareIsPositive
  <2> DEFINE p == a * a + b * b
             q == c * c + d * d
  <2>5. p \in Int /\ q \in Int /\ p > 0 /\ q > 0 /\ p * q = 0
    BY <2>3, <2>4
  <2> HIDE DEF p, q
  <2> QED BY <2>5
<1>5. Turn(u, v) = IF CrossOf(u, v) < 0 THEN 1 ELSE IF CrossOf(u, v) > 0 THEN 3
                   ELSE IF DotOf(u, v) > 0 THEN 0 ELSE 2
  BY DEF Turn, CrossOf, DotOf
<1> QED BY <1>1, <1>2, <1>3, <1>4, <1>5

\* Along u: |u|^2 v = (u . v) u + (u x v) u turned left.
LEMMA CrossThrough ==
  ASSUME NEW u \in Way, NEW v \in Way, NEW w \in Way, CrossOf(u, v) = 0
  PROVE  /\ DotOf(u, u) > 0
         /\ DotOf(u, u) * CrossOf(v, w) = DotOf(u, v) * CrossOf(u, w)
         /\ DotOf(u, u) * DotOf(v, w) = DotOf(u, v) * DotOf(u, w)
<1> PICK a, b \in Int : u = <<a, b>> /\ u[1] = a /\ u[2] = b /\ (a # 0 \/ b # 0) BY WayCoordinates
<1> PICK c, d \in Int : v = <<c, d>> /\ v[1] = c /\ v[2] = d /\ (c # 0 \/ d # 0) BY WayCoordinates
<1> PICK e, f \in Int : w = <<e, f>> /\ w[1] = e /\ w[2] = f /\ (e # 0 \/ f # 0) BY WayCoordinates
<1>1. /\ CrossOf(u, v) = a * d - b * c /\ DotOf(u, v) = a * c + b * d
      /\ CrossOf(v, w) = c * f - d * e /\ DotOf(v, w) = c * e + d * f
      /\ CrossOf(u, w) = a * f - b * e /\ DotOf(u, w) = a * e + b * f
      /\ DotOf(u, u) = a * a + b * b
  BY DEF CrossOf, DotOf
<1>2. a * a + b * b > 0
  BY SquareIsPositive
<1>3. (a * a + b * b) * (c * f - d * e) - (a * c + b * d) * (a * f - b * e) = -(a * d - b * c) * (a * e + b * f)
  OBVIOUS
<1>4. (a * a + b * b) * (c * e + d * f) - (a * c + b * d) * (a * e + b * f) = (a * d - b * c) * (a * f - b * e)
  OBVIOUS
<1>5. a * d - b * c = 0
  BY <1>1
<1>6. (a * a + b * b) * (c * f - d * e) = (a * c + b * d) * (a * f - b * e)
  BY <1>3, <1>5
<1>7. (a * a + b * b) * (c * e + d * f) = (a * c + b * d) * (a * e + b * f)
  BY <1>4, <1>5
<1> QED BY <1>1, <1>2, <1>6, <1>7

LEMMA SignThrough ==
  ASSUME NEW k \in Int, NEW m \in Int, NEW x \in Int, NEW y \in Int, k > 0, k * x = m * y
  PROVE  /\ m > 0 => (x < 0 <=> y < 0) /\ (x > 0 <=> y > 0)
         /\ m < 0 => (x < 0 <=> y > 0) /\ (x > 0 <=> y < 0)
<1>1. /\ k * x < 0 <=> x < 0
      /\ k * x > 0 <=> x > 0
  OBVIOUS
<1>2. m > 0 => (m * y < 0 <=> y < 0) /\ (m * y > 0 <=> y > 0)
  OBVIOUS
<1>3. m < 0 => (m * y < 0 <=> y > 0) /\ (m * y > 0 <=> y < 0)
  OBVIOUS
<1> QED BY <1>1, <1>2, <1>3

\* Turning the same way, or back, from a direction and from another.
LEMMA TurnFromSame ==
  ASSUME NEW u \in Way, NEW v \in Way, NEW w \in Way, Turn(u, v) = 0
  PROVE  Turn(v, w) = Turn(u, w)
<1>1. CrossOf(u, v) = 0 /\ DotOf(u, v) > 0 /\ DotOf(u, v) \in Int /\ DotOf(u, u) \in Int
  BY TurnBySigns
<1>2. /\ CrossOf(v, w) \in Int /\ CrossOf(u, w) \in Int
      /\ DotOf(v, w) \in Int /\ DotOf(u, w) \in Int
  BY TurnBySigns
<1>3. (CrossOf(v, w) < 0 <=> CrossOf(u, w) < 0) /\ (CrossOf(v, w) > 0 <=> CrossOf(u, w) > 0)
  BY <1>1, <1>2, CrossThrough, SignThrough
<1>4. DotOf(v, w) > 0 <=> DotOf(u, w) > 0
  BY <1>1, <1>2, CrossThrough, SignThrough
<1> QED BY <1>3, <1>4, TurnBySigns

Back(k) == (k + 2) % 4

LEMMA TurnFromOpposite ==
  ASSUME NEW u \in Way, NEW v \in Way, NEW w \in Way, Turn(u, v) = 2
  PROVE  Turn(v, w) = Back(Turn(u, w))
<1>1. CrossOf(u, v) = 0 /\ DotOf(u, v) < 0 /\ DotOf(u, v) \in Int /\ DotOf(u, u) \in Int
  BY TurnBySigns
<1>2. /\ CrossOf(v, w) \in Int /\ CrossOf(u, w) \in Int
      /\ DotOf(v, w) \in Int /\ DotOf(u, w) \in Int
  BY TurnBySigns
<1>3. (CrossOf(v, w) < 0 <=> CrossOf(u, w) > 0) /\ (CrossOf(v, w) > 0 <=> CrossOf(u, w) < 0)
  BY <1>1, <1>2, CrossThrough, SignThrough
<1>4. DotOf(v, w) > 0 <=> DotOf(u, w) < 0
  BY <1>1, <1>2, CrossThrough, SignThrough
<1>5. (2 + 1) % 4 = 3 /\ (3 + 2) % 4 = 1 /\ (0 + 2) % 4 = 2 /\ (2 + 2) % 4 = 0 /\ (1 + 2) % 4 = 3
  OBVIOUS
<1> QED BY <1>2, <1>3, <1>4, <1>5, TurnBySigns DEF Back

LEMMA TurnBack ==
  ASSUME NEW u \in Way, NEW v \in Way
  PROVE  /\ Turn(u, v) \in 0 .. 3
         /\ Turn(u, u) = 0
         /\ Turn(v, u) = (4 - Turn(u, v)) % 4
<1>1. CrossOf(u, u) = 0 /\ DotOf(u, u) > 0
  <2> PICK a, b \in Int : u = <<a, b>> /\ u[1] = a /\ u[2] = b /\ (a # 0 \/ b # 0) BY WayCoordinates
  <2>1. CrossOf(u, u) = a * b - b * a /\ DotOf(u, u) = a * a + b * b
    BY DEF CrossOf, DotOf
  <2> QED BY <2>1, SquareIsPositive
<1>2. (4 - 0) % 4 = 0 /\ (4 - 1) % 4 = 3 /\ (4 - 2) % 4 = 2 /\ (4 - 3) % 4 = 1
  OBVIOUS
<1> QED BY <1>1, <1>2, TurnBySigns

\* Within the half plane to the right, or to the left, of u the turns add up.
LEMMA TurnWithinHalf ==
  ASSUME NEW u \in Way, NEW v \in Way, NEW w \in Way, NEW x \in Way,
         Turn(u, v) \in {1, 3}, Turn(u, w) = Turn(u, v), Turn(u, x) = Turn(u, v),
         Turn(v, w) = 1, Turn(w, x) = 1
  PROVE  Turn(v, x) = 1
<1> DEFINE uv == CrossOf(u, v)
           uw == CrossOf(u, w)
           ux == CrossOf(u, x)
           vw == CrossOf(v, w)
           wx == CrossOf(w, x)
           vx == CrossOf(v, x)
<1>1. /\ uv \in Int /\ uw \in Int /\ ux \in Int /\ vw \in Int /\ wx \in Int /\ vx \in Int
      /\ vw < 0 /\ wx < 0
      /\ (uv < 0 /\ uw < 0 /\ ux < 0) \/ (uv > 0 /\ uw > 0 /\ ux > 0)
  BY TurnBySigns
<1>2. uw * vx = uv * wx + ux * vw
  <2> PICK a, b \in Int : u = <<a, b>> /\ u[1] = a /\ u[2] = b BY WayCoordinates
  <2> PICK c, d \in Int : v = <<c, d>> /\ v[1] = c /\ v[2] = d BY WayCoordinates
  <2> PICK e, f \in Int : w = <<e, f>> /\ w[1] = e /\ w[2] = f BY WayCoordinates
  <2> PICK g, h \in Int : x = <<g, h>> /\ x[1] = g /\ x[2] = h BY WayCoordinates
  <2>1. /\ uv = a * d - b * c /\ uw = a * f - b * e /\ ux = a * h - b * g
        /\ vw = c * f - d * e /\ wx = e * h - f * g /\ vx = c * h - d * g
    BY DEF CrossOf
  <2>2. (a * f - b * e) * (c * h - d * g)
        = (a * d - b * c) * (e * h - f * g) + (a * h - b * g) * (c * f - d * e)
    OBVIOUS
  <2> HIDE DEF uv, uw, ux, vw, wx, vx
  <2> QED BY <2>1, <2>2
<1> HIDE DEF uv, uw, ux, vw, wx, vx
<1>3. CASE uv < 0 /\ uw < 0 /\ ux < 0
  <2>1. uv * wx > 0 /\ ux * vw > 0
    BY <1>1, <1>3
  <2>2. uw * vx > 0
    BY <1>1, <1>2, <2>1
  <2> QED BY <1>1, <1>3, <2>2, TurnBySigns, SignOfProduct DEF vx
<1>4. CASE uv > 0 /\ uw > 0 /\ ux > 0
  <2>1. uv * wx < 0 /\ ux * vw < 0
    BY <1>1, <1>4
  <2>2. uw * vx < 0
    BY <1>1, <1>2, <2>1
  <2>3. vx < 0
    BY <1>1, <1>4, <2>2, SignOfProduct
  <2> QED BY <1>1, <2>3, TurnBySigns DEF vx
<1> QED BY <1>1, <1>3, <1>4

LEMMA MetByTurns ==
  ASSUME NEW u \in Way, NEW v \in Way, NEW w \in Way
  PROVE  MetBefore(u, v, w) <=>
           \/ Turn(u, v) < Turn(u, w)
           \/ Turn(u, v) = Turn(u, w) /\ Turn(u, v) \in {1, 3} /\ Turn(v, w) = 1
<1>1. CrossOf(v, w) \in Int /\ (Turn(v, w) = 1 <=> CrossOf(v, w) < 0)
  BY TurnBySigns
<1> QED BY <1>1 DEF MetBefore, CrossOf

\* Only the directions matter, not how far away the vertices are.
LEMMA MetBySameWays ==
  ASSUME NEW u \in Way, NEW v \in Way, NEW w \in Way,
         NEW uu \in Way, NEW vv \in Way, NEW ww \in Way,
         Turn(u, uu) = 0, Turn(v, vv) = 0, Turn(w, ww) = 0
  PROVE  MetBefore(u, v, w) <=> MetBefore(uu, vv, ww)
<1>1. ASSUME NEW x \in Way, NEW xx \in Way, NEW y \in Way, NEW yy \in Way,
             Turn(x, xx) = 0, Turn(y, yy) = 0
      PROVE  Turn(xx, yy) = Turn(x, y)
  <2>1. Turn(xx, yy) = Turn(x, yy)
    BY <1>1, TurnFromSame
  <2>2. Turn(yy, x) = Turn(y, x)
    BY <1>1, TurnFromSame
  <2>3. Turn(x, yy) = Turn(x, y)
    BY <2>2, TurnBack
  <2> QED BY <2>1, <2>3
<1>2. Turn(uu, vv) = Turn(u, v) /\ Turn(uu, ww) = Turn(u, w) /\ Turn(vv, ww) = Turn(v, w)
  BY <1>1
<1> QED BY <1>2, MetByTurns

\* Turning clockwise from u, one of two other directions is met before the other.
LEMMA MetEither ==
  ASSUME NEW u \in Way, NEW v \in Way, NEW w \in Way, Turn(v, w) # 0
  PROVE  MetBefore(u, v, w) <=> ~ MetBefore(u, w, v)
<1>1. /\ Turn(u, v) \in 0 .. 3 /\ Turn(u, w) \in 0 .. 3 /\ Turn(v, w) \in 0 .. 3
      /\ Turn(w, v) = (4 - Turn(v, w)) % 4
      /\ Turn(v, u) = (4 - Turn(u, v)) % 4 /\ Turn(w, u) = (4 - Turn(u, w)) % 4
  BY TurnBack
<1>2. (4 - 1) % 4 = 3 /\ (4 - 2) % 4 = 2 /\ (4 - 3) % 4 = 1 /\ (4 - 0) % 4 = 0
  OBVIOUS
<1>3. ASSUME Turn(u, v) = Turn(u, w)
      PROVE  Turn(u, v) \in {1, 3} /\ Turn(v, w) \in {1, 3}
  <2>1. Turn(u, v) # 0
    BY <1>3, TurnFromSame
  <2>2. Turn(u, v) # 2
    BY <1>3, TurnFromOpposite DEF Back
  <2>3. Turn(v, w) # 2
    <3> SUFFICES ASSUME Turn(v, w) = 2 PROVE FALSE
      OBVIOUS
    <3>1. Turn(w, u) = Back(Turn(v, u))
      BY TurnFromOpposite
    <3> QED BY <3>1, <2>1, <2>2, <1>1, <1>2, <1>3 DEF Back
  <2> QED BY <1>1, <2>1, <2>2, <2>3
<1> QED BY <1>1, <1>2, <1>3, MetByTurns

\* Whoever starts elsewhere meets them in the same order around.
LEMMA MetAround ==
  ASSUME NEW u \in Way, NEW v \in Way, NEW w \in Way,
         Turn(u, v) # 0, Turn(v, w) # 0, Turn(u, w) # 0, MetBefore(u, v, w)
  PROVE  MetBefore(v, w, u)
<1>1. /\ Turn(u, v) \in 1 .. 3 /\ Turn(u, w) \in 1 .. 3 /\ Turn(v, w) \in 1 .. 3
      /\ Turn(w, v) = (4 - Turn(v, w)) % 4
      /\ Turn(v, u) = (4 - Turn(u, v)) % 4 /\ Turn(w, u) = (4 - Turn(u, w)) % 4
  BY TurnBack
<1>2. (4 - 1) % 4 = 3 /\ (4 - 2) % 4 = 2 /\ (4 - 3) % 4 = 1
  OBVIOUS
<1>3. Turn(u, v) = 2 => Turn(v, w) = Back(Turn(u, w))
  BY TurnFromOpposite
<1>4. Turn(v, w) = 2 => Turn(w, u) = Back(Turn(v, u))
  BY TurnFromOpposite
<1>5. Turn(u, w) = 2 => Turn(w, v) = Back(Turn(u, v))
  BY TurnFromOpposite
<1>6. (3 + 2) % 4 = 1 /\ (1 + 2) % 4 = 3 /\ (2 + 2) % 4 = 0
  OBVIOUS
<1>7. \/ Turn(u, v) = 1 /\ Turn(u, w) = 2
      \/ Turn(u, v) = 1 /\ Turn(u, w) = 3
      \/ Turn(u, v) = 2 /\ Turn(u, w) = 3
      \/ Turn(u, v) = 1 /\ Turn(u, w) = 1 /\ Turn(v, w) = 1
      \/ Turn(u, v) = 3 /\ Turn(u, w) = 3 /\ Turn(v, w) = 1
  BY <1>1, MetByTurns
<1>8. CASE Turn(u, v) = 1 /\ Turn(u, w) = 2
  <2>1. Turn(w, v) = 3 /\ Turn(v, w) = 1 /\ Turn(v, u) = 3
    BY <1>1, <1>2, <1>5, <1>6, <1>8 DEF Back
  <2> QED BY <2>1, MetByTurns
<1>9. CASE Turn(u, v) = 1 /\ Turn(u, w) = 3
  <2>1. Turn(v, u) = 3 /\ Turn(w, u) = 1
    BY <1>1, <1>2, <1>9
  <2> QED BY <1>1, <2>1, MetByTurns
<1>10. CASE Turn(u, v) = 2 /\ Turn(u, w) = 3
  <2>1. Turn(v, u) = 2 /\ Turn(v, w) = 1
    BY <1>1, <1>2, <1>3, <1>6, <1>10 DEF Back
  <2> QED BY <2>1, MetByTurns
<1>11. CASE Turn(u, v) = 1 /\ Turn(u, w) = 1 /\ Turn(v, w) = 1
  <2>1. Turn(v, u) = 3
    BY <1>1, <1>2, <1>11
  <2> QED BY <2>1, <1>11, MetByTurns
<1>12. CASE Turn(u, v) = 3 /\ Turn(u, w) = 3 /\ Turn(v, w) = 1
  <2>1. Turn(v, u) = 1 /\ Turn(w, u) = 1
    BY <1>1, <1>2, <1>12
  <2> QED BY <2>1, <1>12, MetByTurns
<1> QED BY <1>7, <1>8, <1>9, <1>10, <1>11, <1>12

LEMMA MetInARow ==
  ASSUME NEW u \in Way, NEW v \in Way, NEW w \in Way, NEW x \in Way,
         MetBefore(u, v, w), MetBefore(u, w, x)
  PROVE  MetBefore(u, v, x)
<1>1. Turn(u, v) \in 0 .. 3 /\ Turn(u, w) \in 0 .. 3 /\ Turn(u, x) \in 0 .. 3
  BY TurnBack
<1>2. Turn(u, v) <= Turn(u, w) /\ Turn(u, w) <= Turn(u, x)
  BY <1>1, MetByTurns
<1>3. CASE Turn(u, v) < Turn(u, x)
  BY <1>3, MetByTurns
<1>4. CASE Turn(u, v) = Turn(u, x)
  <2>1. Turn(u, v) = Turn(u, w) /\ Turn(u, w) = Turn(u, x)
    BY <1>1, <1>2, <1>4
  <2>2. Turn(u, v) \in {1, 3} /\ Turn(v, w) = 1 /\ Turn(w, x) = 1
    BY <1>1, <2>1, MetByTurns
  <2>3. Turn(v, x) = 1
    BY <2>1, <2>2, TurnWithinHalf
  <2> QED BY <2>1, <2>2, <2>3, MetByTurns
<1> QED BY <1>1, <1>2, <1>3, <1>4

\* The direction turned from is met before any other, and none before itself.
LEMMA MetFirst ==
  ASSUME NEW u \in Way, NEW v \in Way
  PROVE  /\ ~ MetBefore(u, v, v) /\ ~ MetBefore(u, v, u)
         /\ Turn(u, v) # 0 => MetBefore(u, u, v)
<1>1. Turn(u, v) \in 0 .. 3 /\ Turn(u, u) = 0 /\ Turn(v, v) = 0
  BY TurnBack
<1> QED BY <1>1, MetByTurns

-----------------------------------------------------------------------------
(* Rotations: what leaves a place in directions dir, each followed by the  *)
(* one that next gives it.                                                 *)

Met(dir, x, y, z) == MetBefore(dir[x], dir[y], dir[z])

\* No two leave the same way.
Spread(dir) ==
  /\ \A x \in DOMAIN dir : dir[x] \in Way
  /\ \A x, y \in DOMAIN dir : x # y => Turn(dir[x], dir[y]) # 0

\* x is the first met turning clockwise from d, d itself when it is alone.
Follows(dir, d, x) ==
  /\ x \in DOMAIN dir
  /\ x = d => DOMAIN dir = {d}
  /\ \A y \in DOMAIN dir \ {d} : ~ Met(dir, d, y, x)

\* Each is followed by the first met, and follows some.
Rotation(dir, next) ==
  /\ DOMAIN next = DOMAIN dir
  /\ \A d \in DOMAIN dir : Follows(dir, d, next[d])
  /\ \A d \in DOMAIN dir : \E c \in DOMAIN dir : next[c] = d

Cyclic(dir) ==
  /\ \A x, y, z \in DOMAIN dir : y # z => (Met(dir, x, y, z) <=> ~ Met(dir, x, z, y))
  /\ \A x, y \in DOMAIN dir : ~ Met(dir, x, y, y) /\ ~ Met(dir, x, y, x)
  /\ \A x, y \in DOMAIN dir : x # y => Met(dir, x, x, y)
  /\ \A x, y, z \in DOMAIN dir :
       x # y /\ y # z /\ x # z /\ Met(dir, x, y, z) => Met(dir, y, z, x)
  /\ \A x, y, z, w \in DOMAIN dir :
       Met(dir, x, y, z) /\ Met(dir, x, z, w) => Met(dir, x, y, w)

LEMMA SpreadIsCyclic ==
  ASSUME NEW dir, Spread(dir)
  PROVE  Cyclic(dir)
<1>1. \A x \in DOMAIN dir : dir[x] \in Way
  BY DEF Spread
<1>2. \A x, y \in DOMAIN dir : x # y => Turn(dir[x], dir[y]) # 0
  BY DEF Spread
<1>3. \A x, y, z \in DOMAIN dir : y # z => (Met(dir, x, y, z) <=> ~ Met(dir, x, z, y))
  BY <1>1, <1>2, MetEither DEF Met
<1>4. \A x, y \in DOMAIN dir : ~ Met(dir, x, y, y) /\ ~ Met(dir, x, y, x)
  BY <1>1, MetFirst DEF Met
<1>5. \A x, y \in DOMAIN dir : x # y => Met(dir, x, x, y)
  BY <1>1, <1>2, MetFirst DEF Met
<1>6. \A x, y, z \in DOMAIN dir :
        x # y /\ y # z /\ x # z /\ Met(dir, x, y, z) => Met(dir, y, z, x)
  BY <1>1, <1>2, MetAround DEF Met
<1>7. \A x, y, z, w \in DOMAIN dir :
        Met(dir, x, y, z) /\ Met(dir, x, z, w) => Met(dir, x, y, w)
  BY <1>1, MetInARow DEF Met
<1> QED BY <1>3, <1>4, <1>5, <1>6, <1>7 DEF Cyclic

\* x is the last met turning clockwise from d.
Precedes(dir, x, d) ==
  /\ x \in DOMAIN dir
  /\ x = d => DOMAIN dir = {d}
  /\ \A y \in DOMAIN dir \ {d} : ~ Met(dir, d, x, y)

\* The last met from d is the one that d follows.
LEMMA LastIsFollowed ==
  ASSUME NEW dir, Cyclic(dir), NEW d \in DOMAIN dir, NEW x \in DOMAIN dir
  PROVE  Precedes(dir, x, d) <=> Follows(dir, x, d)
<1>1. CASE x = d
  BY <1>1 DEF Precedes, Follows, Cyclic
<1>2. CASE x # d
  <2>1. ASSUME NEW y \in DOMAIN dir, y # d, y # x
        PROVE  Met(dir, d, x, y) <=> Met(dir, x, y, d)
    BY <2>1, <1>2 DEF Cyclic
  <2>2. ~ Met(dir, d, x, x) /\ ~ Met(dir, x, d, d)
    BY DEF Cyclic
  <2> QED BY <1>2, <2>1, <2>2 DEF Precedes, Follows
<1> QED BY <1>1, <1>2

LEMMA FollowerIsOne ==
  ASSUME NEW dir, Cyclic(dir), NEW d \in DOMAIN dir, NEW x, NEW y,
         Follows(dir, d, x), Follows(dir, d, y)
  PROVE  x = y
BY DEF Follows, Cyclic

LEMMA FollowedIsOne ==
  ASSUME NEW dir, Cyclic(dir), NEW d \in DOMAIN dir, NEW x \in DOMAIN dir, NEW y \in DOMAIN dir,
         Follows(dir, x, d), Follows(dir, y, d)
  PROVE  x = y
<1>1. Precedes(dir, x, d) /\ Precedes(dir, y, d)
  BY LastIsFollowed
<1> QED BY <1>1 DEF Precedes, Cyclic

\* One more, between two that follow each other.
LEMMA RotationGrows ==
  ASSUME NEW dir, NEW next, Rotation(dir, next), NEW big, Spread(big),
         NEW a, a \notin DOMAIN dir, DOMAIN big = DOMAIN dir \cup {a},
         \A x \in DOMAIN dir : big[x] = dir[x],
         NEW first \in DOMAIN dir, Follows(big, a, first),
         NEW last \in DOMAIN dir, Precedes(big, last, a),
         NEW now, DOMAIN now = DOMAIN big,
         \A x \in DOMAIN big : now[x] = IF x = a THEN first ELSE IF x = last THEN a ELSE next[x]
  PROVE  Rotation(big, now)
<1>1. Cyclic(big)
  BY SpreadIsCyclic
<1>2. \A x, y, z \in DOMAIN dir : Met(dir, x, y, z) <=> Met(big, x, y, z)
  BY DEF Met
<1>3. Follows(big, last, a)
  BY <1>1, LastIsFollowed
<1>4. ASSUME NEW d \in DOMAIN dir, d # last
      PROVE  Follows(big, d, next[d])
  <2> DEFINE r == next[d]
  <2>1. r \in DOMAIN dir /\ Follows(dir, d, r)
    BY DEF Rotation, Follows
  <2> HIDE DEF r
  <2>2. Met(big, a, d, last)
    BY <1>1, <1>4 DEF Precedes, Cyclic
  <2>3. Met(big, d, last, a)
    BY <1>1, <1>4, <2>2 DEF Cyclic
  <2>4. r # d
    BY <1>4, <2>1 DEF Follows
  <2>5. \A y \in DOMAIN dir \ {d} : ~ Met(big, d, y, r)
    BY <1>2, <2>1 DEF Follows
  <2>6. ~ Met(big, d, a, r)
    BY <1>1, <1>4, <2>1, <2>3, <2>5 DEF Cyclic
  <2> QED BY <2>1, <2>4, <2>5, <2>6 DEF Follows, r
<1>5. \A d \in DOMAIN big : Follows(big, d, now[d])
  BY <1>3, <1>4
<1>6. ASSUME NEW d \in DOMAIN big
      PROVE  \E c \in DOMAIN big : now[c] = d
  <2>1. CASE d = a
    BY <2>1
  <2>2. CASE d # a
    <3>1. PICK c \in DOMAIN dir : next[c] = d
      BY <2>2 DEF Rotation
    <3>2. CASE c # last
      BY <3>1, <3>2
    <3>3. CASE c = last
      <4>1. Follows(dir, last, d)
        BY <3>1, <3>3 DEF Rotation
      <4>2. first = d
        <5>1. CASE DOMAIN dir = {last}
          BY <4>1, <5>1 DEF Follows
        <5>2. CASE DOMAIN dir # {last}
          <6>1. d # last /\ d \in DOMAIN dir
            BY <4>1, <5>2 DEF Follows
          <6>2. ASSUME first # d PROVE FALSE
            <7>1. Met(big, a, first, d)
              BY <1>1, <6>1, <6>2 DEF Follows, Cyclic
            <7>2. Met(big, a, d, last)
              BY <1>1, <6>1 DEF Precedes, Cyclic
            <7>3. first # last
              BY <1>1, <7>1, <7>2, <6>1 DEF Cyclic
            <7>4. Met(big, first, d, a) /\ Met(big, d, a, first)
              BY <1>1, <6>1, <6>2, <7>1 DEF Cyclic
            <7>5. Met(big, d, last, a)
              BY <1>1, <6>1, <7>2 DEF Cyclic
            <7>6. Met(big, d, last, first)
              BY <1>1, <6>1, <7>4, <7>5 DEF Cyclic
            <7>7. Met(big, last, first, d)
              BY <1>1, <6>1, <6>2, <7>3, <7>6 DEF Cyclic
            <7> QED BY <1>2, <4>1, <6>1, <7>3, <7>7 DEF Follows
          <6> QED BY <6>2
        <5> QED BY <5>1, <5>2
      <4> QED BY <4>2
    <3> QED BY <3>2, <3>3
  <2> QED BY <2>1, <2>2
<1> QED BY <1>5, <1>6 DEF Rotation

\* One less: who was followed by it is followed by the one that followed it.
LEMMA RotationShrinks ==
  ASSUME NEW big, NEW next, Spread(big), Rotation(big, next), NEW b \in DOMAIN big,
         NEW dir, DOMAIN dir = DOMAIN big \ {b}, \A x \in DOMAIN dir : dir[x] = big[x],
         NEW now, DOMAIN now = DOMAIN dir,
         \A x \in DOMAIN dir : now[x] = IF next[x] = b THEN next[b] ELSE next[x]
  PROVE  Rotation(dir, now)
<1>1. Cyclic(big)
  BY SpreadIsCyclic
<1>2. \A x, y, z \in DOMAIN dir : Met(dir, x, y, z) <=> Met(big, x, y, z)
  BY DEF Met
<1>3. ASSUME NEW d \in DOMAIN dir
      PROVE  Follows(dir, d, now[d])
  <2> DEFINE r == next[d]
             q == next[b]
  <2>1. Follows(big, d, r) /\ r \in DOMAIN big
    BY <1>3 DEF Rotation, Follows
  <2>2. d \in DOMAIN big /\ d # b /\ now[d] = IF r = b THEN q ELSE r
    BY <1>3
  <2>3. CASE r # b
    <3>1. r \in DOMAIN dir /\ now[d] = r
      BY <2>1, <2>2, <2>3
    <3>2. r = d => DOMAIN dir = {d}
      BY <2>1, <2>2 DEF Follows
    <3>3. \A y \in DOMAIN dir \ {d} : ~ Met(dir, d, y, r)
      BY <1>2, <1>3, <2>1, <3>1 DEF Follows
    <3> QED BY <3>1, <3>2, <3>3 DEF Follows
  <2>4. CASE r = b
    <3>1. Follows(big, b, q) /\ q \in DOMAIN big
      BY DEF Rotation, Follows
    <3>2. q # b
      BY <2>2, <3>1 DEF Follows
    <3>3. q \in DOMAIN dir /\ now[d] = q
      BY <2>2, <2>4, <3>1, <3>2
    <3> HIDE DEF q, r
    <3>4. ASSUME NEW y \in DOMAIN dir, y # d, q = d \/ Met(big, d, y, q) PROVE FALSE
      <4>1. y \in DOMAIN big /\ y # b
        BY <3>4
      <4>2. ~ Met(big, d, y, b)
        BY <2>1, <2>4, <4>1, <3>4 DEF Follows
      <4>3. Met(big, d, b, y)
        BY <1>1, <2>2, <4>1, <4>2 DEF Cyclic
      <4>4. Met(big, b, y, d)
        BY <1>1, <2>2, <4>1, <4>3, <3>4 DEF Cyclic
      <4>5. q # d /\ Met(big, d, y, q)
        BY <3>1, <3>4, <4>1, <4>4 DEF Follows
      <4>6. y # q
        BY <1>1, <2>2, <4>1, <4>5 DEF Cyclic
      <4>7. Met(big, y, q, d)
        BY <1>1, <2>2, <3>1, <3>4, <4>1, <4>5, <4>6 DEF Cyclic
      <4>8. Met(big, y, d, b)
        BY <1>1, <2>2, <3>4, <4>1, <4>3, <4>4 DEF Cyclic
      <4>9. Met(big, y, q, b)
        BY <1>1, <2>2, <3>1, <4>1, <4>7, <4>8 DEF Cyclic
      <4>10. Met(big, b, y, q)
        BY <1>1, <3>1, <3>2, <4>1, <4>6, <4>9 DEF Cyclic
      <4> QED BY <3>1, <4>1, <4>10 DEF Follows
    <3>5. q = d => DOMAIN dir = {d}
      BY <1>3, <3>4
    <3>6. \A y \in DOMAIN dir \ {d} : ~ Met(dir, d, y, q)
      BY <1>2, <1>3, <3>3, <3>4
    <3> QED BY <3>3, <3>5, <3>6 DEF Follows
  <2> QED BY <2>3, <2>4
<1>4. ASSUME NEW d \in DOMAIN dir
      PROVE  \E c \in DOMAIN dir : now[c] = d
  <2>1. PICK c \in DOMAIN big : next[c] = d
    BY <1>4 DEF Rotation
  <2>2. CASE c # b
    BY <1>4, <2>1, <2>2
  <2>3. CASE c = b
    <3>1. PICK z \in DOMAIN big : next[z] = b
      BY DEF Rotation
    <3>2. z # b
      BY <1>4, <2>1, <2>3, <3>1
    <3> QED BY <2>1, <2>3, <3>1, <3>2
  <2> QED BY <2>2, <2>3
<1> QED BY <1>3, <1>4 DEF Rotation

\* Other names for the same, seen at another distance.
LEMMA RotationRenamed ==
  ASSUME NEW dir, NEW next, Spread(dir), Rotation(dir, next),
         NEW to, NEW now, DOMAIN now = DOMAIN to, Spread(to), NEW f,
         \A x \in DOMAIN dir : f[x] \in DOMAIN to,
         \A x, y \in DOMAIN dir : x # y => f[x] # f[y],
         \A y \in DOMAIN to : \E x \in DOMAIN dir : f[x] = y,
         \A x \in DOMAIN dir : Turn(dir[x], to[f[x]]) = 0 /\ now[f[x]] = f[next[x]]
  PROVE  Rotation(to, now)
<1>1. \A x \in DOMAIN dir : dir[x] \in Way /\ to[f[x]] \in Way
  BY DEF Spread
<1>2. ASSUME NEW x \in DOMAIN dir, NEW y \in DOMAIN dir, NEW z \in DOMAIN dir
      PROVE  Met(to, f[x], f[y], f[z]) <=> Met(dir, x, y, z)
  <2>1. /\ Turn(dir[x], to[f[x]]) = 0 /\ Turn(dir[y], to[f[y]]) = 0 /\ Turn(dir[z], to[f[z]]) = 0
        /\ dir[x] \in Way /\ dir[y] \in Way /\ dir[z] \in Way
        /\ to[f[x]] \in Way /\ to[f[y]] \in Way /\ to[f[z]] \in Way
    BY <1>1
  <2>2. MetBefore(dir[x], dir[y], dir[z]) <=> MetBefore(to[f[x]], to[f[y]], to[f[z]])
    <3> DEFINE u == dir[x]   v == dir[y]   w == dir[z]
               uu == to[f[x]]   vv == to[f[y]]   ww == to[f[z]]
    <3>1. /\ u \in Way /\ v \in Way /\ w \in Way /\ uu \in Way /\ vv \in Way /\ ww \in Way
          /\ Turn(u, uu) = 0 /\ Turn(v, vv) = 0 /\ Turn(w, ww) = 0
      BY <2>1
    <3> HIDE DEF u, v, w, uu, vv, ww
    <3>2. MetBefore(u, v, w) <=> MetBefore(uu, vv, ww)
      BY <3>1, MetBySameWays
    <3> QED BY <3>2 DEF u, v, w, uu, vv, ww
  <2> QED BY <2>2 DEF Met
<1>3. ASSUME NEW d \in DOMAIN to
      PROVE  Follows(to, d, now[d])
  <2>1. PICK x \in DOMAIN dir : f[x] = d
    BY <1>3
  <2>2. Follows(dir, x, next[x]) /\ next[x] \in DOMAIN dir
    BY DEF Rotation, Follows
  <2>3. now[d] = f[next[x]]
    BY <2>1
  <2>4. now[d] = d => DOMAIN to = {d}
    <3> SUFFICES ASSUME now[d] = d PROVE DOMAIN to = {d}
      OBVIOUS
    <3>1. next[x] = x
      BY <2>1, <2>2, <2>3
    <3>2. DOMAIN dir = {x}
      BY <2>2, <3>1 DEF Follows
    <3> QED BY <2>1, <3>2
  <2>5. ASSUME NEW y \in DOMAIN to, y # d
        PROVE  ~ Met(to, d, y, now[d])
    <3>1. PICK z \in DOMAIN dir : f[z] = y
      OBVIOUS
    <3>2. ~ Met(dir, x, z, next[x])
      BY <2>1, <2>2, <2>5, <3>1 DEF Follows
    <3> QED BY <1>2, <2>1, <2>2, <2>3, <3>1, <3>2
  <2> QED BY <2>2, <2>3, <2>4, <2>5 DEF Follows
<1>4. ASSUME NEW d \in DOMAIN to
      PROVE  \E c \in DOMAIN to : now[c] = d
  <2>1. PICK x \in DOMAIN dir : f[x] = d
    OBVIOUS
  <2>2. PICK y \in DOMAIN dir : next[y] = x
    BY DEF Rotation
  <2> QED BY <2>1, <2>2
<1> QED BY <1>3, <1>4 DEF Rotation

\* What is left as it was.
LEMMA RotationKept ==
  ASSUME NEW dir, NEW next, Rotation(dir, next), NEW to, NEW now,
         DOMAIN to = DOMAIN dir, DOMAIN now = DOMAIN dir,
         \A x \in DOMAIN dir : to[x] = dir[x] /\ now[x] = next[x]
  PROVE  Rotation(to, now)
<1>1. \A x, y, z \in DOMAIN dir : Met(to, x, y, z) <=> Met(dir, x, y, z)
  BY DEF Met
<1>2. \A d \in DOMAIN dir : Follows(to, d, now[d])
  BY <1>1 DEF Rotation, Follows
<1> QED BY <1>2 DEF Rotation

LEMMA RotationOfNone ==
  ASSUME NEW dir, NEW next, DOMAIN next = DOMAIN dir, DOMAIN dir = {}
  PROVE  Rotation(dir, next)
BY DEF Rotation

LEMMA RotationOfOne ==
  ASSUME NEW dir, NEW next, DOMAIN next = DOMAIN dir, NEW a, DOMAIN dir = {a}, next[a] = a
  PROVE  Rotation(dir, next)
BY DEF Rotation, Follows

LEMMA RotationOfTwo ==
  ASSUME NEW dir, NEW next, DOMAIN next = DOMAIN dir, NEW a, NEW b, a # b, DOMAIN dir = {a, b},
         Spread(dir), next[a] = b, next[b] = a
  PROVE  Rotation(dir, next)
<1>1. ~ Met(dir, a, b, b) /\ ~ Met(dir, b, a, a)
  BY SpreadIsCyclic DEF Cyclic
<1> QED BY <1>1 DEF Rotation, Follows

\* The follower of b follows a, once b is not looked at.
LEMMA FollowerBehind ==
  ASSUME NEW big, Cyclic(big), NEW a \in DOMAIN big, NEW b \in DOMAIN big, a # b,
         NEW c \in DOMAIN big \ {a, b}, Follows(big, a, b), NEW x, Follows(big, b, x)
  PROVE  /\ x \in DOMAIN big \ {a, b}
         /\ \A y \in DOMAIN big \ {a, b} : ~ Met(big, a, y, x)
<1>1. x \in DOMAIN big /\ x # b
  BY DEF Follows
<1>2. x # a
  <2> SUFFICES ASSUME x = a PROVE FALSE
    OBVIOUS
  <2>1. Met(big, a, b, c) /\ Met(big, b, a, c)
    BY <1>1 DEF Follows, Cyclic
  <2>2. Met(big, b, c, a)
    BY <2>1 DEF Cyclic
  <2> QED BY <2>1, <2>2 DEF Cyclic
<1>3. ASSUME NEW y \in DOMAIN big \ {a, b}, Met(big, a, y, x) PROVE FALSE
  <2>1. y # x
    BY <1>1, <1>3 DEF Cyclic
  <2>2. Met(big, a, b, y)
    BY <1>3 DEF Follows, Cyclic
  <2>3. Met(big, b, y, a) /\ Met(big, y, a, b)
    BY <1>3, <2>2 DEF Cyclic
  <2>4. Met(big, y, x, a)
    BY <1>1, <1>2, <1>3, <2>1 DEF Cyclic
  <2>5. Met(big, y, x, b)
    BY <1>1, <1>3, <2>3, <2>4 DEF Cyclic
  <2>6. Met(big, b, y, x)
    BY <1>1, <1>3, <2>1, <2>5 DEF Cyclic
  <2> QED BY <1>3, <2>6 DEF Follows
<1> QED BY <1>1, <1>2, <1>3

LEMMA PrecederBefore ==
  ASSUME NEW big, Cyclic(big), NEW a \in DOMAIN big, NEW b \in DOMAIN big, a # b,
         NEW c \in DOMAIN big \ {a, b}, Precedes(big, b, a), NEW x, Precedes(big, x, b)
  PROVE  /\ x \in DOMAIN big \ {a, b}
         /\ \A y \in DOMAIN big \ {a, b} : ~ Met(big, a, x, y)
<1>1. x \in DOMAIN big /\ x # b
  BY DEF Precedes
<1>2. x # a
  <2> SUFFICES ASSUME x = a PROVE FALSE
    OBVIOUS
  <2>1. Met(big, a, c, b) /\ Met(big, b, c, a)
    BY <1>1 DEF Precedes, Cyclic
  <2>2. Met(big, b, a, c)
    BY <2>1 DEF Cyclic
  <2> QED BY <2>1, <2>2 DEF Cyclic
<1>3. ASSUME NEW y \in DOMAIN big \ {a, b}, Met(big, a, x, y) PROVE FALSE
  <2>1. y # x
    BY <1>1, <1>3 DEF Cyclic
  <2>2. Met(big, a, y, b)
    BY <1>3 DEF Precedes, Cyclic
  <2>3. Met(big, y, b, a) /\ Met(big, b, a, y)
    BY <1>3, <2>2 DEF Cyclic
  <2>4. Met(big, y, a, x)
    BY <1>1, <1>2, <1>3, <2>1 DEF Cyclic
  <2>5. Met(big, y, b, x)
    BY <1>1, <1>3, <2>3, <2>4 DEF Cyclic
  <2>6. Met(big, b, x, y)
    BY <1>1, <1>3, <2>1, <2>5 DEF Cyclic
  <2> QED BY <1>3, <2>6 DEF Precedes
<1> QED BY <1>1, <1>2, <1>3

\* Two more at once, each placed with the other one in sight.
LEMMA RotationGrowsByTwo ==
  ASSUME NEW dir, NEW next, Rotation(dir, next), NEW c \in DOMAIN dir, NEW big, Spread(big),
         NEW a, NEW b, a # b, a \notin DOMAIN dir, b \notin DOMAIN dir,
         DOMAIN big = DOMAIN dir \cup {a, b}, \A x \in DOMAIN dir : big[x] = dir[x],
         NEW first, Follows(big, a, first), NEW last, Precedes(big, last, a),
         NEW head, Follows(big, b, head), NEW tail, Precedes(big, tail, b),
         NEW now, DOMAIN now = DOMAIN big, now[a] = first, now[b] = head,
         \A x \in DOMAIN dir : now[x] = IF x = tail THEN b ELSE IF x = last THEN a ELSE next[x]
  PROVE  Rotation(big, now)
<1> DEFINE mid == [x \in DOMAIN dir \cup {a} |-> big[x]]
           f == IF first = b THEN head ELSE first
           l == IF last = b THEN tail ELSE last
           then == [x \in DOMAIN dir \cup {a} |-> IF x = a THEN f ELSE IF x = l THEN a ELSE next[x]]
<1>1. Cyclic(big)
  BY SpreadIsCyclic
<1>2. /\ DOMAIN mid = DOMAIN dir \cup {a}
      /\ \A x \in DOMAIN mid : mid[x] = big[x] /\ x \in DOMAIN big /\ x # b
      /\ c \in DOMAIN big \ {a, b}
  OBVIOUS
<1>3. \A x, y, z \in DOMAIN mid : Met(mid, x, y, z) <=> Met(big, x, y, z)
  BY <1>2 DEF Met
<1>4. Spread(mid)
  BY <1>2 DEF Spread
<1>5. /\ first \in DOMAIN big /\ first # a /\ last \in DOMAIN big /\ last # a
      /\ head \in DOMAIN big /\ head # b /\ tail \in DOMAIN big /\ tail # b
  BY <1>2 DEF Follows, Precedes
<1>6. f \in DOMAIN dir /\ \A y \in DOMAIN dir : ~ Met(big, a, y, f)
  <2>1. CASE first = b
    BY <1>1, <1>2, <2>1, FollowerBehind
  <2>2. CASE first # b
    BY <1>5, <2>2 DEF Follows
  <2> QED BY <2>1, <2>2
<1>7. l \in DOMAIN dir /\ \A y \in DOMAIN dir : ~ Met(big, a, l, y)
  <2>1. CASE last = b
    BY <1>1, <1>2, <2>1, PrecederBefore
  <2>2. CASE last # b
    BY <1>5, <2>2 DEF Precedes
  <2> QED BY <2>1, <2>2
<1>8. first = b <=> tail = a
  <2>1. ASSUME first = b PROVE tail = a
    <3>1. Follows(big, a, b) /\ Follows(big, tail, b)
      BY <1>1, <1>5, <2>1, LastIsFollowed
    <3> QED BY <1>1, <1>5, <3>1, FollowedIsOne
  <2>2. ASSUME tail = a PROVE first = b
    <3>1. Follows(big, a, b)
      BY <1>1, <1>5, <2>2, LastIsFollowed
    <3> QED BY <1>1, <1>5, <3>1, FollowerIsOne
  <2> QED BY <2>1, <2>2
<1>9. Rotation(mid, then)
  <2> HIDE DEF f, l, mid
  <2>1. Follows(mid, a, f) /\ Precedes(mid, l, a)
    BY <1>2, <1>3, <1>6, <1>7 DEF Follows, Precedes
  <2>2. /\ DOMAIN then = DOMAIN mid
        /\ \A x \in DOMAIN mid : then[x] = IF x = a THEN f ELSE IF x = l THEN a ELSE next[x]
    BY <1>2
  <2>3. \A x \in DOMAIN dir : mid[x] = dir[x]
    BY <1>2
  <2> HIDE DEF then
  <2> QED BY <1>2, <1>4, <1>6, <1>7, <2>1, <2>2, <2>3, RotationGrows
<1>10. \A x \in DOMAIN big : now[x] = IF x = b THEN head ELSE IF x = tail THEN b ELSE then[x]
  <2> TAKE x \in DOMAIN big
  <2>1. CASE x = b
    BY <2>1
  <2>2. CASE x = a
    BY <1>8, <2>2
  <2>3. CASE x \in DOMAIN dir
    <3>1. then[x] = IF x = l THEN a ELSE next[x]
      BY <2>3
    <3>2. last = b => l = tail
      OBVIOUS
    <3>3. last # b => l = last
      OBVIOUS
    <3>4. x # b /\ x # a
      BY <2>3
    <3> HIDE DEF then, l
    <3> QED BY <2>3, <3>1, <3>2, <3>3, <3>4
  <2> QED BY <2>1, <2>2, <2>3
<1>11. /\ DOMAIN big = DOMAIN mid \cup {b} /\ b \notin DOMAIN mid
       /\ \A x \in DOMAIN mid : big[x] = mid[x]
       /\ head \in DOMAIN mid /\ tail \in DOMAIN mid
  BY <1>2, <1>5
<1> HIDE DEF mid, then
<1> QED BY <1>9, <1>10, <1>11, RotationGrows

-----------------------------------------------------------------------------
(* Ends of edges around a node.                                            *)

\* Two segments that leave a point in the same direction overlap.
LEMMA SameWayOverlaps ==
  ASSUME NEW p \in Point, NEW b \in Point, NEW c \in Point, p # b, p # c,
         Turn(Direction(p, b), Direction(p, c)) = 0
  PROVE  Overlap(p, b, p, c)
<1> PICK px, py \in Int : p = <<px, py>> /\ p[1] = px /\ p[2] = py BY Coordinates
<1> PICK bx, by \in Int : b = <<bx, by>> /\ b[1] = bx /\ b[2] = by BY Coordinates
<1> PICK cx, cy \in Int : c = <<cx, cy>> /\ c[1] = cx /\ c[2] = cy BY Coordinates
<1> DEFINE u == Direction(p, b)
           v == Direction(p, c)
           ux == bx - px
           uy == by - py
           vx == cx - px
           vy == cy - py
<1>1. /\ u = <<ux, uy>> /\ v = <<vx, vy>> /\ u \in Way /\ v \in Way
      /\ ux \in Int /\ uy \in Int /\ vx \in Int /\ vy \in Int
  BY DEF Direction, Way
<1>2. CrossOf(u, v) = 0 /\ DotOf(u, v) > 0
  BY <1>1, TurnBySigns
<1>3. CrossOf(u, v) = ux * vy - uy * vx /\ DotOf(u, v) = ux * vx + uy * vy
  <2>1. u[1] = ux /\ u[2] = uy /\ v[1] = vx /\ v[2] = vy
    BY <1>1
  <2> HIDE DEF u, v, ux, uy, vx, vy
  <2> QED BY <2>1 DEF CrossOf, DotOf
<1>4. Cross(p, b, c) = ux * vy - uy * vx
  BY DEF Cross
<1>5. Before(p, b) <=> Before(p, c)
  <2>1. /\ Before(p, b) <=> ux > 0 \/ (ux = 0 /\ uy > 0)
        /\ Before(p, c) <=> vx > 0 \/ (vx = 0 /\ vy > 0)
    BY <1>1 DEF Before
  <2> HIDE DEF ux, uy, vx, vy
  <2>2. ux * vy = uy * vx /\ ux * vx + uy * vy > 0
    BY <1>1, <1>2, <1>3
  <2>3. (ux * vx) * (uy * vy) = (ux * vy) * (uy * vx)
    BY <1>1
  <2>4. (ux * vx) * (uy * vy) >= 0
    <3>1. (ux * vx) * (uy * vy) = (ux * vy) * (ux * vy) /\ ux * vy \in Int
      BY <1>1, <2>2, <2>3
    <3> DEFINE k == ux * vy
    <3>2. k \in Int => k * k >= 0
      OBVIOUS
    <3> QED BY <3>1, <3>2
  <2>5. ux * vx >= 0 /\ uy * vy >= 0
    <3> DEFINE k == ux * vx
               m == uy * vy
    <3>1. k \in Int /\ m \in Int /\ k * m >= 0 /\ k + m > 0
      BY <1>1, <2>2, <2>4
    <3> HIDE DEF k, m
    <3>2. k >= 0 /\ m >= 0
      BY <3>1
    <3> QED BY <3>2 DEF k, m
  <2>6. ux = 0 <=> vx = 0
    <3>1. ASSUME ux = 0 PROVE vx = 0
      <4>1. uy * vx = 0 /\ uy * vy > 0
        BY <1>1, <2>2, <3>1
      <4>2. uy # 0
        BY <1>1, <4>1
      <4> QED BY <1>1, <4>1, <4>2, SignOfProduct
    <3>2. ASSUME vx = 0 PROVE ux = 0
      <4>1. ux * vy = 0 /\ uy * vy > 0
        BY <1>1, <2>2, <3>2
      <4>2. vy # 0
        BY <1>1, <4>1
      <4> QED BY <1>1, <4>1, <4>2, SignOfProduct
    <3> QED BY <3>1, <3>2
  <2>7. ux > 0 <=> vx > 0
    BY <1>1, <2>5, <2>6, SignOfProduct
  <2>8. ux = 0 => (uy > 0 <=> vy > 0)
    <3> SUFFICES ASSUME ux = 0 PROVE uy > 0 <=> vy > 0
      OBVIOUS
    <3>1. uy * vy > 0
      BY <1>1, <2>2
    <3> QED BY <1>1, <3>1, SignOfProduct
  <2> QED BY <2>1, <2>6, <2>7, <2>8
<1>6. Cross(p, b, p) = 0 /\ Cross(p, b, c) = 0
  BY <1>2, <1>3, <1>4, CrossAtEnds
<1>7. Before(Lower(p, b), Higher(p, c)) /\ Before(Lower(p, c), Higher(p, b))
  BY <1>5, BeforeIsTotal DEF Lower, Higher
<1> QED BY <1>6, <1>7, OverlapEnds

LEMMA OverlapEitherWay ==
  ASSUME NEW a \in Point, NEW b \in Point, NEW c \in Point, NEW d \in Point, Overlap(a, b, c, d)
  PROVE  Overlap(b, a, c, d) /\ Overlap(a, b, d, c)
<1>1. Cross(b, a, c) = - Cross(a, b, c) /\ Cross(b, a, d) = - Cross(a, b, d)
  <2> PICK ax, ay \in Int : a = <<ax, ay>> /\ a[1] = ax /\ a[2] = ay BY Coordinates
  <2> PICK bx, by \in Int : b = <<bx, by>> /\ b[1] = bx /\ b[2] = by BY Coordinates
  <2>1. ASSUME NEW p \in Point PROVE Cross(b, a, p) = - Cross(a, b, p)
    <3> PICK px, py \in Int : p = <<px, py>> /\ p[1] = px /\ p[2] = py BY Coordinates
    <3>1. /\ Cross(b, a, p) = (ax - bx) * (py - by) - (ay - by) * (px - bx)
          /\ Cross(a, b, p) = (bx - ax) * (py - ay) - (by - ay) * (px - ax)
      BY DEF Cross
    <3>2. (ax - bx) * (py - by) - (ay - by) * (px - bx)
          = -((bx - ax) * (py - ay) - (by - ay) * (px - ax))
      OBVIOUS
    <3> QED BY <3>1, <3>2
  <2> QED BY <2>1
<1>2. ASSUME NEW p \in Point, NEW q \in Point
      PROVE  Lower(p, q) = Lower(q, p) /\ Higher(p, q) = Higher(q, p)
  BY BeforeIsTotal DEF Lower, Higher
<1>3. Cross(b, a, c) = 0 /\ Cross(b, a, d) = 0
  BY <1>1, OverlapEnds
<1> QED BY <1>2, <1>3, OverlapEnds

Star(s, n)  == [d \in DartsAt(s, n) |-> Leaving(s, d)]
Links(s, n) == [d \in DartsAt(s, n) |-> Next(s, -d)]

\* Around each node the links are the rotation of the edge ends.
Turning(s) == \A n \in DOMAIN s.node : Rotation(Star(s, n), Links(s, n))

LEMMA DartIsSigned ==
  ASSUME NEW s, Typed(s), NEW d \in DartsOf(s)
  PROVE  /\ d \in Int /\ d # 0 /\ -d \in DartsOf(s) /\ -(-d) = d /\ -d # d
         /\ EdgeOf(d) \in DOMAIN s.edge /\ EdgeOf(-d) = EdgeOf(d)
         /\ d \in {EdgeOf(d), -EdgeOf(d)}
         /\ Target(s, d) = Origin(s, -d) /\ Origin(s, d) = Target(s, -d)
<1>1. DOMAIN s.edge \subseteq EdgeIds
  BY DEF Typed, IsTopology
<1>2. DOMAIN s.edge \subseteq Nat \ {0}
  BY <1>1, IdentifiersArePositive
<1>3. d \in Int /\ d # 0
  BY <1>2 DEF DartsOf
<1>4. -(-d) = d
  BY <1>3
<1>5. -d \in DartsOf(s)
  <2>1. CASE d \in DOMAIN s.edge
    BY <2>1 DEF DartsOf
  <2>2. CASE d \notin DOMAIN s.edge
    <3>1. PICK e \in DOMAIN s.edge : d = -e
      BY <2>2 DEF DartsOf
    <3>2. -d = e
      BY <1>2, <3>1
    <3> QED BY <3>2 DEF DartsOf
  <2> QED BY <2>1, <2>2
<1>6. EdgeOf(d) \in DOMAIN s.edge /\ EdgeOf(-d) = EdgeOf(d) /\ d \in {EdgeOf(d), -EdgeOf(d)}
  BY <1>2, <1>3 DEF DartsOf, EdgeOf
<1> QED BY <1>3, <1>4, <1>5, <1>6 DEF Target

\* The first segment of a dart is a segment of its edge.
LEMMA FirstSegment ==
  ASSUME NEW s, Typed(s), Flat(s), NEW d \in DartsOf(s)
  PROVE  LET g == s.line[EdgeOf(d)]
             p == Path(s, d)
         IN  /\ p \in Line /\ g \in Line /\ IsSimple(g)
             /\ p[1] \in Point /\ p[2] \in Point /\ p[1] # p[2]
             /\ Leaving(s, d) \in Way
             /\ Origin(s, d) \in DOMAIN s.node /\ p[1] = s.point[Origin(s, d)]
             /\ d > 0 => p[1] = g[1] /\ p[2] = g[2]
             /\ d < 0 => p[1] = g[Len(g)] /\ p[2] = g[Len(g) - 1]
<1> DEFINE g == s.line[EdgeOf(d)]
           p == Path(s, d)
<1>1. d \in Int /\ d # 0 /\ EdgeOf(d) \in DOMAIN s.edge
  BY DartIsSigned
<1>2. g \in Line /\ IsSimple(g)
  BY <1>1 DEF Flat, EdgeDrawn
<1>3. /\ p \in Line /\ Origin(s, d) \in DOMAIN s.node
      /\ StartPoint(p) = s.point[Origin(s, d)]
  BY DartDrawn
<1>4. /\ Len(p) \in Nat /\ Len(p) >= 2 /\ p[1] \in Point /\ p[2] \in Point /\ p[1] # p[2]
      /\ Len(g) \in Nat /\ Len(g) >= 2
  <2>1. /\ Len(p) \in Nat /\ Len(p) >= 2 /\ \A i \in 1 .. Len(p) : p[i] \in Point
        /\ \A i \in 1 .. Len(p) - 1 : p[i] # p[i + 1]
    BY <1>3, LineVertices
  <2>2. 1 \in 1 .. Len(p) /\ 2 \in 1 .. Len(p) /\ 1 \in 1 .. Len(p) - 1 /\ 1 + 1 = 2
    BY <2>1
  <2>3. p[1] # p[2]
    BY <2>1, <2>2
  <2> QED BY <1>2, <2>1, <2>2, <2>3, LineVertices
<1>5. Leaving(s, d) \in Way
  <2>1. Leaving(s, d) = Direction(p[1], p[2])
    BY DEF Leaving
  <2> HIDE DEF p
  <2> PICK ax, ay \in Int : p[1] = <<ax, ay>> /\ p[1][1] = ax /\ p[1][2] = ay BY <1>4, Coordinates
  <2> PICK bx, by \in Int : p[2] = <<bx, by>> /\ p[2][1] = bx /\ p[2][2] = by BY <1>4, Coordinates
  <2>2. Direction(p[1], p[2]) = <<bx - ax, by - ay>>
    BY DEF Direction
  <2>3. bx - ax # 0 \/ by - ay # 0
    BY <1>4
  <2> QED BY <2>1, <2>2, <2>3 DEF Way
<1>6. d > 0 => p = g
  BY DEF Path, EdgeOf
<1>7. d < 0 => p[1] = g[Len(g)] /\ p[2] = g[Len(g) - 1]
  <2> SUFFICES ASSUME d < 0 PROVE p[1] = g[Len(g)] /\ p[2] = g[Len(g) - 1]
    OBVIOUS
  <2>1. p = Reverse(g)
    BY <1>1 DEF Path, EdgeOf
  <2>2. \A i \in 1 .. Len(g) : p[i] = g[Len(g) - i + 1]
    BY <1>2, <2>1, ReversedLine
  <2>3. 1 \in 1 .. Len(g) /\ 2 \in 1 .. Len(g) /\ Len(g) - 1 + 1 = Len(g) /\ Len(g) - 2 + 1 = Len(g) - 1
    BY <1>4
  <2> HIDE DEF p, g
  <2>4. p[1] = g[Len(g) - 1 + 1] /\ p[2] = g[Len(g) - 2 + 1]
    BY <2>2, <2>3
  <2> QED BY <2>3, <2>4
<1> QED BY <1>1, <1>2, <1>3, <1>4, <1>5, <1>6, <1>7 DEF StartPoint

\* Two ends of edges leave a node in different directions.
LEMMA EndsAreSpread ==
  ASSUME NEW s, Typed(s), Flat(s), NEW n \in DOMAIN s.node
  PROVE  Spread(Star(s, n))
<1>1. \A d \in DartsAt(s, n) : d \in DartsOf(s) /\ Origin(s, d) = n
  BY DEF DartsAt
<1>2. ASSUME NEW c \in DartsAt(s, n), NEW d \in DartsAt(s, n), c # d,
             Turn(Leaving(s, c), Leaving(s, d)) = 0
      PROVE  FALSE
  <2> DEFINE g == s.line[EdgeOf(c)]
             h == s.line[EdgeOf(d)]
             p == Path(s, c)
             q == Path(s, d)
  <2>1. /\ c \in DartsOf(s) /\ d \in DartsOf(s) /\ p[1] = q[1]
        /\ p[1] \in Point /\ p[2] \in Point /\ p[1] # p[2]
        /\ q[1] \in Point /\ q[2] \in Point /\ q[1] # q[2]
        /\ g \in Line /\ h \in Line /\ IsSimple(g)
    BY <1>1, FirstSegment
  <2>2. Overlap(p[1], p[2], q[1], q[2])
    <3>1. Turn(Direction(p[1], p[2]), Direction(q[1], q[2])) = 0
      BY <1>2 DEF Leaving
    <3> HIDE DEF p, q
    <3> QED BY <2>1, <3>1, SameWayOverlaps
  <2>3. /\ Overlap(p[1], p[2], q[1], q[2]) /\ Overlap(p[2], p[1], q[1], q[2])
        /\ Overlap(p[1], p[2], q[2], q[1]) /\ Overlap(p[2], p[1], q[2], q[1])
    <3> HIDE DEF p, q
    <3> QED BY <2>1, <2>2, OverlapEitherWay
  <2>4. /\ c > 0 => p[1] = g[1] /\ p[2] = g[2]
        /\ c < 0 => p[1] = g[Len(g)] /\ p[2] = g[Len(g) - 1]
        /\ d > 0 => q[1] = h[1] /\ q[2] = h[2]
        /\ d < 0 => q[1] = h[Len(h)] /\ q[2] = h[Len(h) - 1]
    BY <2>1, FirstSegment
  <2>5. /\ c \in Int /\ c # 0 /\ c \in {EdgeOf(c), -EdgeOf(c)} /\ EdgeOf(c) \in DOMAIN s.edge
        /\ d \in Int /\ d # 0 /\ d \in {EdgeOf(d), -EdgeOf(d)} /\ EdgeOf(d) \in DOMAIN s.edge
    BY <2>1, DartIsSigned
  <2>6. /\ Len(g) \in Nat /\ Len(g) >= 2 /\ Len(h) \in Nat /\ Len(h) >= 2
    BY <2>1, LineVertices
  <2> DEFINE i == IF c > 0 THEN 1 ELSE Len(g) - 1
             j == IF d > 0 THEN 1 ELSE Len(h) - 1
  <2>7. /\ i \in 1 .. Len(g) - 1 /\ j \in 1 .. Len(h) - 1
        /\ c > 0 => i = 1 /\ i + 1 = 2
        /\ c < 0 => i = Len(g) - 1 /\ i + 1 = Len(g)
        /\ d > 0 => j = 1 /\ j + 1 = 2
        /\ d < 0 => j = Len(h) - 1 /\ j + 1 = Len(h)
    BY <2>5, <2>6
  <2> HIDE DEF p, q, g, h, i, j
  <2>8. /\ (p[1] = g[i] /\ p[2] = g[i + 1]) \/ (p[1] = g[i + 1] /\ p[2] = g[i])
        /\ (q[1] = h[j] /\ q[2] = h[j + 1]) \/ (q[1] = h[j + 1] /\ q[2] = h[j])
    BY <2>4, <2>5, <2>7
  <2>9. Overlap(g[i], g[i + 1], h[j], h[j + 1])
    BY <2>3, <2>8
  <2>10. CASE EdgeOf(c) # EdgeOf(d)
    <3>1. InteriorsMeet(g, h)
      <4> DEFINE t == <<g[i], g[i + 1]>>
                 u == <<h[j], h[j + 1]>>
      <4>1. t \in Segments(g) /\ u \in Segments(h)
        BY <2>7 DEF Segments
      <4>2. t[1] = g[i] /\ t[2] = g[i + 1] /\ u[1] = h[j] /\ u[2] = h[j + 1]
        OBVIOUS
      <4> HIDE DEF t, u
      <4>3. Overlap(t[1], t[2], u[1], u[2])
        BY <2>9, <4>2
      <4> QED BY <4>1, <4>3 DEF InteriorsMeet
    <3>2. ~ InteriorsMeet(g, h)
      BY <2>5, <2>10, FlatIsPlanar DEF IsPlanar, g, h
    <3> QED BY <3>1, <3>2
  <2>11. CASE EdgeOf(c) = EdgeOf(d)
    <3>1. g = h /\ ((c > 0 /\ d < 0) \/ (c < 0 /\ d > 0))
      BY <1>2, <2>5, <2>11 DEF EdgeOf, g, h
    <3>2. i # j
      <4> SUFFICES ASSUME i = j PROVE FALSE
        OBVIOUS
      <4>1. Len(g) = 2
        BY <2>6, <2>7, <3>1
      <4>2. p[1] = q[2] /\ p[2] = q[1]
        BY <2>4, <3>1, <4>1
      <4> QED BY <2>1, <4>2
    <3>3. /\ \A k, m \in 1 .. Len(g) - 1 : k < m => ~ Overlap(g[k], g[k + 1], g[m], g[m + 1])
      BY <2>1 DEF IsSimple
    <3>4. i \in Int /\ j \in Int /\ j \in 1 .. Len(g) - 1
      BY <2>6, <2>7, <3>1
    <3>5. CASE i < j
      BY <2>7, <2>9, <3>1, <3>3, <3>4, <3>5
    <3>6. CASE j < i
      <4>1. c < 0 /\ d > 0
        BY <2>6, <2>7, <3>1, <3>6
      <4>2. Overlap(q[1], q[2], p[1], p[2])
        <5>1. Turn(Direction(q[1], q[2]), Direction(p[1], p[2])) = 0
          <6>1. Turn(Leaving(s, d), Leaving(s, c)) = (4 - 0) % 4
            BY <1>2, <2>1, FirstSegment, TurnBack
          <6>2. (4 - 0) % 4 = 0
            OBVIOUS
          <6> QED BY <6>1, <6>2 DEF Leaving, p, q
        <5> QED BY <2>1, <5>1, SameWayOverlaps
      <4>3. Overlap(q[1], q[2], p[2], p[1])
        BY <2>1, <4>2, OverlapEitherWay
      <4>4. q[1] = g[j] /\ q[2] = g[j + 1] /\ p[2] = g[i] /\ p[1] = g[i + 1]
        BY <2>4, <2>7, <3>1, <4>1
      <4> QED BY <2>7, <3>3, <3>4, <3>6, <4>3, <4>4
    <3> QED BY <3>2, <3>4, <3>5, <3>6
  <2> QED BY <2>10, <2>11
<1>3. \A d \in DartsAt(s, n) : Leaving(s, d) \in Way
  BY <1>1, FirstSegment
<1> QED BY <1>2, <1>3 DEF Spread, Star

\* What turns is what LinksFollowRotation asks for.
LEMMA TurningIsClockwise ==
  ASSUME NEW s, Typed(s), Flat(s), Turning(s)
  PROVE  LinksTurnClockwise(s)
<1> SUFFICES ASSUME NEW d \in DartsOf(s)
             PROVE  LET others == DartsAt(s, Target(s, d)) \ {-d}
                    IN  IF others = {} THEN Next(s, d) = -d
                        ELSE /\ Next(s, d) \in others
                             /\ \A x \in others :
                                  ~ MetBefore(Leaving(s, -d), Leaving(s, x), Leaving(s, Next(s, d)))
  BY DEF LinksTurnClockwise
<1> DEFINE n == Target(s, d)
           c == -d
           dir == Star(s, n)
<1>1. /\ c \in DartsOf(s) /\ -c = d /\ Origin(s, c) = n /\ n \in DOMAIN s.node
  BY DartIsSigned, DartDrawn DEF Target
<1>2. c \in DartsAt(s, n) /\ DOMAIN dir = DartsAt(s, n)
  BY <1>1 DEF DartsAt, Star
<1>3. Rotation(dir, Links(s, n)) /\ Links(s, n)[c] = Next(s, d)
  BY <1>1, <1>2 DEF Turning, Links
<1>4. Follows(dir, c, Next(s, d))
  BY <1>2, <1>3 DEF Rotation
<1>5. \A x \in DartsAt(s, n) : dir[x] = Leaving(s, x)
  BY DEF Star
<1> HIDE DEF dir, c, n
<1> QED BY <1>2, <1>4, <1>5 DEF Follows, Met, c, n

-----------------------------------------------------------------------------
(* Changes that leave edges, their ends, lines and links as they are.      *)

SameLinks(s, t) ==
  /\ DOMAIN t.edge = DOMAIN s.edge /\ t.line = s.line
  /\ \A e \in DOMAIN s.edge : /\ t.edge[e].start_node = s.edge[e].start_node
                              /\ t.edge[e].end_node = s.edge[e].end_node
                              /\ t.edge[e].next_left = s.edge[e].next_left
                              /\ t.edge[e].next_right = s.edge[e].next_right

LEMMA SameLinksIsTransitive ==
  ASSUME NEW s, NEW t, NEW u, SameLinks(s, t), SameLinks(t, u)
  PROVE  SameLinks(s, u)
BY DEF SameLinks

LEMMA NoDartsElsewhere ==
  ASSUME NEW s, Typed(s), Flat(s), NEW n, n \notin DOMAIN s.node
  PROVE  DartsAt(s, n) = {}
BY DartDrawn DEF DartsAt

LEMMA SameLinksTurn ==
  ASSUME NEW s, Typed(s), Flat(s), Turning(s), NEW t, SameLinks(s, t)
  PROVE  Turning(t)
<1> SUFFICES ASSUME NEW n \in DOMAIN t.node
             PROVE  Rotation(Star(t, n), Links(t, n))
  BY DEF Turning
<1>1. DartsOf(t) = DartsOf(s)
  BY DEF SameLinks, DartsOf
<1>2. ASSUME NEW d \in DartsOf(s)
      PROVE  Origin(t, d) = Origin(s, d) /\ Leaving(t, d) = Leaving(s, d) /\ Next(t, -d) = Next(s, -d)
  <2>1. d \in Int /\ d # 0 /\ EdgeOf(d) \in DOMAIN s.edge
    BY DartIsSigned
  <2>2. Path(t, d) = Path(s, d)
    BY DEF Path, SameLinks
  <2>3. CASE d > 0
    BY <2>1, <2>2, <2>3 DEF EdgeOf, Origin, Leaving, Next, SameLinks
  <2>4. CASE d < 0
    <3>1. -(-d) = d /\ -d > 0 /\ ~ (d > 0) /\ -d \in DOMAIN s.edge
      BY <2>1, <2>4 DEF EdgeOf
    <3> QED BY <2>2, <3>1 DEF Origin, Leaving, Next, SameLinks
  <2> QED BY <2>1, <2>3, <2>4
<1>3. DartsAt(t, n) = DartsAt(s, n)
  BY <1>1, <1>2 DEF DartsAt
<1>4. Rotation(Star(s, n), Links(s, n))
  <2>1. CASE n \in DOMAIN s.node
    BY <2>1 DEF Turning
  <2>2. CASE n \notin DOMAIN s.node
    <3>1. DartsAt(s, n) = {}
      BY <2>2, NoDartsElsewhere
    <3> QED BY <3>1, RotationOfNone DEF Star, Links
  <2> QED BY <2>1, <2>2
<1>5. /\ DOMAIN Star(t, n) = DOMAIN Star(s, n) /\ DOMAIN Links(t, n) = DOMAIN Star(s, n)
      /\ \A x \in DOMAIN Star(s, n) : Star(t, n)[x] = Star(s, n)[x] /\ Links(t, n)[x] = Links(s, n)[x]
  BY <1>2, <1>3 DEF Star, Links, DartsAt
<1> QED BY <1>4, <1>5, RotationKept

LEMMA SplitEdgeRowKeepsLinks ==
  ASSUME NEW s, Typed(s), NEW e \in DOMAIN s.edge, NEW ring, NEW outside, NEW face, NEW nf
  PROVE  LET row == SplitEdgeRow(s, e, ring, outside, face, nf)
         IN  /\ row.start_node = s.edge[e].start_node /\ row.end_node = s.edge[e].end_node
             /\ row.next_left = s.edge[e].next_left /\ row.next_right = s.edge[e].next_right
<1>1. s.edge[e] \in EdgeRow
  BY DEF Typed, IsTopology
<1>2. PICK fl, fr :
        SplitEdgeRow(s, e, ring, outside, face, nf) \in
          {s.edge[e], [s.edge[e] EXCEPT !.face_left = fl, !.face_right = fr]}
  BY DEF SplitEdgeRow
<1> QED BY <1>1, <1>2 DEF EdgeRow

LEMMA AddFaceSplitKeepsLinks ==
  ASSUME NEW s, Typed(s), NEW d, NEW face, NEW mbrOnly, NEW nf
  PROVE  SameLinks(s, AddFaceSplit(s, d, face, mbrOnly, nf).topo)
<1> DEFINE ring    == Ring(s, d)
           isccw   == RingSweep(s, ring) >= 0
           outside == face # Universe /\ ~ isccw
           box     == SplitBox(s, ring, outside, face)
           edges   == [e \in DOMAIN s.edge |-> SplitEdgeRow(s, e, ring, outside, face, nf)]
           nodes   == [n \in DOMAIN s.node |-> SplitNodeFace(s, n, ring, outside, face, nf)]
           narrowed == [s EXCEPT !.mbr[face] = box]
           divided  == [s EXCEPT !.mbr = WithRow(@, nf, box), !.edge = edges, !.node = nodes]
<1>1. AddFaceSplit(s, d, face, mbrOnly, nf).topo \in {s, narrowed, divided}
  BY DEF AddFaceSplit
<1> HIDE DEF box, nodes, outside, ring
<1>2. SameLinks(s, s) /\ SameLinks(s, narrowed)
  BY DEF SameLinks, Typed, Tables
<1>3. SameLinks(s, divided)
  <2>1. /\ DOMAIN edges = DOMAIN s.edge
        /\ \A e \in DOMAIN s.edge : edges[e] = SplitEdgeRow(s, e, ring, outside, face, nf)
    OBVIOUS
  <2> HIDE DEF edges
  <2>2. divided.edge = edges /\ divided.line = s.line
    BY DEF Typed, Tables
  <2> HIDE DEF divided
  <2> QED BY <2>1, <2>2, SplitEdgeRowKeepsLinks DEF SameLinks
<1> HIDE DEF narrowed, divided
<1> QED BY <1>1, <1>2, <1>3

LEMMA TopoGeomFaceSplitKeepsLinks ==
  ASSUME NEW s, Typed(s), NEW f, NEW new1, NEW new2
  PROVE  SameLinks(s, TopoGeomFaceSplit(s, f, new1, new2))
BY DEF TopoGeomFaceSplit, SameLinks, Typed, Tables

LEMMA SplitModFaceKeepsLinks ==
  ASSUME NEW s, Typed(s), NEW e, NEW f \in Faces, NEW nf \in FaceIds, NEW spare \in FaceIds
  PROVE  SameLinks(s, SplitModFace(s, e, f, nf, spare))
<1> DEFINE onLeft  == AddFaceSplit(s, e, f, FALSE, nf)
           onRight == AddFaceSplit(s, -e, f, FALSE, nf)
           again   == AddFaceSplit(onLeft.topo, -e, f, TRUE, spare)
           split   == RightSide(s, onLeft, e, f, nf, spare)
<1>1. /\ SameLinks(s, onLeft.topo) /\ SameLinks(s, onRight.topo)
      /\ Typed(onLeft.topo) /\ Typed(onRight.topo)
  BY AddFaceSplitKeepsLinks, AddFaceSplitRelabels
<1>2. onLeft = [face |-> onLeft.face, topo |-> onLeft.topo]
  BY DEF AddFaceSplit
<1>3. split.topo \in {onLeft.topo, again.topo, onRight.topo}
  <2> HIDE DEF onRight, again
  <2>1. split = IF onLeft.face = 0 THEN onLeft
                ELSE IF onLeft.face > 0 THEN [onLeft EXCEPT !.topo = again.topo]
                ELSE onRight
    BY DEF RightSide, onRight, again
  <2> HIDE DEF onLeft, split
  <2> QED BY <1>2, <2>1
<1>4. SplitModFace(s, e, f, nf, spare) = KeepSplit(s, split, f)
  BY DEF SplitModFace
<1> HIDE DEF onLeft, onRight, split
<1>5. SameLinks(onLeft.topo, again.topo) /\ Typed(again.topo)
  BY <1>1, AddFaceSplitKeepsLinks, AddFaceSplitRelabels
<1> HIDE DEF again
<1>6. SameLinks(s, split.topo) /\ Typed(split.topo)
  BY <1>1, <1>3, <1>5, SameLinksIsTransitive
<1>7. SameLinks(s, TopoGeomFaceSplit(split.topo, f, split.face, -1))
  BY <1>6, TopoGeomFaceSplitKeepsLinks, SameLinksIsTransitive
<1>8. SameLinks(s, s)
  BY DEF SameLinks
<1> QED BY <1>4, <1>6, <1>7, <1>8 DEF KeepSplit

LEMMA SplitNewFacesKeepsLinks ==
  ASSUME NEW s, Typed(s), NEW e, NEW f \in Faces, NEW nf \in FaceIds, NEW nf1 \in FaceIds
  PROVE  SameLinks(s, SplitNewFaces(s, e, f, nf, nf1))
<1> DEFINE onRight == AddFaceSplit(s, -e, f, FALSE, nf1)
           onLeft  == AddFaceSplit(onRight.topo, e, f, FALSE, nf)
           parts   == TopoGeomFaceSplit(onLeft.topo, f, onLeft.face, onRight.face)
           final   == [parts EXCEPT !.mbr = WithoutRows(@, {f})]
<1>1. SameLinks(s, onRight.topo) /\ Typed(onRight.topo)
  BY AddFaceSplitKeepsLinks, AddFaceSplitRelabels
<1>2. SplitNewFaces(s, e, f, nf, nf1) \in {s, onLeft.topo, final}
  BY DEF SplitNewFaces
<1> HIDE DEF onRight
<1>3. SameLinks(onRight.topo, onLeft.topo) /\ Typed(onLeft.topo)
  BY <1>1, AddFaceSplitKeepsLinks, AddFaceSplitRelabels
<1> HIDE DEF onLeft
<1>4. SameLinks(onLeft.topo, final)
  BY <1>3 DEF TopoGeomFaceSplit, SameLinks, Typed, Tables
<1> HIDE DEF final
<1>5. SameLinks(s, onLeft.topo) /\ SameLinks(s, final) /\ SameLinks(s, s)
  <2>1. SameLinks(s, s)
    BY DEF SameLinks
  <2>2. SameLinks(s, onLeft.topo)
    BY <1>1, <1>3, SameLinksIsTransitive
  <2> QED BY <1>4, <2>1, <2>2, SameLinksIsTransitive
<1> QED BY <1>2, <1>5

LEMMA HealFacesKeepsLinks ==
  ASSUME NEW s, Typed(s), NEW fl, NEW fr, NEW flood
  PROVE  SameLinks(s, HealFaces(s, fl, fr, flood))
<1>1. /\ DOMAIN s = Tables
      /\ \A e \in DOMAIN s.edge : s.edge[e] \in EdgeRow
  BY DEF Typed, IsTopology
<1> QED BY <1>1 DEF HealFaces, ReplaceFace, TopoGeomFaceHeal, SameLinks, Tables, EdgeRow

-----------------------------------------------------------------------------
(* One more edge, seen from the nodes.                                     *)

\* t has the edges of s, with whatever links, and e.
Joins(s, t, e) ==
  /\ e \in EdgeIds \ DOMAIN s.edge
  /\ DOMAIN t.edge = DOMAIN s.edge \cup {e}
  /\ \A x \in DOMAIN s.edge : /\ t.line[x] = s.line[x]
                              /\ t.edge[x].start_node = s.edge[x].start_node
                              /\ t.edge[x].end_node = s.edge[x].end_node

LEMMA DartsJoined ==
  ASSUME NEW s, Typed(s), NEW t, NEW e, Joins(s, t, e)
  PROVE  /\ e \in Nat \ {0} /\ -(-e) = e /\ -e # e
         /\ e \notin DartsOf(s) /\ -e \notin DartsOf(s)
         /\ DartsOf(t) = DartsOf(s) \cup {e, -e}
         /\ \A d \in DartsOf(s) : Origin(t, d) = Origin(s, d) /\ Leaving(t, d) = Leaving(s, d)
         /\ Origin(t, e) = t.edge[e].start_node /\ Origin(t, -e) = t.edge[e].end_node
         /\ Next(t, e) = t.edge[e].next_left /\ Next(t, -e) = t.edge[e].next_right
         /\ \A n : DartsAt(t, n) = DartsAt(s, n) \cup {d \in {e, -e} : Origin(t, d) = n}
<1>0. e \in Nat \ {0}
  BY IdentifiersArePositive DEF Joins
<1>1. e \in Nat \ {0} /\ -(-e) = e /\ -e # e /\ ~ (-e > 0) /\ e > 0
  BY <1>0
<1>2. DOMAIN s.edge \subseteq EdgeIds
  BY DEF Typed, IsTopology
<1>3. DOMAIN s.edge \subseteq Nat \ {0}
  BY <1>2, IdentifiersArePositive
<1>4. e \notin DartsOf(s) /\ -e \notin DartsOf(s)
  BY <1>1, <1>3 DEF DartsOf, Joins
<1>5. DartsOf(t) = DartsOf(s) \cup {e, -e}
  BY DEF DartsOf, Joins
<1>6. ASSUME NEW d \in DartsOf(s)
      PROVE  Origin(t, d) = Origin(s, d) /\ Leaving(t, d) = Leaving(s, d)
  <2>1. d \in Int /\ d # 0 /\ EdgeOf(d) \in DOMAIN s.edge
    BY DartIsSigned
  <2>2. d > 0 => d \in DOMAIN s.edge
    BY <2>1 DEF EdgeOf
  <2>3. ~ (d > 0) => -d \in DOMAIN s.edge
    BY <2>1 DEF EdgeOf
  <2>4. Path(t, d) = Path(s, d)
    BY <2>2, <2>3 DEF Path, Joins
  <2>5. Origin(t, d) = Origin(s, d)
    BY <2>2, <2>3 DEF Origin, Joins
  <2> QED BY <2>4, <2>5 DEF Leaving
<1>7. ASSUME NEW n
      PROVE  DartsAt(t, n) = DartsAt(s, n) \cup {d \in {e, -e} : Origin(t, d) = n}
  BY <1>5, <1>6 DEF DartsAt
<1>8. /\ Origin(t, e) = t.edge[e].start_node /\ Origin(t, -e) = t.edge[e].end_node
      /\ Next(t, e) = t.edge[e].next_left /\ Next(t, -e) = t.edge[e].next_right
  BY <1>1 DEF Origin, Next
<1> QED BY <1>1, <1>4, <1>5, <1>6, <1>7, <1>8

\* The adjacent ends that are found before the edge is there come right after
\* and right before its end once it is; 0 is the other end of the edge.
LEMMA AdjacentEndsAreNeighbours ==
  ASSUME NEW s, Typed(s), NEW t, NEW e, Joins(s, t, e), NEW d \in {e, -e}, NEW n,
         Origin(t, d) = n, DartsAt(s, n) # {},
         NEW others, others = IF Origin(t, -d) = n THEN {Leaving(t, -d)} ELSE {},
         NEW a \in AdjacentEnds(s, n, Leaving(t, d), others, -1)
  PROVE  /\ Follows(Star(t, n), d, IF a.cw = 0 THEN -d ELSE a.cw)
         /\ Precedes(Star(t, n), IF a.ccw = 0 THEN -d ELSE a.ccw, d)
         /\ a.cw = 0 \/ a.ccw = 0 => Origin(t, -d) = n
         /\ a.cw # 0 => a.cw \in DartsAt(s, n)
         /\ a.ccw # 0 => a.ccw \in DartsAt(s, n)
<1> DEFINE u == Leaving(t, d)
           near == {x \in DartsAt(s, n) : EdgeOf(x) # -1}
           ends == {[id |-> x, dir |-> Leaving(s, x)] : x \in near}
                   \cup {[id |-> 0, dir |-> v] : v \in others}
           name(r) == IF r.id = 0 THEN -d ELSE r.id
<1>1. /\ e \notin DartsOf(s) /\ -e \notin DartsOf(s) /\ -e # e /\ -(-e) = e
      /\ \A x \in DartsOf(s) : Leaving(t, x) = Leaving(s, x)
      /\ DartsAt(t, n) = DartsAt(s, n) \cup {x \in {e, -e} : Origin(t, x) = n}
  BY DartsJoined
<1>2. near = DartsAt(s, n)
  <2>1. \A x \in DartsAt(s, n) : EdgeOf(x) \in DOMAIN s.edge
    BY DartIsSigned DEF DartsAt
  <2>2. -1 \notin DOMAIN s.edge
    BY IdentifiersArePositive DEF Typed, IsTopology
  <2> QED BY <2>1, <2>2
<1>3. \A x \in DartsAt(s, n) : x \in DartsOf(s) /\ x # 0 /\ x # d /\ x # -d
  BY <1>1, DartIsSigned DEF DartsAt
<1> HIDE DEF near
<1>4. ASSUME NEW r \in ends
      PROVE  /\ name(r) \in DartsAt(t, n) /\ name(r) # d /\ Leaving(t, name(r)) = r.dir
             /\ r.id = 0 => Origin(t, -d) = n
             /\ r.id # 0 => r.id \in DartsAt(s, n)
  <2>1. CASE r \in {[id |-> x, dir |-> Leaving(s, x)] : x \in near}
    BY <1>1, <1>2, <1>3, <2>1
  <2>2. CASE r \in {[id |-> 0, dir |-> v] : v \in others}
    <3>1. Origin(t, -d) = n /\ r.id = 0 /\ r.dir = Leaving(t, -d)
      BY <2>2
    <3>2. -d \in {e, -e} /\ -d # d
      BY <1>1
    <3> QED BY <1>1, <3>1, <3>2
  <2> QED BY <2>1, <2>2
<1>5. ASSUME NEW y \in DartsAt(t, n) \ {d}
      PROVE  \E r \in ends : r.dir = Leaving(t, y)
  <2>1. CASE y \in DartsAt(s, n)
    <3>1. [id |-> y, dir |-> Leaving(s, y)] \in ends /\ Leaving(t, y) = Leaving(s, y)
      BY <1>1, <1>2, <1>3, <2>1
    <3> QED BY <3>1
  <2>2. CASE y \notin DartsAt(s, n)
    <3>1. y = -d /\ Origin(t, -d) = n
      BY <1>1, <2>2
    <3>2. [id |-> 0, dir |-> Leaving(t, -d)] \in ends
      BY <3>1
    <3> QED BY <3>1, <3>2
  <2> QED BY <2>1, <2>2
<1>6. ends # {}
  BY <1>2
<1>7. PICK b \in ends, c \in ends :
        /\ a.cw = b.id /\ a.ccw = c.id
        /\ \A y \in ends : ~ MetBefore(u, y.dir, b.dir)
        /\ \A y \in ends : ~ MetBefore(u, c.dir, y.dir)
  <2>1. a \in {[cw |-> x.id, ccw |-> z.id] :
                 x \in {w \in ends : \A y \in ends : ~ MetBefore(u, y.dir, w.dir)},
                 z \in {w \in ends : \A y \in ends : ~ MetBefore(u, w.dir, y.dir)}}
    BY <1>6 DEF AdjacentEnds, near
  <2> HIDE DEF ends, u
  <2> QED BY <2>1
<1> HIDE DEF ends
<1>8. DOMAIN Star(t, n) = DartsAt(t, n) /\ \A x \in DartsAt(t, n) : Star(t, n)[x] = Leaving(t, x)
  BY DEF Star
<1>9. d \in DartsAt(t, n)
  BY <1>1
<1>10. Follows(Star(t, n), d, name(b))
  <2>1. \A y \in DartsAt(t, n) \ {d} : ~ MetBefore(u, Leaving(t, y), Leaving(t, name(b)))
    BY <1>4, <1>5, <1>7
  <2> HIDE DEF name
  <2> QED BY <1>4, <1>8, <1>9, <2>1 DEF Follows, Met
<1>11. Precedes(Star(t, n), name(c), d)
  <2>1. \A y \in DartsAt(t, n) \ {d} : ~ MetBefore(u, Leaving(t, name(c)), Leaving(t, y))
    BY <1>4, <1>5, <1>7
  <2> HIDE DEF name
  <2> QED BY <1>4, <1>8, <1>9, <2>1 DEF Precedes, Met
<1> QED BY <1>4, <1>7, <1>10, <1>11

\* The rows of the edges once the new one is linked.
LEMMA LinksOfNewEdge ==
  ASSUME NEW s, Typed(s), NEW n1 \in DOMAIN s.node, NEW n2 \in DOMAIN s.node,
         NEW g, NEW f, NEW a1, NEW a2, NEW e \in EdgeIds \ DOMAIN s.edge
  PROVE  LET t == LinkEdge(s, n1, n2, g, f, a1, a2, e)
         IN  /\ Joins(s, t, e) /\ DOMAIN t.node = DOMAIN s.node
             /\ t.line[e] = g /\ t.edge[e] = NewEdgeRow(s, n1, n2, f, a1, a2, e)
             /\ \A c \in DartsOf(s) : Next(t, c) = Relinked(s, n1, n2, a1, a2, e, c, Next(s, c))
<1> DEFINE relinked(x) ==
             [s.edge[x] EXCEPT !.next_left  = Relinked(s, n1, n2, a1, a2, e, x, @),
                               !.next_right = Relinked(s, n1, n2, a1, a2, e, -x, @)]
           row == NewEdgeRow(s, n1, n2, f, a1, a2, e)
           old == [x \in DOMAIN s.edge |-> relinked(x)]
           t   == LinkEdge(s, n1, n2, g, f, a1, a2, e)
<1>1. \A x \in DOMAIN s.edge : /\ relinked(x).start_node = s.edge[x].start_node
                               /\ relinked(x).end_node = s.edge[x].end_node
                               /\ relinked(x).next_left = Relinked(s, n1, n2, a1, a2, e, x, s.edge[x].next_left)
                               /\ relinked(x).next_right = Relinked(s, n1, n2, a1, a2, e, -x, s.edge[x].next_right)
  BY DEF Typed, IsTopology, EdgeRow
<1> HIDE DEF row
<1>2. /\ t.edge = WithRow(old, e, row) /\ t.line = WithRow(s.line, e, g)
      /\ DOMAIN t.node = DOMAIN s.node /\ DOMAIN s.line = DOMAIN s.edge
  BY DEF LinkEdge, WithContainingFace, WithEdge, Typed, Tables, IsTopology, row
<1>3. DOMAIN old = DOMAIN s.edge /\ \A x \in DOMAIN s.edge : old[x] = relinked(x)
  OBVIOUS
<1> HIDE DEF t, relinked, old
<1>4. /\ DOMAIN t.edge = DOMAIN s.edge \cup {e} /\ t.edge[e] = row /\ t.line[e] = g
      /\ \A x \in DOMAIN s.edge : t.edge[x] = relinked(x) /\ t.line[x] = s.line[x]
  BY <1>2, <1>3 DEF WithRow
<1>5. Joins(s, t, e)
  BY <1>1, <1>4 DEF Joins
<1>6. ASSUME NEW c \in DartsOf(s)
      PROVE  Next(t, c) = Relinked(s, n1, n2, a1, a2, e, c, Next(s, c))
  <2>1. c \in Int /\ c # 0 /\ EdgeOf(c) \in DOMAIN s.edge /\ -(-c) = c
    BY DartIsSigned
  <2>2. CASE c > 0
    <3>1. c \in DOMAIN s.edge
      BY <2>1, <2>2 DEF EdgeOf
    <3> QED BY <1>1, <1>4, <2>2, <3>1 DEF Next
  <2>3. CASE ~ (c > 0)
    <3>1. -c \in DOMAIN s.edge
      BY <2>1, <2>3 DEF EdgeOf
    <3> QED BY <1>1, <1>4, <2>1, <2>3, <3>1 DEF Next
  <2> QED BY <2>2, <2>3
<1> QED BY <1>2, <1>4, <1>5, <1>6 DEF t, row

\* The line is walked from its first segment and back from its last one.
LEMMA LeavingEdge ==
  ASSUME NEW t, Typed(t), Flat(t), NEW e \in DOMAIN t.edge
  PROVE  LET g == t.line[e]
         IN  /\ Leaving(t, e) = Direction(g[1], g[2])
             /\ Leaving(t, -e) = Direction(g[Len(g)], g[Len(g) - 1])
<1>1. e \in EdgeIds
  BY DEF Typed, IsTopology
<1>2. e \in Nat \ {0}
  BY <1>1, IdentifiersArePositive
<1>3. e \in DartsOf(t) /\ -e \in DartsOf(t) /\ EdgeOf(e) = e /\ EdgeOf(-e) = e
  BY <1>2 DEF DartsOf, EdgeOf
<1>4. e > 0 /\ -e < 0
  BY <1>2
<1>5. LET g == t.line[e]
          p == Path(t, e)
          q == Path(t, -e)
      IN  /\ p[1] = g[1] /\ p[2] = g[2]
          /\ q[1] = g[Len(g)] /\ q[2] = g[Len(g) - 1]
  BY <1>3, <1>4, FirstSegment
<1> QED BY <1>5 DEF Leaving

LEMMA LinkEdgeTurns ==
  ASSUME NEW s, Typed(s), Flat(s), Turning(s),
         NEW n1 \in DOMAIN s.node, NEW n2 \in DOMAIN s.node,
         NEW g, NEW f, NEW a1 \in StartEnds(s, n1, n2, g), NEW a2 \in EndEnds(s, n1, n2, g),
         NEW e \in EdgeIds \ DOMAIN s.edge,
         Typed(LinkEdge(s, n1, n2, g, f, a1, a2, e)), Flat(LinkEdge(s, n1, n2, g, f, a1, a2, e))
  PROVE  Turning(LinkEdge(s, n1, n2, g, f, a1, a2, e))
<1> DEFINE t == LinkEdge(s, n1, n2, g, f, a1, a2, e)
           row == NewEdgeRow(s, n1, n2, f, a1, a2, e)
           first == IF a1.cw = 0 THEN -e ELSE a1.cw
           last  == IF a1.ccw = 0 THEN -e ELSE a1.ccw
           head  == IF a2.cw = 0 THEN e ELSE a2.cw
           tail  == IF a2.ccw = 0 THEN e ELSE a2.ccw
<1>1. /\ Joins(s, t, e) /\ DOMAIN t.node = DOMAIN s.node
      /\ t.line[e] = g /\ t.edge[e] = row
      /\ \A c \in DartsOf(s) : Next(t, c) = Relinked(s, n1, n2, a1, a2, e, c, Next(s, c))
  BY LinksOfNewEdge
<1>2. Typed(t) /\ Flat(t)
  OBVIOUS
<1>3. /\ row.start_node = n1 /\ row.end_node = n2
      /\ DartsAt(s, n1) # {} => row.next_right = first
      /\ DartsAt(s, n2) # {} => row.next_left = head
      /\ DartsAt(s, n1) = {} => row.next_right = IF n1 # n2 THEN e ELSE -e
      /\ DartsAt(s, n2) = {} => row.next_left = IF n1 # n2 THEN -e ELSE -(-e)
  BY DEF NewEdgeRow, NextAfter
<1> HIDE DEF t, row
<1>4. /\ e \in Nat \ {0} /\ -(-e) = e /\ -e # e
      /\ e \notin DartsOf(s) /\ -e \notin DartsOf(s)
      /\ \A d \in DartsOf(s) : Origin(t, d) = Origin(s, d) /\ Leaving(t, d) = Leaving(s, d)
      /\ Origin(t, e) = n1 /\ Origin(t, -e) = n2
      /\ Next(t, e) = row.next_left /\ Next(t, -e) = row.next_right
      /\ \A n : DartsAt(t, n) = DartsAt(s, n) \cup {d \in {e, -e} : Origin(t, d) = n}
  BY <1>1, <1>3, DartsJoined
<1>5. /\ Leaving(t, e) = Direction(g[1], g[2])
      /\ Leaving(t, -e) = Direction(g[Len(g)], g[Len(g) - 1])
  BY <1>1, <1>2, LeavingEdge DEF Joins
<1>6. DartsAt(s, n1) # {} =>
        /\ Follows(Star(t, n1), e, first) /\ Precedes(Star(t, n1), last, e)
        /\ a1.cw = 0 \/ a1.ccw = 0 => n1 = n2
        /\ a1.cw # 0 => a1.cw \in DartsAt(s, n1)
        /\ a1.ccw # 0 => a1.ccw \in DartsAt(s, n1)
  <2> SUFFICES ASSUME DartsAt(s, n1) # {}
               PROVE  /\ Follows(Star(t, n1), e, first) /\ Precedes(Star(t, n1), last, e)
                      /\ a1.cw = 0 \/ a1.ccw = 0 => n1 = n2
                      /\ a1.cw # 0 => a1.cw \in DartsAt(s, n1)
                      /\ a1.ccw # 0 => a1.ccw \in DartsAt(s, n1)
    OBVIOUS
  <2> DEFINE others == IF n1 = n2 THEN {Direction(g[Len(g)], g[Len(g) - 1])} ELSE {}
  <2>1. others = IF Origin(t, -e) = n1 THEN {Leaving(t, -e)} ELSE {}
    BY <1>4, <1>5
  <2>2. a1 \in AdjacentEnds(s, n1, Leaving(t, e), others, -1)
    BY <1>5 DEF StartEnds
  <2> HIDE DEF others
  <2>3. e \in {e, -e}
    OBVIOUS
  <2> QED BY <1>1, <1>4, <2>1, <2>2, <2>3, AdjacentEndsAreNeighbours
<1>7. DartsAt(s, n2) # {} =>
        /\ Follows(Star(t, n2), -e, head) /\ Precedes(Star(t, n2), tail, -e)
        /\ a2.cw = 0 \/ a2.ccw = 0 => n1 = n2
        /\ a2.cw # 0 => a2.cw \in DartsAt(s, n2)
        /\ a2.ccw # 0 => a2.ccw \in DartsAt(s, n2)
  <2> SUFFICES ASSUME DartsAt(s, n2) # {}
               PROVE  /\ Follows(Star(t, n2), -e, head) /\ Precedes(Star(t, n2), tail, -e)
                      /\ a2.cw = 0 \/ a2.ccw = 0 => n1 = n2
                      /\ a2.cw # 0 => a2.cw \in DartsAt(s, n2)
                      /\ a2.ccw # 0 => a2.ccw \in DartsAt(s, n2)
    OBVIOUS
  <2> DEFINE others == IF n1 = n2 THEN {Direction(g[1], g[2])} ELSE {}
             b == -e
  <2>1. others = IF Origin(t, -b) = n2 THEN {Leaving(t, -b)} ELSE {}
    BY <1>4, <1>5
  <2>2. a2 \in AdjacentEnds(s, n2, Leaving(t, b), others, -1)
    BY <1>5 DEF EndEnds
  <2>3. b \in {e, -e} /\ -b = e /\ Origin(t, b) = n2
    BY <1>4
  <2> HIDE DEF others, b
  <2>4. /\ Follows(Star(t, n2), b, IF a2.cw = 0 THEN -b ELSE a2.cw)
        /\ Precedes(Star(t, n2), IF a2.ccw = 0 THEN -b ELSE a2.ccw, b)
        /\ a2.cw = 0 \/ a2.ccw = 0 => Origin(t, -b) = n2
        /\ a2.cw # 0 => a2.cw \in DartsAt(s, n2)
        /\ a2.ccw # 0 => a2.ccw \in DartsAt(s, n2)
    BY <1>1, <2>1, <2>2, <2>3, AdjacentEndsAreNeighbours
  <2> QED BY <1>4, <2>3, <2>4 DEF b
<1> HIDE DEF first, last, head, tail
\* The links out of the old darts.
<1>8. ASSUME NEW n, NEW x \in DartsAt(s, n)
      PROVE  /\ x \in DartsOf(s) /\ x # e /\ x # -e /\ Leaving(t, x) = Leaving(s, x)
             /\ Next(t, -x) = IF n = n2 /\ x = tail THEN -e
                              ELSE IF n = n1 /\ x = last THEN e
                              ELSE Next(s, -x)
  <2>1. x \in DartsOf(s) /\ Origin(s, x) = n
    BY DEF DartsAt
  <2>2. x \in Int /\ x # 0 /\ -x \in DartsOf(s) /\ -(-x) = x
    BY <2>1, DartIsSigned
  <2>3. x # e /\ x # -e /\ Leaving(t, x) = Leaving(s, x)
    BY <1>4, <2>1
  <2>4. Next(t, -x) = Relinked(s, n1, n2, a1, a2, e, -x, Next(s, -x))
    BY <1>1, <2>2
  <2>5. (DartsAt(s, n2) # {} /\ -x = -a2.ccw) <=> (n = n2 /\ x = tail)
    <3>1. ASSUME DartsAt(s, n2) # {}, -x = -a2.ccw
          PROVE  n = n2 /\ x = tail
      <4>1. a2.ccw = 0 \/ a2.ccw \in DartsOf(s)
        BY <1>7, <3>1 DEF DartsAt
      <4>2. a2.ccw \in Int
        BY <4>1, DartIsSigned
      <4>3. x = a2.ccw
        BY <2>2, <3>1, <4>2
      <4>4. a2.ccw \in DartsAt(s, n2)
        BY <1>7, <2>2, <3>1, <4>3
      <4>5. n = n2
        BY <2>1, <4>3, <4>4 DEF DartsAt
      <4> QED BY <2>2, <4>3, <4>5 DEF tail
    <3>2. ASSUME n = n2, x = tail
          PROVE  DartsAt(s, n2) # {} /\ -x = -a2.ccw
      <4>1. x = a2.ccw
        BY <2>3, <3>2 DEF tail
      <4> QED BY <3>2, <4>1
    <3> QED BY <3>1, <3>2
  <2>6. (DartsAt(s, n1) # {} /\ -x = -a1.ccw) <=> (n = n1 /\ x = last)
    <3>1. ASSUME DartsAt(s, n1) # {}, -x = -a1.ccw
          PROVE  n = n1 /\ x = last
      <4>1. a1.ccw = 0 \/ a1.ccw \in DartsOf(s)
        BY <1>6, <3>1 DEF DartsAt
      <4>2. a1.ccw \in Int
        BY <4>1, DartIsSigned
      <4>3. x = a1.ccw
        BY <2>2, <3>1, <4>2
      <4>4. a1.ccw \in DartsAt(s, n1)
        BY <1>6, <2>2, <3>1, <4>3
      <4>5. n = n1
        BY <2>1, <4>3, <4>4 DEF DartsAt
      <4> QED BY <2>2, <4>3, <4>5 DEF last
    <3>2. ASSUME n = n1, x = last
          PROVE  DartsAt(s, n1) # {} /\ -x = -a1.ccw
      <4>1. x = a1.ccw
        BY <2>3, <3>2 DEF last
      <4> QED BY <3>2, <4>1
    <3> QED BY <3>1, <3>2
  <2> QED BY <2>1, <2>3, <2>4, <2>5, <2>6 DEF Relinked
<1> SUFFICES ASSUME NEW n \in DOMAIN t.node
             PROVE  Rotation(Star(t, n), Links(t, n))
  BY DEF Turning, t
<1>9. Rotation(Star(s, n), Links(s, n)) /\ Spread(Star(t, n))
  BY <1>1, <1>2, EndsAreSpread DEF Turning
<1> DEFINE dir  == Star(s, n)
           next == Links(s, n)
           big  == Star(t, n)
           now  == Links(t, n)
<1>10. /\ DOMAIN dir = DartsAt(s, n) /\ DOMAIN next = DartsAt(s, n)
       /\ DOMAIN big = DartsAt(t, n) /\ DOMAIN now = DartsAt(t, n)
       /\ \A x \in DartsAt(s, n) : dir[x] = Leaving(s, x) /\ next[x] = Next(s, -x)
       /\ \A x \in DartsAt(t, n) : big[x] = Leaving(t, x) /\ now[x] = Next(t, -x)
  BY DEF Star, Links
<1>11. \A x \in DOMAIN dir :
         /\ x \in DOMAIN big /\ x # e /\ x # -e /\ big[x] = dir[x]
         /\ now[x] = IF n = n2 /\ x = tail THEN -e
                     ELSE IF n = n1 /\ x = last THEN e
                     ELSE next[x]
  BY <1>4, <1>8, <1>10
<1>12. e \notin DOMAIN dir /\ -e \notin DOMAIN dir
  BY <1>4, <1>10 DEF DartsAt
<1>13. DOMAIN big = DOMAIN dir \cup {d \in {e, -e} : Origin(t, d) = n}
  BY <1>4, <1>10
<1>14. n = n1 => e \in DOMAIN big /\ now[e] = row.next_right
  BY <1>4, <1>10
<1>15. n = n2 => -e \in DOMAIN big /\ now[-e] = row.next_left
  BY <1>4, <1>10
<1>16. CASE n # n1 /\ n # n2
  <2>1. DOMAIN big = DOMAIN dir
    BY <1>4, <1>13, <1>16
  <2> HIDE DEF dir, next, big, now
  <2>2. DOMAIN now = DOMAIN dir /\ \A x \in DOMAIN dir : big[x] = dir[x] /\ now[x] = next[x]
    BY <1>10, <1>11, <1>16, <2>1
  <2>3. Rotation(big, now)
    BY <1>9, <2>1, <2>2, RotationKept DEF dir, next
  <2> QED BY <2>3 DEF big, now
<1>17. CASE n = n1 /\ n # n2
  <2>1. DOMAIN big = DOMAIN dir \cup {e}
    BY <1>4, <1>13, <1>17
  <2>2. CASE DartsAt(s, n1) = {}
    <3>1. DOMAIN big = {e} /\ now[e] = e
      BY <1>3, <1>10, <1>14, <1>17, <2>1, <2>2
    <3> HIDE DEF dir, next, big, now
    <3>2. Rotation(big, now)
      BY <1>10, <3>1, RotationOfOne
    <3> QED BY <3>2 DEF big, now
  <2>3. CASE DartsAt(s, n1) # {}
    <3>1. /\ Follows(big, e, first) /\ Precedes(big, last, e)
          /\ first \in DOMAIN dir /\ last \in DOMAIN dir /\ now[e] = first
      BY <1>3, <1>6, <1>10, <1>14, <1>17, <2>3 DEF first, last
    <3> HIDE DEF dir, next, big, now
    <3>2. \A x \in DOMAIN big : now[x] = IF x = e THEN first ELSE IF x = last THEN e ELSE next[x]
      BY <1>11, <1>17, <2>1, <3>1
    <3>3. Rotation(big, now)
      BY <1>9, <1>10, <1>11, <1>12, <2>1, <3>1, <3>2, RotationGrows DEF dir, next, big
    <3> QED BY <3>3 DEF big, now
  <2> QED BY <2>2, <2>3
<1>18. CASE n # n1 /\ n = n2
  <2> DEFINE b == -e
  <2>1. DOMAIN big = DOMAIN dir \cup {b} /\ b \notin DOMAIN dir
    BY <1>4, <1>12, <1>13, <1>18
  <2>2. CASE DartsAt(s, n2) = {}
    <3>1. DOMAIN big = {b} /\ now[b] = b
      BY <1>3, <1>10, <1>15, <1>18, <2>1, <2>2
    <3> HIDE DEF dir, next, big, now, b
    <3>2. Rotation(big, now)
      BY <1>10, <3>1, RotationOfOne
    <3> QED BY <3>2 DEF big, now
  <2>3. CASE DartsAt(s, n2) # {}
    <3>1. /\ Follows(big, b, head) /\ Precedes(big, tail, b)
          /\ head \in DOMAIN dir /\ tail \in DOMAIN dir /\ now[b] = head
      BY <1>3, <1>7, <1>10, <1>15, <1>18, <2>3 DEF head, tail
    <3> HIDE DEF dir, next, big, now
    <3>2. \A x \in DOMAIN big : now[x] = IF x = b THEN head ELSE IF x = tail THEN b ELSE next[x]
      BY <1>11, <1>18, <2>1, <3>1
    <3> HIDE DEF b
    <3>3. Rotation(big, now)
      BY <1>9, <1>10, <1>11, <2>1, <3>1, <3>2, RotationGrows DEF dir, next, big
    <3> QED BY <3>3 DEF big, now
  <2> QED BY <2>2, <2>3
<1>19. CASE n = n1 /\ n = n2
  <2> DEFINE b == -e
  <2>1. DOMAIN big = DOMAIN dir \cup {e, b} /\ b \notin DOMAIN dir /\ e # b
    BY <1>4, <1>12, <1>13, <1>19
  <2>2. CASE DartsAt(s, n) = {}
    <3>1. DOMAIN big = {e, b} /\ now[e] = b /\ now[b] = e
      BY <1>3, <1>4, <1>10, <1>14, <1>15, <1>19, <2>1, <2>2
    <3> HIDE DEF dir, next, big, now, b
    <3>2. Rotation(big, now)
      BY <1>9, <1>10, <2>1, <3>1, RotationOfTwo DEF big
    <3> QED BY <3>2 DEF big, now
  <2>3. CASE DartsAt(s, n) # {}
    <3>1. /\ Follows(big, e, first) /\ Precedes(big, last, e)
          /\ Follows(big, b, head) /\ Precedes(big, tail, b)
          /\ now[e] = first /\ now[b] = head
      BY <1>3, <1>6, <1>7, <1>14, <1>15, <1>19, <2>3
    <3> HIDE DEF dir, next, big, now, b
    <3>2. \A x \in DOMAIN dir : now[x] = IF x = tail THEN b ELSE IF x = last THEN e ELSE next[x]
      BY <1>11, <1>19 DEF b
    <3>3. PICK c : c \in DOMAIN dir
      BY <1>10, <2>3
    <3>4. \A x \in DOMAIN dir : big[x] = dir[x]
      BY <1>11
    <3>5. Rotation(dir, next) /\ Spread(big)
      BY <1>9 DEF dir, next, big
    <3>6. Rotation(big, now)
      BY <1>10, <1>12, <2>1, <3>1, <3>2, <3>3, <3>4, <3>5, RotationGrowsByTwo
    <3> QED BY <3>6 DEF big, now
  <2> QED BY <2>2, <2>3
<1> QED BY <1>16, <1>17, <1>18, <1>19

LEMMA AroundKept ==
  ASSUME NEW s, NEW t, NEW n, Rotation(Star(s, n), Links(s, n)), DartsAt(t, n) = DartsAt(s, n),
         \A d \in DartsAt(s, n) : Leaving(t, d) = Leaving(s, d) /\ Next(t, -d) = Next(s, -d)
  PROVE  Rotation(Star(t, n), Links(t, n))
<1>1. /\ DOMAIN Star(t, n) = DOMAIN Star(s, n) /\ DOMAIN Links(t, n) = DOMAIN Star(s, n)
      /\ \A x \in DOMAIN Star(s, n) : Star(t, n)[x] = Star(s, n)[x] /\ Links(t, n)[x] = Links(s, n)[x]
  BY DEF Star, Links
<1> QED BY <1>1, RotationKept

LEMMA NoneAround ==
  ASSUME NEW t, NEW n, DartsAt(t, n) = {}
  PROVE  Rotation(Star(t, n), Links(t, n))
BY RotationOfNone DEF Star, Links

LEMMA OneAround ==
  ASSUME NEW t, NEW n, NEW d, DartsAt(t, n) = {d}, Next(t, -d) = d
  PROVE  Rotation(Star(t, n), Links(t, n))
<1>1. DOMAIN Star(t, n) = {d} /\ DOMAIN Links(t, n) = DOMAIN Star(t, n) /\ Links(t, n)[d] = d
  BY DEF Star, Links
<1> QED BY <1>1, RotationOfOne

LEMMA TwoAround ==
  ASSUME NEW t, Typed(t), Flat(t), NEW n \in DOMAIN t.node, NEW c, NEW d, c # d,
         DartsAt(t, n) = {c, d}, Next(t, -c) = d, Next(t, -d) = c
  PROVE  Rotation(Star(t, n), Links(t, n))
<1>1. /\ DOMAIN Star(t, n) = {c, d} /\ DOMAIN Links(t, n) = DOMAIN Star(t, n)
      /\ Links(t, n)[c] = d /\ Links(t, n)[d] = c
  BY DEF Star, Links
<1>2. Spread(Star(t, n))
  BY EndsAreSpread
<1> HIDE DEF Star, Links
<1> QED BY <1>1, <1>2, RotationOfTwo

LEMMA AddIsoEdgeTurns ==
  ASSUME NEW s, Sound(s), Flat(s), Turning(s), NEW n1, NEW n2, NEW g,
         CanAddIsoEdge(s, n1, n2, g), NEW e \in EdgeIds \ DOMAIN s.edge
  PROVE  Turning(AddIsoEdge(s, n1, n2, g, e))
<1> DEFINE row == [start_node |-> n1, end_node |-> n2,
                   next_left |-> -e, next_right |-> e,
                   face_left |-> s.node[n1], face_right |-> s.node[n1]]
           t == AddIsoEdge(s, n1, n2, g, e)
<1>1. /\ row.start_node = n1 /\ row.end_node = n2 /\ row.next_left = -e /\ row.next_right = e
      /\ n1 # n2 /\ Typed(s)
  BY DEF CanAddIsoEdge, Sound
<1>2. DartsAt(s, n1) = {} /\ DartsAt(s, n2) = {}
  <2>1. ASSUME NEW n \in {n1, n2}, NEW d \in DartsOf(s), Origin(s, d) = n
        PROVE  FALSE
    <3>1. IsIsoNode(s, n)
      BY DEF CanAddIsoEdge
    <3>2. d \in Int /\ EdgeOf(d) \in DOMAIN s.edge
      BY <1>1, DartIsSigned
    <3> QED BY <2>1, <3>1, <3>2, IsolatedIsNoEnd DEF Origin, EdgeOf
  <2> QED BY <2>1 DEF DartsAt
<1>3. /\ t.edge = WithRow(s.edge, e, row) /\ t.line = WithRow(s.line, e, g)
      /\ DOMAIN t.node = DOMAIN s.node /\ DOMAIN s.line = DOMAIN s.edge
  BY DEF AddIsoEdge, WithContainingFace, WithEdge, Sound, Typed, Tables, IsTopology
<1> HIDE DEF t, row
<1>4. /\ DOMAIN t.edge = DOMAIN s.edge \cup {e} /\ t.edge[e] = row
      /\ \A x \in DOMAIN s.edge : t.edge[x] = s.edge[x] /\ t.line[x] = s.line[x]
  BY <1>3 DEF WithRow
<1>5. Joins(s, t, e)
  BY <1>4 DEF Joins
<1>6. /\ e \in Nat \ {0} /\ -(-e) = e
      /\ \A d \in DartsOf(s) : Origin(t, d) = Origin(s, d) /\ Leaving(t, d) = Leaving(s, d)
      /\ Origin(t, e) = n1 /\ Origin(t, -e) = n2 /\ Next(t, e) = -e /\ Next(t, -e) = e
      /\ \A n : DartsAt(t, n) = DartsAt(s, n) \cup {d \in {e, -e} : Origin(t, d) = n}
  BY <1>1, <1>4, <1>5, DartsJoined
<1>7. ASSUME NEW c \in DartsOf(s)
      PROVE  Next(t, c) = Next(s, c)
  <2>1. c \in Int /\ EdgeOf(c) \in DOMAIN s.edge
    BY <1>1, DartIsSigned
  <2> QED BY <1>4, <2>1 DEF Next, EdgeOf
<1> SUFFICES ASSUME NEW n \in DOMAIN t.node
             PROVE  Rotation(Star(t, n), Links(t, n))
  BY DEF Turning, t
<1>8. CASE n = n1
  <2>1. DartsAt(t, n) = {e} /\ Next(t, -e) = e
    BY <1>1, <1>2, <1>6, <1>8
  <2> QED BY <2>1, OneAround
<1>9. CASE n = n2
  <2> DEFINE b == -e
  <2>1. DartsAt(t, n) = {b} /\ Next(t, -b) = b
    BY <1>1, <1>2, <1>6, <1>9
  <2> HIDE DEF b
  <2> QED BY <2>1, OneAround
<1>10. CASE n # n1 /\ n # n2
  <2>1. DartsAt(t, n) = DartsAt(s, n)
    BY <1>6, <1>10
  <2>2. \A d \in DartsAt(s, n) : d \in DartsOf(s) /\ -d \in DartsOf(s)
    BY <1>1, DartIsSigned DEF DartsAt
  <2>3. \A d \in DartsAt(s, n) : Leaving(t, d) = Leaving(s, d) /\ Next(t, -d) = Next(s, -d)
    BY <1>6, <1>7, <2>2
  <2>4. Rotation(Star(s, n), Links(s, n))
    BY <1>3 DEF Turning
  <2> QED BY <2>1, <2>3, <2>4, AroundKept
<1> QED BY <1>8, <1>9, <1>10

-----------------------------------------------------------------------------
(* One edge less, seen from the nodes.                                     *)

\* t has the edges of s, with whatever links, but for e.
TakenOut(s, t, e) ==
  /\ e \in DOMAIN s.edge
  /\ DOMAIN t.edge = DOMAIN s.edge \ {e}
  /\ \A x \in DOMAIN t.edge : /\ t.line[x] = s.line[x]
                              /\ t.edge[x].start_node = s.edge[x].start_node
                              /\ t.edge[x].end_node = s.edge[x].end_node

LEMMA DartsLeft ==
  ASSUME NEW s, Typed(s), NEW t, NEW e, TakenOut(s, t, e)
  PROVE  /\ e \in Nat \ {0} /\ -(-e) = e /\ -e # e /\ e \in DartsOf(s) /\ -e \in DartsOf(s)
         /\ DartsOf(t) = DartsOf(s) \ {e, -e}
         /\ \A d \in DartsOf(t) : Origin(t, d) = Origin(s, d) /\ Leaving(t, d) = Leaving(s, d)
         /\ Origin(s, e) = s.edge[e].start_node /\ Origin(s, -e) = s.edge[e].end_node
         /\ Next(s, e) = s.edge[e].next_left /\ Next(s, -e) = s.edge[e].next_right
         /\ \A n : DartsAt(t, n) = DartsAt(s, n) \ {e, -e}
<1>1. DOMAIN s.edge \subseteq EdgeIds
  BY DEF Typed, IsTopology
<1>2. DOMAIN s.edge \subseteq Nat \ {0}
  BY <1>1, IdentifiersArePositive
<1>3. e \in Nat \ {0} /\ e \in DartsOf(s) /\ -e \in DartsOf(s)
  BY <1>2 DEF TakenOut, DartsOf
<1>4. -(-e) = e /\ -e # e /\ ~ (-e > 0) /\ e > 0
  BY <1>3
<1>5. DartsOf(t) = DartsOf(s) \ {e, -e}
  BY <1>2, <1>3 DEF DartsOf, TakenOut
<1>6. ASSUME NEW d \in DartsOf(t)
      PROVE  Origin(t, d) = Origin(s, d) /\ Leaving(t, d) = Leaving(s, d)
  <2>1. d \in Int /\ d # 0 /\ EdgeOf(d) \in DOMAIN t.edge
    BY <1>2 DEF DartsOf, TakenOut, EdgeOf
  <2>2. d > 0 => d \in DOMAIN t.edge
    BY <2>1 DEF EdgeOf
  <2>3. ~ (d > 0) => -d \in DOMAIN t.edge
    BY <2>1 DEF EdgeOf
  <2>4. Path(t, d) = Path(s, d)
    BY <2>2, <2>3 DEF Path, TakenOut
  <2>5. Origin(t, d) = Origin(s, d)
    BY <2>2, <2>3 DEF Origin, TakenOut
  <2> QED BY <2>4, <2>5 DEF Leaving
<1>7. ASSUME NEW n
      PROVE  DartsAt(t, n) = DartsAt(s, n) \ {e, -e}
  BY <1>5, <1>6 DEF DartsAt
<1>8. /\ Origin(s, e) = s.edge[e].start_node /\ Origin(s, -e) = s.edge[e].end_node
      /\ Next(s, e) = s.edge[e].next_left /\ Next(s, -e) = s.edge[e].next_right
  BY <1>4 DEF Origin, Next
<1> QED BY <1>3, <1>4, <1>5, <1>6, <1>7, <1>8

LEMMA RemIsoEdgeTurns ==
  ASSUME NEW s, Typed(s), Flat(s), Turning(s), NEW e, CanRemIsoEdge(s, e)
  PROVE  Turning(RemIsoEdge(s, e))
<1> DEFINE t == RemIsoEdge(s, e)
           n1 == s.edge[e].start_node
           n2 == s.edge[e].end_node
<1>1. /\ t.edge = WithoutRows(s.edge, {e}) /\ t.line = WithoutRows(s.line, {e})
      /\ DOMAIN t.node = DOMAIN s.node /\ DOMAIN s.line = DOMAIN s.edge
  BY DEF RemIsoEdge, WithContainingFace, WithoutEdges, Typed, Tables, IsTopology
<1> HIDE DEF t
<1>2. /\ DOMAIN t.edge = DOMAIN s.edge \ {e}
      /\ \A x \in DOMAIN t.edge : t.edge[x] = s.edge[x] /\ t.line[x] = s.line[x]
  BY <1>1 DEF WithoutRows
<1>3. TakenOut(s, t, e)
  BY <1>2 DEF TakenOut, CanRemIsoEdge
<1>4. /\ \A d \in DartsOf(t) : Leaving(t, d) = Leaving(s, d) /\ d \in DartsOf(s) /\ d # e /\ d # -e
      /\ \A n : DartsAt(t, n) = DartsAt(s, n) \ {e, -e}
      /\ Origin(s, e) = n1 /\ Origin(s, -e) = n2
  BY <1>3, DartsLeft
<1>5. ASSUME NEW n, n = n1 \/ n = n2, NEW d \in DartsAt(s, n)
      PROVE  d \in {e, -e}
  <2>1. /\ EdgeOf(d) \in DOMAIN s.edge /\ d \in {EdgeOf(d), -EdgeOf(d)} /\ Origin(s, d) = n
        /\ d \in Int
    BY DartIsSigned DEF DartsAt
  <2>2. EdgeOf(d) \in Incident(s, n)
    BY <2>1 DEF Incident, Origin, EdgeOf
  <2>3. EdgeOf(d) = e
    BY <1>5, <2>2 DEF CanRemIsoEdge
  <2> QED BY <2>1, <2>3
<1> SUFFICES ASSUME NEW n \in DOMAIN t.node
             PROVE  Rotation(Star(t, n), Links(t, n))
  BY DEF Turning, t
<1>6. CASE n = n1 \/ n = n2
  <2>1. DartsAt(t, n) = {}
    BY <1>4, <1>5, <1>6
  <2> QED BY <2>1, NoneAround
<1>7. CASE n # n1 /\ n # n2
  <2>1. DartsAt(t, n) = DartsAt(s, n)
    BY <1>4, <1>7 DEF DartsAt
  <2>2. ASSUME NEW d \in DartsAt(s, n)
        PROVE  Leaving(t, d) = Leaving(s, d) /\ Next(t, -d) = Next(s, -d)
    <3>1. d \in DartsOf(t) /\ d \in DartsOf(s) /\ d # e /\ d # -e
      BY <1>4, <2>1 DEF DartsAt
    <3>2. d \in Int /\ -(-d) = d /\ EdgeOf(d) \in DOMAIN s.edge /\ d \in {EdgeOf(d), -EdgeOf(d)}
      BY <3>1, DartIsSigned
    <3>3. EdgeOf(d) # e
      BY <3>1, <3>2
    <3>4. EdgeOf(d) \in DOMAIN t.edge
      BY <1>2, <3>2, <3>3
    <3>5. Next(t, -d) = Next(s, -d)
      BY <1>2, <3>2, <3>4 DEF Next, EdgeOf
    <3> QED BY <1>4, <3>1, <3>5
  <2>3. Rotation(Star(s, n), Links(s, n))
    BY <1>1 DEF Turning
  <2> QED BY <2>1, <2>2, <2>3, AroundKept
<1> QED BY <1>6, <1>7

\* What takes the place of a link to a side of e.
SkippedBy(s, e, d) ==
  LET p == s.edge[e].next_left
      q == s.edge[e].next_right
  IN  IF d = -e THEN IF p # e THEN p ELSE q
      ELSE IF d = e THEN IF q # -e THEN q ELSE p
      ELSE d

LEMMA UnlinkedEdge ==
  ASSUME NEW s, Typed(s), NEW e \in DOMAIN s.edge
  PROVE  LET u == UnlinkEdge(s, e)
             near == Incident(s, s.edge[e].start_node) \cup Incident(s, s.edge[e].end_node)
         IN  /\ DOMAIN u.edge = DOMAIN s.edge /\ u.line = s.line /\ DOMAIN u.node = DOMAIN s.node
             /\ \A x \in DOMAIN s.edge :
                  /\ u.edge[x].start_node = s.edge[x].start_node
                  /\ u.edge[x].end_node = s.edge[x].end_node
                  /\ x \in near \ {e} => /\ u.edge[x].next_left = SkippedBy(s, e, s.edge[x].next_left)
                                         /\ u.edge[x].next_right = SkippedBy(s, e, s.edge[x].next_right)
                  /\ x \notin near => /\ u.edge[x].next_left = s.edge[x].next_left
                                      /\ u.edge[x].next_right = s.edge[x].next_right
<1> DEFINE near == Incident(s, s.edge[e].start_node) \cup Incident(s, s.edge[e].end_node)
           skip(d) == SkippedBy(s, e, d)
           u == UnlinkEdge(s, e)
           rows == [x \in DOMAIN s.edge |->
                     IF x \in near \ {e}
                     THEN [s.edge[x] EXCEPT !.next_left = skip(@), !.next_right = skip(@)]
                     ELSE s.edge[x]]
<1>1. u = [s EXCEPT !.edge = rows]
  BY DEF UnlinkEdge, SkippedBy
<1>2. \A x \in DOMAIN s.edge : s.edge[x] \in EdgeRow
  BY DEF Typed, IsTopology
<1>3. /\ DOMAIN rows = DOMAIN s.edge
      /\ \A x \in DOMAIN s.edge :
           /\ rows[x].start_node = s.edge[x].start_node
           /\ rows[x].end_node = s.edge[x].end_node
           /\ x \in near \ {e} => /\ rows[x].next_left = SkippedBy(s, e, s.edge[x].next_left)
                                  /\ rows[x].next_right = SkippedBy(s, e, s.edge[x].next_right)
           /\ x \notin near => /\ rows[x].next_left = s.edge[x].next_left
                               /\ rows[x].next_right = s.edge[x].next_right
  <2> HIDE DEF near, skip
  <2> QED BY <1>2 DEF EdgeRow, skip
<1> HIDE DEF rows
<1>4. u.edge = rows /\ u.line = s.line /\ u.node = s.node
  BY <1>1 DEF Typed, Tables
<1> QED BY <1>3, <1>4

\* The edge leaves the rotation at its start, and then the one at its end.
LEMMA SkippingTurns ==
  ASSUME NEW s, Typed(s), Flat(s), Turning(s), NEW t, NEW e, TakenOut(s, t, e),
         DOMAIN t.node \subseteq DOMAIN s.node,
         \A n : \A x \in DartsAt(t, n) :
           \/ Next(t, -x) = SkippedBy(s, e, Next(s, -x))
           \/ /\ n \notin {s.edge[e].start_node, s.edge[e].end_node}
              /\ Next(t, -x) = Next(s, -x)
  PROVE  Turning(t)
<1> DEFINE n1 == s.edge[e].start_node
           n2 == s.edge[e].end_node
           p == s.edge[e].next_left
           q == s.edge[e].next_right
           b == -e
<1>1. /\ e \in DartsOf(s) /\ b \in DartsOf(s) /\ b # e /\ -b = e
      /\ \A d \in DartsOf(t) : d \in DartsOf(s) /\ Leaving(t, d) = Leaving(s, d)
      /\ Origin(s, e) = n1 /\ Origin(s, b) = n2 /\ Next(s, e) = p /\ Next(s, b) = q
      /\ \A n : DartsAt(t, n) = DartsAt(s, n) \ {e, b}
  BY DartsLeft
<1> SUFFICES ASSUME NEW n \in DOMAIN t.node
             PROVE  Rotation(Star(t, n), Links(t, n))
  BY DEF Turning
<1> DEFINE dir  == Star(t, n)
           now  == Links(t, n)
           big  == Star(s, n)
           next == Links(s, n)
<1>2. Rotation(big, next) /\ Spread(big)
  BY EndsAreSpread DEF Turning
<1>3. /\ DOMAIN big = DartsAt(s, n) /\ DOMAIN next = DartsAt(s, n)
      /\ DOMAIN dir = DOMAIN big \ {e, b} /\ DOMAIN now = DOMAIN dir
      /\ \A x \in DOMAIN dir : dir[x] = big[x]
      /\ \A x \in DOMAIN big : next[x] = Next(s, -x)
  <2>1. DOMAIN big = DartsAt(s, n) /\ DOMAIN next = DartsAt(s, n)
    BY DEF Star, Links
  <2>2. DOMAIN dir = DartsAt(t, n) /\ DOMAIN now = DartsAt(t, n)
    BY DEF Star, Links
  <2>3. DartsAt(t, n) = DartsAt(s, n) \ {e, b} /\ DartsAt(t, n) \subseteq DartsOf(t)
    BY <1>1 DEF DartsAt
  <2>4. \A x \in DartsAt(t, n) : dir[x] = big[x]
    BY <1>1, <2>3 DEF Star
  <2>5. \A x \in DOMAIN big : next[x] = Next(s, -x)
    BY <2>1 DEF Links
  <2> HIDE DEF big, next, dir, now, b
  <2> QED BY <2>1, <2>2, <2>3, <2>4, <2>5
<1>4. \A x \in DOMAIN dir : \/ now[x] = SkippedBy(s, e, next[x])
                            \/ n # n1 /\ n # n2 /\ now[x] = next[x]
  BY <1>1, <1>3 DEF Star, Links
<1>5. n = n1 <=> e \in DOMAIN big
  BY <1>1, <1>3 DEF DartsAt
<1>6. n = n2 <=> b \in DOMAIN big
  BY <1>1, <1>3 DEF DartsAt
<1>7. e \in DOMAIN big => next[e] = q
  BY <1>1, <1>3
<1>8. b \in DOMAIN big => next[b] = p
  BY <1>1, <1>3
<1>9. \A x \in DOMAIN big : next[x] \in DOMAIN big
  BY <1>2, <1>3 DEF Rotation, Follows
<1>10. \A d : SkippedBy(s, e, d) = IF d = b THEN IF p # e THEN p ELSE q
                                   ELSE IF d = e THEN IF q # b THEN q ELSE p
                                   ELSE d
  BY DEF SkippedBy
<1> HIDE DEF n1, n2, p, q, b, dir, now, big, next
<1>11. CASE e \notin DOMAIN big /\ b \notin DOMAIN big
  <2>1. DOMAIN dir = DOMAIN big
    BY <1>3, <1>11
  <2>2. \A x \in DOMAIN big : dir[x] = big[x] /\ now[x] = next[x]
    BY <1>3, <1>4, <1>5, <1>6, <1>9, <1>10, <1>11, <2>1
  <2>3. Rotation(dir, now)
    BY <1>2, <1>3, <2>1, <2>2, RotationKept
  <2> QED BY <2>3 DEF dir, now
<1>12. CASE e \in DOMAIN big /\ b \notin DOMAIN big
  <2>1. DOMAIN dir = DOMAIN big \ {e} /\ q # b
    BY <1>3, <1>7, <1>9, <1>12
  <2>2. \A x \in DOMAIN dir : next[x] # b
    BY <1>3, <1>9, <1>12
  <2>3. \A x \in DOMAIN dir : now[x] = IF next[x] = e THEN next[e] ELSE next[x]
    BY <1>4, <1>5, <1>7, <1>10, <1>12, <2>1, <2>2
  <2>4. /\ e \in DOMAIN big /\ DOMAIN dir = DOMAIN big \ {e} /\ DOMAIN now = DOMAIN dir
        /\ \A x \in DOMAIN dir : dir[x] = big[x]
    BY <1>3, <1>12, <2>1
  <2>5. Rotation(dir, now)
    BY <1>2, <2>3, <2>4, RotationShrinks
  <2> QED BY <2>5 DEF dir, now
<1>13. CASE e \notin DOMAIN big /\ b \in DOMAIN big
  <2>1. DOMAIN dir = DOMAIN big \ {b} /\ p # e
    BY <1>3, <1>8, <1>9, <1>13
  <2>2. \A x \in DOMAIN dir : next[x] # e
    BY <1>3, <1>9, <1>13
  <2>3. \A x \in DOMAIN dir : now[x] = IF next[x] = b THEN next[b] ELSE next[x]
    BY <1>4, <1>6, <1>8, <1>10, <1>13, <2>1, <2>2
  <2>4. /\ b \in DOMAIN big /\ DOMAIN dir = DOMAIN big \ {b} /\ DOMAIN now = DOMAIN dir
        /\ \A x \in DOMAIN dir : dir[x] = big[x]
    BY <1>3, <1>13, <2>1
  <2>5. Rotation(dir, now)
    BY <1>2, <2>3, <2>4, RotationShrinks
  <2> QED BY <2>5 DEF dir, now
<1>14. CASE e \in DOMAIN big /\ b \in DOMAIN big
  <2> DEFINE mid  == [x \in DOMAIN big \ {e} |-> big[x]]
             then == [x \in DOMAIN big \ {e} |-> IF next[x] = e THEN next[e] ELSE next[x]]
  <2>1. /\ DOMAIN mid = DOMAIN big \ {e} /\ DOMAIN then = DOMAIN mid
        /\ \A x \in DOMAIN mid : mid[x] = big[x]
        /\ \A x \in DOMAIN mid : then[x] = IF next[x] = e THEN next[e] ELSE next[x]
    OBVIOUS
  <2> HIDE DEF mid, then
  <2>2. Rotation(mid, then)
    BY <1>2, <1>14, <2>1, RotationShrinks
  <2>3. Spread(mid)
    BY <1>2, <2>1 DEF Spread
  <2>4. /\ b \in DOMAIN mid /\ DOMAIN dir = DOMAIN mid \ {b}
        /\ \A x \in DOMAIN dir : dir[x] = mid[x]
    BY <1>1, <1>3, <1>14, <2>1 DEF b
  <2>5. then[b] = IF p = e THEN q ELSE p
    BY <1>7, <1>8, <1>14, <2>1, <2>4
  <2>6. ASSUME NEW x \in DOMAIN dir, next[x] = e
        PROVE  p # e
    <3>1. Follows(big, x, next[x]) /\ Follows(big, b, next[b]) /\ x \in DOMAIN big /\ x # b
      BY <1>2, <1>3, <1>14, <2>4 DEF Rotation
    <3>2. Cyclic(big)
      BY <1>2, SpreadIsCyclic
    <3> QED BY <1>8, <1>14, <2>6, <3>1, <3>2, FollowedIsOne
  <2>7. ASSUME NEW x \in DOMAIN dir
        PROVE  now[x] = IF then[x] = b THEN then[b] ELSE then[x]
    <3>1. now[x] = IF next[x] = b THEN IF p # e THEN p ELSE q
                   ELSE IF next[x] = e THEN IF q # b THEN q ELSE p
                   ELSE next[x]
      BY <1>4, <1>5, <1>10, <1>14
    <3>2. x \in DOMAIN mid /\ b # e
      BY <1>1, <2>4 DEF b
    <3>3. then[x] = IF next[x] = e THEN q ELSE next[x]
      BY <1>7, <1>14, <2>1, <3>2
    <3> QED BY <2>5, <2>6, <3>1, <3>2, <3>3
  <2>8. Rotation(dir, now)
    BY <1>3, <2>2, <2>3, <2>4, <2>7, RotationShrinks
  <2> QED BY <2>8 DEF dir, now
<1> QED BY <1>11, <1>12, <1>13, <1>14

LEMMA RemEdgeTurns ==
  ASSUME NEW s, Typed(s), Flat(s), Turning(s), NEW e \in DOMAIN s.edge,
         NEW modFace \in BOOLEAN, NEW nf \in Faces
  PROVE  Turning(RemEdge(s, e, modFace, nf))
<1> DEFINE fl == s.edge[e].face_left
           fr == s.edge[e].face_right
           flood == FloodFace(s, e, modFace, nf)
           u == UnlinkEdge(s, e)
           healed == HealFaces(u, fl, fr, flood)
           t == RemEdge(s, e, modFace, nf)
           n1 == s.edge[e].start_node
           n2 == s.edge[e].end_node
           near == Incident(s, n1) \cup Incident(s, n2)
<1>1. fl \in Faces /\ fr \in Faces
  BY DEF Typed, IsTopology, EdgeRow
<1>2. flood \in Faces
  BY <1>1 DEF FloodFace, Faces
<1>3. t = WithContainingFace(WithoutEdges(healed, {e}), LonelyEnds(s, e), flood)
  BY DEF RemEdge
<1>4. /\ Typed(u) /\ DOMAIN u.edge = DOMAIN s.edge /\ u.line = s.line /\ DOMAIN u.node = DOMAIN s.node
      /\ \A x \in DOMAIN s.edge :
           /\ u.edge[x].start_node = s.edge[x].start_node
           /\ u.edge[x].end_node = s.edge[x].end_node
           /\ x \in near \ {e} => /\ u.edge[x].next_left = SkippedBy(s, e, s.edge[x].next_left)
                                  /\ u.edge[x].next_right = SkippedBy(s, e, s.edge[x].next_right)
           /\ x \notin near => /\ u.edge[x].next_left = s.edge[x].next_left
                               /\ u.edge[x].next_right = s.edge[x].next_right
  BY UnlinkedEdge, UnlinkEdgeRelabels
<1> HIDE DEF flood, fl, fr, t, u
<1>5. Typed(healed) /\ Relabelled(u, healed) /\ SameLinks(u, healed)
  BY <1>1, <1>2, <1>4, HealFacesRelabels, HealFacesKeepsLinks
<1> HIDE DEF healed
<1>6. /\ t.edge = WithoutRows(healed.edge, {e}) /\ t.line = WithoutRows(healed.line, {e})
      /\ DOMAIN t.node = DOMAIN healed.node /\ DOMAIN healed.line = DOMAIN healed.edge
  BY <1>3, <1>5 DEF WithContainingFace, WithoutEdges, Typed, Tables, IsTopology
<1>7. /\ DOMAIN t.edge = DOMAIN s.edge \ {e} /\ DOMAIN t.node = DOMAIN s.node
      /\ \A x \in DOMAIN t.edge :
           /\ t.line[x] = s.line[x]
           /\ t.edge[x].start_node = s.edge[x].start_node
           /\ t.edge[x].end_node = s.edge[x].end_node
           /\ x \in near => /\ t.edge[x].next_left = SkippedBy(s, e, s.edge[x].next_left)
                            /\ t.edge[x].next_right = SkippedBy(s, e, s.edge[x].next_right)
           /\ x \notin near => /\ t.edge[x].next_left = s.edge[x].next_left
                               /\ t.edge[x].next_right = s.edge[x].next_right
  <2> HIDE DEF near
  <2> QED BY <1>4, <1>5, <1>6 DEF WithoutRows, SameLinks, Relabelled
<1>8. TakenOut(s, t, e)
  BY <1>7 DEF TakenOut
<1>9. ASSUME NEW n, NEW x \in DartsAt(t, n)
      PROVE  \/ Next(t, -x) = SkippedBy(s, e, Next(s, -x))
             \/ n \notin {n1, n2} /\ Next(t, -x) = Next(s, -x)
  <2>1. x \in DartsOf(s) /\ Origin(s, x) = n /\ x # e /\ x # -e
    BY <1>8, DartsLeft DEF DartsAt
  <2>2. /\ x \in Int /\ x # 0 /\ -(-x) = x /\ EdgeOf(x) \in DOMAIN s.edge
        /\ x \in {EdgeOf(x), -EdgeOf(x)}
    BY <2>1, DartIsSigned
  <2>3. EdgeOf(x) \in DOMAIN t.edge
    BY <1>7, <2>1, <2>2
  <2>4. n \in {n1, n2} => EdgeOf(x) \in near
    BY <2>1, <2>2 DEF Incident, Origin, EdgeOf
  <2> HIDE DEF near
  <2>5. /\ EdgeOf(x) \in near => Next(t, -x) = SkippedBy(s, e, Next(s, -x))
        /\ EdgeOf(x) \notin near => Next(t, -x) = Next(s, -x)
    BY <1>7, <2>2, <2>3 DEF Next, EdgeOf
  <2> QED BY <2>4, <2>5
<1>10. Turning(t)
  BY <1>7, <1>8, <1>9, SkippingTurns
<1> QED BY <1>10 DEF t

-----------------------------------------------------------------------------
(* Cut and joined edges leave their nodes as they did.                     *)

LEMMA TurnToSelf ==
  ASSUME NEW u \in Way
  PROVE  Turn(u, u) = 0
<1> PICK a, b \in Int : u = <<a, b>> /\ u[1] = a /\ u[2] = b /\ (a # 0 \/ b # 0) BY WayCoordinates
<1>1. CrossOf(u, u) = a * b - b * a /\ DotOf(u, u) = a * a + b * b
  BY DEF CrossOf, DotOf
<1>2. a * b = b * a /\ a * b \in Int
  OBVIOUS
<1>3. a * a + b * b > 0
  BY SquareIsPositive
<1> QED BY <1>1, <1>2, <1>3, TurnBySigns

LEMMA DirectionIsWay ==
  ASSUME NEW a \in Point, NEW b \in Point, a # b
  PROVE  Direction(a, b) \in Way
<1> PICK ax, ay \in Int : a = <<ax, ay>> /\ a[1] = ax /\ a[2] = ay BY Coordinates
<1> PICK bx, by \in Int : b = <<bx, by>> /\ b[1] = bx /\ b[2] = by BY Coordinates
<1>1. Direction(a, b) = <<bx - ax, by - ay>> /\ (bx - ax # 0 \/ by - ay # 0)
  BY DEF Direction
<1> QED BY <1>1 DEF Way

\* A point on the way is in the same direction as the end of the way.
LEMMA OnTheWay ==
  ASSUME NEW a \in Point, NEW b \in Point, NEW p \in Point, a # p, OnSegment(p, a, b)
  PROVE  a # b /\ Turn(Direction(a, b), Direction(a, p)) = 0
<1> PICK ax, ay \in Int : a = <<ax, ay>> /\ a[1] = ax /\ a[2] = ay BY Coordinates
<1> PICK bx, by \in Int : b = <<bx, by>> /\ b[1] = bx /\ b[2] = by BY Coordinates
<1> PICK px, py \in Int : p = <<px, py>> /\ p[1] = px /\ p[2] = py BY Coordinates
<1> DEFINE u == Direction(a, b)
           v == Direction(a, p)
           ux == bx - ax
           uy == by - ay
           vx == px - ax
           vy == py - ay
<1>1. Cross(a, b, p) = 0 /\ Cross(a, b, p) = ux * vy - uy * vx
  BY DEF OnSegment, Cross
<1>2. /\ (0 <= vx /\ vx <= ux) \/ (ux <= vx /\ vx <= 0)
      /\ (0 <= vy /\ vy <= uy) \/ (uy <= vy /\ vy <= 0)
  BY DEF OnSegment, Between
<1>3. vx # 0 \/ vy # 0
  BY DEF vx, vy
<1>4. u = <<ux, uy>> /\ v = <<vx, vy>> /\ ux \in Int /\ uy \in Int /\ vx \in Int /\ vy \in Int
  BY DEF Direction
<1>5. u[1] = ux /\ u[2] = uy /\ v[1] = vx /\ v[2] = vy
  BY <1>4
<1>6. a = b => ux = 0 /\ uy = 0
  OBVIOUS
<1> HIDE DEF u, v, ux, uy, vx, vy
<1>7. ux # 0 \/ uy # 0
  BY <1>2, <1>3, <1>4
<1>8. u \in Way /\ v \in Way
  BY <1>3, <1>4, <1>7 DEF Way
<1>9. CrossOf(u, v) = 0
  BY <1>1, <1>4, <1>5 DEF CrossOf
<1>10. DotOf(u, v) > 0
  <2>1. DotOf(u, v) = ux * vx + uy * vy
    BY <1>5 DEF DotOf
  <2>2. ASSUME NEW k \in Int, NEW m \in Int, (0 <= m /\ m <= k) \/ (k <= m /\ m <= 0)
        PROVE  k * m >= 0 /\ (m # 0 => k * m > 0)
    BY <2>2
  <2>3. ux * vx >= 0 /\ (vx # 0 => ux * vx > 0) /\ uy * vy >= 0 /\ (vy # 0 => uy * vy > 0)
    BY <1>2, <1>4, <2>2
  <2>4. ux * vx \in Int /\ uy * vy \in Int
    BY <1>4
  <2> QED BY <1>3, <2>1, <2>3, <2>4
<1> QED BY <1>6, <1>7, <1>8, <1>9, <1>10, TurnBySigns DEF u, v

LEMMA PiecesLeaveTheSameWay ==
  ASSUME NEW g \in Line, NEW p \in Point, InInterior(p, g)
  PROVE  LET h == HeadUpTo(g, p)
             t == TailFrom(g, p)
         IN  /\ Turn(Direction(g[1], g[2]), Direction(h[1], h[2])) = 0
             /\ Turn(Direction(g[Len(g)], g[Len(g) - 1]),
                     Direction(t[Len(t)], t[Len(t) - 1])) = 0
<1> DEFINE h == HeadUpTo(g, p)
           t == TailFrom(g, p)
           i == CutIndex(g, p)
           o == IF g[i + 1] = p THEN i ELSE i - 1
<1>1. /\ i \in 1 .. Len(g) - 1 /\ p # g[i] /\ OnSegment(p, g[i], g[i + 1])
      /\ \A k \in 1 .. i : h[k] = g[k]
      /\ h[i + 1] = p
  BY CutIndexOfPoint, HeadOfLine
<1>2. /\ t \in Line /\ Len(t) = Len(g) - o /\ t[1] = p
      /\ \A k \in 2 .. Len(t) : t[k] = g[k + o]
  BY TailOfLine
<1>3. /\ Len(g) \in Nat /\ Len(g) >= 2 /\ Len(t) \in Nat /\ Len(t) >= 2
      /\ \A k \in 1 .. Len(g) : g[k] \in Point
      /\ \A k \in 1 .. Len(g) - 1 : g[k] # g[k + 1]
      /\ p # g[Len(g)]
  BY <1>2, LineVertices DEF InInterior, EndPoint
<1> HIDE DEF h, t, i
<1>4. ASSUME NEW k \in 1 .. Len(g), NEW m \in 1 .. Len(g), g[k] # g[m]
      PROVE  Turn(Direction(g[k], g[m]), Direction(g[k], g[m])) = 0
  BY <1>3, <1>4, DirectionIsWay, TurnToSelf
<1>5. Turn(Direction(g[1], g[2]), Direction(h[1], h[2])) = 0
  <2>1. 1 \in 1 .. i /\ 1 \in 1 .. Len(g) - 1 /\ 1 \in 1 .. Len(g) /\ 2 \in 1 .. Len(g) /\ 1 + 1 = 2
    BY <1>1, <1>3
  <2>2. h[1] = g[1] /\ g[1] # g[2]
    BY <1>1, <1>3, <2>1
  <2>3. CASE i = 1
    <3>1. h[2] = p /\ p # g[1] /\ OnSegment(p, g[1], g[2])
      BY <1>1, <2>1, <2>3
    <3> QED BY <1>3, <2>1, <2>2, <3>1, OnTheWay
  <2>4. CASE i # 1
    <3>1. 2 \in 1 .. i
      BY <1>1, <2>4
    <3>2. h[2] = g[2]
      BY <1>1, <3>1
    <3> QED BY <1>4, <2>1, <2>2, <3>2
  <2> QED BY <2>3, <2>4
<1>6. Turn(Direction(g[Len(g)], g[Len(g) - 1]), Direction(t[Len(t)], t[Len(t) - 1])) = 0
  <2> DEFINE n == Len(g)
             k == Len(g) - 1
  <2>1. n \in 1 .. Len(g) /\ k \in 1 .. Len(g) /\ k \in 1 .. Len(g) - 1 /\ k + 1 = n
    BY <1>3
  <2>2. g[n] # g[k] /\ g[n] \in Point /\ g[k] \in Point
    BY <1>3, <2>1
  <2>3. t[Len(t)] = g[n]
    <3>1. Len(t) \in 2 .. Len(t) /\ Len(t) + o = n
      BY <1>1, <1>2, <1>3
    <3> QED BY <1>2, <3>1
  <2>4. CASE Len(t) - 1 >= 2
    <3>1. Len(t) - 1 \in 2 .. Len(t) /\ (Len(t) - 1) + o = k
      BY <1>1, <1>2, <1>3, <2>4
    <3>2. t[Len(t) - 1] = g[k]
      BY <1>2, <3>1
    <3> HIDE DEF n, k
    <3> QED BY <1>4, <2>1, <2>2, <2>3, <3>2 DEF n, k
  <2>5. CASE ~ (Len(t) - 1 >= 2)
    <3>1. Len(t) - 1 = 1 /\ o = Len(g) - 2
      BY <1>1, <1>2, <1>3, <2>5
    <3>2. t[Len(t) - 1] = p
      BY <1>2, <3>1
    <3>3. CASE g[i + 1] = p
      <4>1. i + 1 = k
        BY <1>1, <1>3, <3>1, <3>3
      <4>2. p = g[k]
        BY <3>3, <4>1
      <4> HIDE DEF n, k
      <4> QED BY <1>4, <2>1, <2>2, <2>3, <3>2, <4>2 DEF n, k
    <3>4. CASE g[i + 1] # p
      <4>1. i = k /\ i + 1 = n
        BY <1>1, <1>3, <3>1, <3>4
      <4>2. OnSegment(p, g[k], g[n]) /\ p # g[n]
        BY <1>1, <1>3, <4>1
      <4> HIDE DEF n, k
      <4>3. OnSegment(p, g[n], g[k])
        BY <2>2, <4>2, OnSegmentReversed
      <4>4. Turn(Direction(g[n], g[k]), Direction(g[n], p)) = 0
        BY <2>2, <4>2, <4>3, OnTheWay
      <4> QED BY <2>3, <3>2, <4>4 DEF n, k
    <3> QED BY <3>3, <3>4
  <2> QED BY <2>4, <2>5, <1>3
<1> QED BY <1>5, <1>6 DEF h, t

LEMMA NextStartsThere ==
  ASSUME NEW s, Typed(s), Flat(s), Turning(s), NEW d \in DartsOf(s)
  PROVE  Next(s, d) \in DartsAt(s, Target(s, d)) /\ Next(s, d) \in DartsOf(s)
<1>1. -d \in DartsOf(s) /\ -(-d) = d
  BY DartIsSigned
<1>2. Origin(s, -d) = Target(s, d) /\ Target(s, d) \in DOMAIN s.node
  BY <1>1, DartDrawn DEF Target
<1>3. -d \in DartsAt(s, Target(s, d))
  BY <1>1, <1>2 DEF DartsAt
<1>4. Links(s, Target(s, d))[-d] = Next(s, d)
  BY <1>1, <1>3 DEF Links
<1>5. -d \in DOMAIN Star(s, Target(s, d)) /\ DOMAIN Star(s, Target(s, d)) = DartsAt(s, Target(s, d))
  BY <1>3 DEF Star
<1>6. Rotation(Star(s, Target(s, d)), Links(s, Target(s, d)))
  BY <1>2 DEF Turning
<1>7. Follows(Star(s, Target(s, d)), -d, Links(s, Target(s, d))[-d])
  BY <1>5, <1>6 DEF Rotation
<1>8. Next(s, d) \in DartsAt(s, Target(s, d))
  BY <1>4, <1>5, <1>7 DEF Follows
<1> QED BY <1>8 DEF DartsAt

\* The darts around a node have new names, and leave it as before.
LEMMA RenamedAround ==
  ASSUME NEW s, Typed(s), Flat(s), Turning(s), NEW t, Typed(t), Flat(t),
         NEW n \in DOMAIN s.node, n \in DOMAIN t.node, NEW f,
         \A x \in DartsAt(s, n) : f[x] \in DartsAt(t, n),
         \A x, y \in DartsAt(s, n) : x # y => f[x] # f[y],
         \A y \in DartsAt(t, n) : \E x \in DartsAt(s, n) : f[x] = y,
         \A x \in DartsAt(s, n) : /\ Turn(Leaving(s, x), Leaving(t, f[x])) = 0
                                  /\ Next(t, -f[x]) = f[Next(s, -x)]
  PROVE  Rotation(Star(t, n), Links(t, n))
<1>1. /\ Rotation(Star(s, n), Links(s, n)) /\ Spread(Star(s, n)) /\ Spread(Star(t, n))
      /\ DOMAIN Star(s, n) = DartsAt(s, n) /\ DOMAIN Links(t, n) = DartsAt(t, n)
      /\ DOMAIN Star(t, n) = DartsAt(t, n)
  BY EndsAreSpread DEF Turning, Star, Links
<1>2. \A x \in DartsAt(s, n) :
        Turn(Star(s, n)[x], Star(t, n)[f[x]]) = 0 /\ Links(t, n)[f[x]] = f[Links(s, n)[x]]
  BY DEF Star, Links
<1> HIDE DEF Star, Links
<1> QED BY <1>1, <1>2, RotationRenamed

-----------------------------------------------------------------------------
(* Splitting an edge.                                                      *)

\* The end of a or b that is where the end d of e was.
PieceOf(e, a, b, d) == IF d = e THEN a ELSE IF d = -e THEN -b ELSE d

\* The links point to the pieces where they pointed to the edge, and the two
\* pieces to each other at the new node.
LinksSplit(s, t, e, a, b) ==
  /\ \A d \in DartsOf(s) : Next(t, -PieceOf(e, a, b, d)) = PieceOf(e, a, b, Next(s, -d))
  /\ Next(t, a) = b /\ Next(t, -b) = -a

LEMMA SplitTurns ==
  ASSUME NEW s, Typed(s), Flat(s), Turning(s), NEW e, NEW p \in Point, CanSplitEdge(s, e, p),
         NEW t, Typed(t), Flat(t), NEW n, NEW a, NEW b, DrawsSplit(t, s, e, p, n, a, b),
         LinksSplit(s, t, e, a, b)
  PROVE  Turning(t)
<1> DEFINE g == s.line[e]
           piece(d) == PieceOf(e, a, b, d)
<1>1. /\ e \in DOMAIN s.edge /\ InInterior(p, g) /\ g \in Line
      /\ n \notin DOMAIN s.node /\ a # b /\ (a = e \/ a \notin DOMAIN s.edge) /\ b \notin DOMAIN s.edge
      /\ DOMAIN t.node = DOMAIN s.node \cup {n}
      /\ DOMAIN t.edge = (DOMAIN s.edge \ {e}) \cup {a, b}
      /\ t.line[a] = HeadUpTo(g, p) /\ t.line[b] = TailFrom(g, p)
      /\ t.edge[a].start_node = s.edge[e].start_node /\ t.edge[a].end_node = n
      /\ t.edge[b].start_node = n /\ t.edge[b].end_node = s.edge[e].end_node
      /\ \A x \in DOMAIN s.edge \ {e} : /\ t.line[x] = s.line[x]
                                        /\ t.edge[x].start_node = s.edge[x].start_node
                                        /\ t.edge[x].end_node = s.edge[x].end_node
  BY DEF CanSplitEdge, DrawsSplit, Flat, EdgeDrawn
<1>2. DOMAIN s.edge \subseteq EdgeIds /\ DOMAIN t.edge \subseteq EdgeIds
  BY DEF Typed, IsTopology
<1>3. /\ DOMAIN s.edge \subseteq Nat \ {0} /\ DOMAIN t.edge \subseteq Nat \ {0}
  BY <1>2, IdentifiersArePositive
<1>4. e \in Nat \ {0} /\ a \in Nat \ {0} /\ b \in Nat \ {0} /\ a \in DOMAIN t.edge /\ b \in DOMAIN t.edge
  BY <1>1, <1>3
<1>5. /\ DartsOf(s) = DOMAIN s.edge \cup {-x : x \in DOMAIN s.edge}
      /\ DartsOf(t) = DOMAIN t.edge \cup {-x : x \in DOMAIN t.edge}
  BY DEF DartsOf
<1>6. DartsOf(t) = (DartsOf(s) \ {e, -e}) \cup {a, -a, b, -b}
  BY <1>1, <1>3, <1>4, <1>5
<1>7. \A d \in DartsOf(s) : d \in Int /\ d # 0 /\ EdgeOf(d) \in DOMAIN s.edge
                            /\ d \in {EdgeOf(d), -EdgeOf(d)}
  BY DartIsSigned
<1>8. /\ Leaving(s, e) = Direction(g[1], g[2])
      /\ Leaving(s, -e) = Direction(g[Len(g)], g[Len(g) - 1])
      /\ Leaving(t, a) = Direction(t.line[a][1], t.line[a][2])
      /\ Leaving(t, -b) = Direction(t.line[b][Len(t.line[b])], t.line[b][Len(t.line[b]) - 1])
  BY <1>1, <1>4, LeavingEdge
<1>9. Turn(Leaving(s, e), Leaving(t, a)) = 0 /\ Turn(Leaving(s, -e), Leaving(t, -b)) = 0
  <2> DEFINE h == HeadUpTo(g, p)
             k == TailFrom(g, p)
  <2>1. g \in Line /\ p \in Point /\ InInterior(p, g)
    BY <1>1
  <2>2. Leaving(s, e) = Direction(g[1], g[2]) /\ Leaving(s, -e) = Direction(g[Len(g)], g[Len(g) - 1])
    BY <1>8
  <2>3. t.line[a] = h /\ t.line[b] = k
    BY <1>1
  <2>4. Leaving(t, a) = Direction(h[1], h[2]) /\ Leaving(t, -b) = Direction(k[Len(k)], k[Len(k) - 1])
    BY <1>8, <2>3
  <2> HIDE DEF g
  <2>5. /\ Turn(Direction(g[1], g[2]), Direction(h[1], h[2])) = 0
        /\ Turn(Direction(g[Len(g)], g[Len(g) - 1]), Direction(k[Len(k)], k[Len(k) - 1])) = 0
    BY <2>1, PiecesLeaveTheSameWay
  <2> HIDE DEF h, k
  <2> QED BY <2>2, <2>4, <2>5
<1>10. /\ Origin(s, e) = s.edge[e].start_node /\ Origin(s, -e) = s.edge[e].end_node
       /\ Origin(t, a) = s.edge[e].start_node /\ Origin(t, -a) = n
       /\ Origin(t, b) = n /\ Origin(t, -b) = s.edge[e].end_node
  BY <1>1, <1>4 DEF Origin
<1>11. ASSUME NEW d \in DartsOf(s) \ {e, -e}
       PROVE  Origin(t, d) = Origin(s, d) /\ Leaving(t, d) = Leaving(s, d)
  <2>1. EdgeOf(d) \in DOMAIN s.edge \ {e} /\ d \in Int /\ d # 0
    BY <1>7
  <2>2. d > 0 => d \in DOMAIN s.edge \ {e}
    BY <2>1 DEF EdgeOf
  <2>3. ~ (d > 0) => -d \in DOMAIN s.edge \ {e}
    BY <2>1 DEF EdgeOf
  <2>4. Path(t, d) = Path(s, d)
    BY <1>1, <2>2, <2>3 DEF Path
  <2>5. Origin(t, d) = Origin(s, d)
    BY <1>1, <2>2, <2>3 DEF Origin
  <2> QED BY <2>4, <2>5 DEF Leaving
<1>12. \A d \in DartsOf(s) : Origin(s, d) # n
  BY <1>1, DartDrawn
<1>13. DartsAt(t, n) = {-a, b}
  <2>1. /\ Origin(t, a) # n /\ Origin(t, -b) # n
    BY <1>1, <1>10 DEF Flat, EdgeDrawn
  <2> QED BY <1>6, <1>10, <1>11, <1>12, <2>1 DEF DartsAt
\* The old darts and their names now.
<1>14. ASSUME NEW d \in DartsOf(s)
       PROVE  /\ piece(d) \in DartsOf(t) /\ Origin(t, piece(d)) = Origin(s, d)
              /\ Turn(Leaving(s, d), Leaving(t, piece(d))) = 0
              /\ Next(t, -piece(d)) = piece(Next(s, -d))
  <2>1. CASE d = e
    BY <1>6, <1>9, <1>10, <2>1 DEF LinksSplit, PieceOf
  <2>2. CASE d = -e
    <3>1. piece(d) = -b
      BY <1>4, <2>2 DEF PieceOf
    <3>2. Next(t, -piece(d)) = piece(Next(s, -d))
      BY DEF LinksSplit
    <3> HIDE DEF piece
    <3> QED BY <1>6, <1>9, <1>10, <2>2, <3>1, <3>2
  <2>3. CASE d \notin {e, -e}
    <3>1. piece(d) = d
      BY <2>3 DEF PieceOf
    <3>2. Leaving(s, d) \in Way
      BY FirstSegment
    <3>3. Next(t, -piece(d)) = piece(Next(s, -d))
      BY DEF LinksSplit
    <3> HIDE DEF piece
    <3> QED BY <1>6, <1>11, <2>3, <3>1, <3>2, <3>3, TurnToSelf
  <2> QED BY <2>1, <2>2, <2>3
<1>15. ASSUME NEW c \in DartsOf(s), NEW d \in DartsOf(s), c # d
       PROVE  piece(c) # piece(d)
  <2>1. \A x \in DartsOf(s) \ {e, -e} : x # a /\ x # -b
    BY <1>1, <1>3, <1>4, <1>5
  <2>2. a # -b /\ e # -e
    BY <1>4
  <2> QED BY <1>15, <2>1, <2>2 DEF PieceOf
<1>16. ASSUME NEW y \in DartsOf(t), Origin(t, y) # n
       PROVE  \E d \in DartsOf(s) : piece(d) = y
  <2>1. e \in DartsOf(s) /\ -e \in DartsOf(s) /\ e # -e
    BY <1>1, <1>4, <1>5
  <2>2. y \in (DartsOf(s) \ {e, -e}) \cup {a, -b}
    BY <1>6, <1>10, <1>16
  <2> QED BY <2>1, <2>2 DEF PieceOf
<1> SUFFICES ASSUME NEW m \in DOMAIN t.node
             PROVE  Rotation(Star(t, m), Links(t, m))
  BY DEF Turning
<1>17. CASE m = n
  <2> DEFINE c == -a
  <2>1. /\ c # b /\ DartsAt(t, m) = {c, b} /\ Next(t, -c) = b /\ Next(t, -b) = c
    BY <1>4, <1>13, <1>17 DEF LinksSplit
  <2> HIDE DEF c
  <2> QED BY <2>1, TwoAround
<1>18. CASE m # n
  <2> DEFINE f == [d \in DartsOf(s) |-> piece(d)]
  <2>1. \A d \in DartsOf(s) : f[d] = piece(d)
    OBVIOUS
  <2> HIDE DEF f, piece
  <2>2. m \in DOMAIN s.node
    BY <1>1, <1>18
  <2>3. \A x \in DartsAt(s, m) : x \in DartsOf(s) /\ Origin(s, x) = m
    BY DEF DartsAt
  <2>4. \A x \in DartsAt(s, m) : f[x] \in DartsAt(t, m)
    BY <1>14, <2>1, <2>3 DEF DartsAt
  <2>5. \A x, y \in DartsAt(s, m) : x # y => f[x] # f[y]
    BY <1>15, <2>1, <2>3
  <2>6. ASSUME NEW y \in DartsAt(t, m)
        PROVE  \E x \in DartsAt(s, m) : f[x] = y
    <3>1. y \in DartsOf(t) /\ Origin(t, y) = m
      BY DEF DartsAt
    <3>2. PICK d \in DartsOf(s) : piece(d) = y
      BY <1>16, <1>18, <3>1
    <3>3. Origin(s, d) = m
      BY <1>14, <3>1, <3>2
    <3> QED BY <2>1, <3>2, <3>3 DEF DartsAt
  <2>7. ASSUME NEW x \in DartsAt(s, m)
        PROVE  /\ Turn(Leaving(s, x), Leaving(t, f[x])) = 0
               /\ Next(t, -f[x]) = f[Next(s, -x)]
    <3>1. x \in DartsOf(s) /\ -x \in DartsOf(s)
      BY <2>3, DartIsSigned
    <3>2. Next(s, -x) \in DartsOf(s)
      BY <3>1, NextStartsThere
    <3> QED BY <1>14, <2>1, <3>1, <3>2
  <2> QED BY <2>2, <2>4, <2>5, <2>6, <2>7, RenamedAround
<1> QED BY <1>17, <1>18

LEMMA ModEdgeSplitTurns ==
  ASSUME NEW s, Sound(s), Flat(s), Turning(s), NEW e, NEW p \in Point, CanSplitEdge(s, e, p),
         NEW n \in NodeIds \ DOMAIN s.node, NEW e2 \in EdgeIds \ DOMAIN s.edge,
         Typed(ModEdgeSplit(s, e, p, n, e2))
  PROVE  Turning(ModEdgeSplit(s, e, p, n, e2))
<1> DEFINE old  == s.edge[e]
           tail == [old EXCEPT !.start_node = n,
                               !.next_left  = IF @ = -e THEN -e2 ELSE @,
                               !.next_right = -e]
           head == [old EXCEPT !.next_left = e2, !.end_node = n]
           rows == WithRow([s.edge EXCEPT ![e] = head], e2, tail)
           relinked(x) ==
             [rows[x] EXCEPT
                !.next_right = IF @ = -e /\ rows[x].start_node = old.end_node THEN -e2 ELSE @,
                !.next_left  = IF @ = -e /\ rows[x].end_node = old.end_node THEN -e2 ELSE @]
           t == ModEdgeSplit(s, e, p, n, e2)
           piece(d) == PieceOf(e, e, e2, d)
<1>1. /\ e \in DOMAIN s.edge /\ e2 # e /\ e2 \notin DOMAIN s.edge /\ DOMAIN s.line = DOMAIN s.edge
      /\ DOMAIN s.point = DOMAIN s.node /\ \A x \in DOMAIN s.edge : s.edge[x] \in EdgeRow
      /\ Typed(s)
  BY DEF CanSplitEdge, Sound, Typed, IsTopology
<1>2. e \in Nat \ {0} /\ e2 \in Nat \ {0}
  <2> HIDE DEF t, rows, relinked, head, tail, old
  <2>1. e \in EdgeIds /\ e2 \in EdgeIds
    BY <1>1 DEF Typed, IsTopology
  <2> QED BY <2>1, IdentifiersArePositive
<1>3. /\ DOMAIN t.node = DOMAIN s.node \cup {n} /\ t.point = WithRow(s.point, n, p)
      /\ t.edge = [x \in DOMAIN rows |-> IF x = e2 THEN tail ELSE relinked(x)]
      /\ t.line = WithRow([s.line EXCEPT ![e] = HeadUpTo(s.line[e], p)],
                          e2, TailFrom(s.line[e], p))
  <2> DEFINE u == WithNode(s, n, NotIsolated, p)
             rowsNow == [x \in DOMAIN rows |-> IF x = e2 THEN tail ELSE relinked(x)]
  <2>1. t = [u EXCEPT !.edge = rowsNow,
                      !.line = WithRow([@ EXCEPT ![e] = HeadUpTo(s.line[e], p)], e2, TailFrom(s.line[e], p)),
                      !.lineal = IF e \in @ THEN @ \cup {e2} ELSE @]
    BY Zenon DEF ModEdgeSplit
  <2>2. DOMAIN s = {"node", "point", "edge", "line", "mbr", "areal", "lineal"}
    BY <1>1 DEF Typed, Tables
  <2> HIDE DEF t, rowsNow
  <2>3. /\ DOMAIN u = DOMAIN s /\ u.node = WithRow(s.node, n, NotIsolated)
        /\ u.point = WithRow(s.point, n, p) /\ u.line = s.line
    BY <2>2 DEF WithNode
  <2> HIDE DEF u
  <2>4. DOMAIN WithRow(s.node, n, NotIsolated) = DOMAIN s.node \cup {n}
    BY DEF WithRow
  <2>5. t.node = u.node /\ t.point = u.point /\ t.edge = rowsNow
    BY <2>1, <2>2, <2>3
  <2>6. t.line = WithRow([u.line EXCEPT ![e] = HeadUpTo(s.line[e], p)], e2, TailFrom(s.line[e], p))
    BY <2>1, <2>2, <2>3
  <2> HIDE DEF rows, relinked, head, tail, old
  <2> QED BY <2>3, <2>4, <2>5, <2>6 DEF rowsNow
<1>4. /\ tail.start_node = n /\ tail.end_node = old.end_node
      /\ tail.next_left = (IF old.next_left = -e THEN -e2 ELSE old.next_left) /\ tail.next_right = -e
      /\ head.start_node = old.start_node /\ head.end_node = n
      /\ head.next_left = e2 /\ head.next_right = old.next_right
  BY <1>1 DEF EdgeRow
<1>5. DOMAIN head = DOMAIN old
  OBVIOUS
<1> HIDE DEF t, tail, head
<1>6. /\ DOMAIN rows = DOMAIN s.edge \cup {e2} /\ rows[e] = head
      /\ \A x \in DOMAIN s.edge \ {e} : rows[x] = s.edge[x]
  BY <1>1 DEF WithRow
<1> HIDE DEF rows
<1>7. \A x \in DOMAIN s.edge :
        /\ relinked(x).start_node = rows[x].start_node
        /\ relinked(x).end_node = rows[x].end_node
        /\ relinked(x).next_right = IF rows[x].next_right = -e /\ rows[x].start_node = old.end_node
                                    THEN -e2 ELSE rows[x].next_right
        /\ relinked(x).next_left = IF rows[x].next_left = -e /\ rows[x].end_node = old.end_node
                                   THEN -e2 ELSE rows[x].next_left
  BY <1>1, <1>5, <1>6 DEF EdgeRow
<1> HIDE DEF relinked
<1>8. /\ DOMAIN t.edge = (DOMAIN s.edge \ {e}) \cup {e, e2}
      /\ t.edge[e2] = tail /\ t.edge[e] = relinked(e)
      /\ \A x \in DOMAIN s.edge \ {e} : t.edge[x] = relinked(x)
  BY <1>1, <1>3, <1>6
<1>9. /\ t.line[e] = HeadUpTo(s.line[e], p) /\ t.line[e2] = TailFrom(s.line[e], p)
      /\ \A x \in DOMAIN s.edge \ {e} : t.line[x] = s.line[x]
  BY <1>1, <1>3 DEF WithRow
<1>10. /\ t.point[n] = p
       /\ \A m \in DOMAIN s.node : t.point[m] = s.point[m]
  BY <1>1, <1>3 DEF WithRow
<1>11. /\ t.edge[e].start_node = s.edge[e].start_node /\ t.edge[e].end_node = n
       /\ t.edge[e2].start_node = n /\ t.edge[e2].end_node = s.edge[e].end_node
       /\ \A x \in DOMAIN s.edge \ {e} : /\ t.edge[x].start_node = s.edge[x].start_node
                                         /\ t.edge[x].end_node = s.edge[x].end_node
  BY <1>1, <1>4, <1>6, <1>7, <1>8
<1>12. DrawsSplit(t, s, e, p, n, e, e2)
  BY <1>1, <1>3, <1>8, <1>9, <1>10, <1>11 DEF DrawsSplit
<1>13. Flat(t)
  BY ModEdgeSplitFlat DEF t
\* A link to the end of the old edge is one from a dart that ends there.
<1>14. ASSUME NEW c \in DartsOf(s), Next(s, c) = -e
       PROVE  Target(s, c) = old.end_node
  <2>1. Origin(s, -e) = Target(s, c)
    BY <1>1, <1>14, NextStartsThere DEF DartsAt
  <2> QED BY <1>2, <2>1 DEF Origin
<1>15. \A c : piece(c) = IF c = -e THEN -e2 ELSE c
  <2> TAKE c
  <2>1. CASE c = e
    <3>1. e # -e
      BY <1>2
    <3> QED BY <2>1, <3>1 DEF PieceOf
  <2>2. CASE c # e
    BY <2>2 DEF PieceOf
  <2> QED BY <2>1, <2>2
<1> HIDE DEF old, piece
<1>16. ASSUME NEW c \in DartsOf(s), c # e
       PROVE  Next(t, c) = piece(Next(s, c))
  <2>1. c \in Int /\ c # 0 /\ EdgeOf(c) \in DOMAIN s.edge /\ -(-c) = c
    BY <1>1, DartIsSigned
  <2>2. CASE c > 0
    <3>1. c \in DOMAIN s.edge \ {e} /\ -c < 0
      BY <1>16, <2>1, <2>2 DEF EdgeOf
    <3>2. Next(s, c) = s.edge[c].next_left /\ Target(s, c) = s.edge[c].end_node
      BY <2>1, <2>2, <3>1 DEF Next, Target, Origin
    <3>3. Next(t, c) = IF s.edge[c].next_left = -e /\ s.edge[c].end_node = old.end_node
                       THEN -e2 ELSE s.edge[c].next_left
      BY <1>6, <1>7, <1>8, <2>2, <3>1 DEF Next
    <3> QED BY <1>14, <1>15, <3>2, <3>3
  <2>3. CASE ~ (c > 0) /\ c # -e
    <3>1. -c \in DOMAIN s.edge \ {e} /\ -c > 0
      BY <1>2, <2>1, <2>3 DEF EdgeOf
    <3>2. Next(s, c) = s.edge[-c].next_right /\ Target(s, c) = s.edge[-c].start_node
      BY <2>1, <2>3, <3>1 DEF Next, Target, Origin
    <3>3. Next(t, c) = IF s.edge[-c].next_right = -e /\ s.edge[-c].start_node = old.end_node
                       THEN -e2 ELSE s.edge[-c].next_right
      BY <1>6, <1>7, <1>8, <2>3, <3>1 DEF Next
    <3> QED BY <1>14, <1>15, <3>2, <3>3
  <2>4. CASE c = -e
    <3>1. -c = e /\ e > 0 /\ ~ (c > 0)
      BY <1>2, <2>4
    <3>2. Next(s, c) = s.edge[e].next_right /\ Target(s, c) = s.edge[e].start_node
      BY <3>1 DEF Next, Target, Origin
    <3>3. Next(t, c) = IF s.edge[e].next_right = -e /\ s.edge[e].start_node = old.end_node
                       THEN -e2 ELSE s.edge[e].next_right
      BY <1>1, <1>4, <1>6, <1>7, <1>8, <3>1 DEF Next, old
    <3> QED BY <1>14, <1>15, <3>2, <3>3
  <2> QED BY <2>2, <2>3, <2>4
<1>17. Next(t, e2) = piece(Next(s, e)) /\ Next(t, -e2) = -e /\ Next(t, e) = e2
  <2>1. ~ (-e2 > 0) /\ e2 > 0 /\ -(-e2) = e2 /\ e > 0 /\ e2 # -e
    BY <1>2
  <2>2. Next(t, e) = relinked(e).next_left /\ Next(t, e2) = tail.next_left /\ Next(t, -e2) = tail.next_right
    BY <1>8, <2>1 DEF Next
  <2>3. relinked(e).next_left = e2
    BY <1>1, <1>4, <1>6, <1>7, <2>1
  <2>4. Next(s, e) = old.next_left
    BY <2>1 DEF Next, old
  <2> QED BY <1>4, <1>15, <2>2, <2>3, <2>4
<1>18. LinksSplit(s, t, e, e, e2)
  <2>1. ASSUME NEW d \in DartsOf(s)
        PROVE  Next(t, -piece(d)) = piece(Next(s, -d))
    <3>1. d \in Int /\ -d \in DartsOf(s) /\ -(-e2) = e2 /\ -(-e) = e
      BY <1>1, <1>2, DartIsSigned
    <3>2. CASE d = -e
      BY <1>15, <1>17, <3>1, <3>2
    <3>3. CASE d # -e
      <4>1. -d # e
        BY <1>2, <3>1, <3>3
      <4> QED BY <1>15, <1>16, <3>1, <3>3, <4>1
    <3> QED BY <3>2, <3>3
  <2> QED BY <1>17, <2>1 DEF LinksSplit, piece
<1>19. Turning(t)
  BY <1>1, <1>12, <1>13, <1>18, SplitTurns DEF t
<1> QED BY <1>19 DEF t

LEMMA NewEdgesSplitTurns ==
  ASSUME NEW s, Sound(s), Flat(s), Turning(s), NEW e, NEW p \in Point, CanSplitEdge(s, e, p),
         \A x \in DOMAIN s.edge \ {e} : s.edge[x].next_right \notin {e, -e},
         NEW n \in NodeIds \ DOMAIN s.node,
         NEW e1 \in EdgeIds \ DOMAIN s.edge, NEW e2 \in EdgeIds \ DOMAIN s.edge, e1 # e2,
         Typed(NewEdgesSplit(s, e, p, n, e1, e2))
  PROVE  Turning(NewEdgesSplit(s, e, p, n, e1, e2))
<1> DEFINE old  == s.edge[e]
           head == [old EXCEPT !.end_node = n,
                               !.next_left = e2,
                               !.next_right = IF @ = e THEN e1 ELSE IF @ = -e THEN -e2 ELSE @]
           tail == [old EXCEPT !.start_node = n,
                               !.next_right = -e1,
                               !.next_left = IF @ = -e THEN -e2 ELSE IF @ = e THEN e1 ELSE @]
           rows == WithRow(WithRow(WithoutRows(s.edge, {e}), e1, head), e2, tail)
           relinked(x) ==
             [rows[x] EXCEPT
                !.next_right = IF @ = e /\ rows[x].start_node = old.start_node THEN e2
                               ELSE IF @ = -e /\ rows[x].start_node = old.end_node THEN -e1
                               ELSE @,
                !.next_left  = IF @ = e /\ rows[x].end_node = old.start_node THEN e1
                               ELSE IF @ = -e /\ rows[x].end_node = old.end_node THEN -e2
                               ELSE @]
           t == NewEdgesSplit(s, e, p, n, e1, e2)
           piece(d) == PieceOf(e, e1, e2, d)
<1>1. /\ e \in DOMAIN s.edge /\ e1 # e /\ e2 # e /\ DOMAIN s.line = DOMAIN s.edge
      /\ DOMAIN s.point = DOMAIN s.node /\ \A x \in DOMAIN s.edge : s.edge[x] \in EdgeRow
      /\ Typed(s)
  BY DEF CanSplitEdge, Sound, Typed, IsTopology
<1>2. e \in Nat \ {0} /\ e1 \in Nat \ {0} /\ e2 \in Nat \ {0}
  <2> HIDE DEF t, rows, relinked, head, tail, old
  <2>1. e \in EdgeIds
    BY <1>1 DEF Typed, IsTopology
  <2> QED BY <2>1, IdentifiersArePositive
<1>3. /\ DOMAIN t.node = DOMAIN s.node \cup {n} /\ t.point = WithRow(s.point, n, p)
      /\ t.edge = [x \in DOMAIN rows |-> relinked(x)]
      /\ t.line = WithRow(WithRow(WithoutRows(s.line, {e}), e1, HeadUpTo(s.line[e], p)),
                          e2, TailFrom(s.line[e], p))
  <2> DEFINE u == WithNode(s, n, NotIsolated, p)
             rowsNow == [x \in DOMAIN rows |-> relinked(x)]
  <2>1. t = [u EXCEPT !.edge = rowsNow,
                      !.line = WithRow(WithRow(WithoutRows(@, {e}), e1, HeadUpTo(s.line[e], p)), e2, TailFrom(s.line[e], p)),
                      !.lineal = IF e \in @ THEN (@ \ {e}) \cup {e1, e2} ELSE @]
    BY Zenon DEF NewEdgesSplit
  <2>2. DOMAIN s = {"node", "point", "edge", "line", "mbr", "areal", "lineal"}
    BY <1>1 DEF Typed, Tables
  <2> HIDE DEF t, rowsNow
  <2>3. /\ DOMAIN u = DOMAIN s /\ u.node = WithRow(s.node, n, NotIsolated)
        /\ u.point = WithRow(s.point, n, p) /\ u.line = s.line
    BY <2>2 DEF WithNode
  <2> HIDE DEF u
  <2>4. DOMAIN WithRow(s.node, n, NotIsolated) = DOMAIN s.node \cup {n}
    BY DEF WithRow
  <2>5. t.node = u.node /\ t.point = u.point /\ t.edge = rowsNow
    BY <2>1, <2>2, <2>3
  <2>6. t.line = WithRow(WithRow(WithoutRows(u.line, {e}), e1, HeadUpTo(s.line[e], p)), e2, TailFrom(s.line[e], p))
    BY <2>1, <2>2, <2>3
  <2> HIDE DEF rows, relinked, head, tail, old
  <2> QED BY <2>3, <2>4, <2>5, <2>6 DEF rowsNow
<1>4. e # -e /\ e1 # -e /\ e1 # -e1 /\ -e1 # e /\ -e1 # -e /\ e2 # -e /\ -e2 # e /\ -e2 # -e
  BY <1>1, <1>2
\* The rows of the two pieces, before and after the links are looked at.
<1>5. \A c : piece(c) = IF c = -e THEN -e2 ELSE IF c = e THEN e1 ELSE c
  BY <1>4 DEF PieceOf
<1>6. /\ tail.start_node = n /\ tail.end_node = old.end_node
      /\ tail.next_left = piece(old.next_left) /\ tail.next_right = -e1
      /\ head.start_node = old.start_node /\ head.end_node = n
      /\ head.next_left = e2 /\ head.next_right = piece(old.next_right)
      /\ DOMAIN tail = DOMAIN old /\ DOMAIN head = DOMAIN old
  <2> HIDE DEF piece
  <2> QED BY <1>1, <1>4, <1>5 DEF EdgeRow
<1> HIDE DEF t, tail, head, piece
<1>7. /\ DOMAIN rows = (DOMAIN s.edge \ {e}) \cup {e1, e2} /\ rows[e1] = head /\ rows[e2] = tail
      /\ \A x \in DOMAIN s.edge \ {e} : rows[x] = s.edge[x]
  BY <1>1 DEF WithRow, WithoutRows
<1> HIDE DEF rows
<1>8. \A x \in DOMAIN rows :
        /\ relinked(x).start_node = rows[x].start_node
        /\ relinked(x).end_node = rows[x].end_node
        /\ rows[x].next_right \notin {e, -e} => relinked(x).next_right = rows[x].next_right
        /\ relinked(x).next_left = IF rows[x].next_left = e /\ rows[x].end_node = old.start_node
                                   THEN e1
                                   ELSE IF rows[x].next_left = -e /\ rows[x].end_node = old.end_node
                                   THEN -e2 ELSE rows[x].next_left
  BY <1>1, <1>6, <1>7 DEF EdgeRow
<1> HIDE DEF relinked
<1>9. /\ DOMAIN t.edge = (DOMAIN s.edge \ {e}) \cup {e1, e2}
      /\ \A x \in DOMAIN t.edge : t.edge[x] = relinked(x)
  BY <1>3, <1>7
<1>10. /\ t.line[e1] = HeadUpTo(s.line[e], p) /\ t.line[e2] = TailFrom(s.line[e], p)
       /\ \A x \in DOMAIN s.edge \ {e} : t.line[x] = s.line[x]
  BY <1>1, <1>3 DEF WithRow, WithoutRows
<1>11. /\ t.point[n] = p
       /\ \A m \in DOMAIN s.node : t.point[m] = s.point[m]
  BY <1>1, <1>3 DEF WithRow
<1>12. /\ t.edge[e1].start_node = s.edge[e].start_node /\ t.edge[e1].end_node = n
       /\ t.edge[e2].start_node = n /\ t.edge[e2].end_node = s.edge[e].end_node
       /\ \A x \in DOMAIN s.edge \ {e} : /\ t.edge[x].start_node = s.edge[x].start_node
                                         /\ t.edge[x].end_node = s.edge[x].end_node
  BY <1>1, <1>6, <1>7, <1>8, <1>9
<1>13. DrawsSplit(t, s, e, p, n, e1, e2)
  BY <1>1, <1>3, <1>9, <1>10, <1>11, <1>12 DEF DrawsSplit
<1>14. Flat(t)
  BY NewEdgesSplitFlat DEF t
\* A link to an end of the old edge is one from a dart that ends there.
<1>15. ASSUME NEW c \in DartsOf(s)
       PROVE  /\ Next(s, c) = e => Target(s, c) = old.start_node
              /\ Next(s, c) = -e => Target(s, c) = old.end_node
  <2>1. Origin(s, Next(s, c)) = Target(s, c)
    BY <1>1, NextStartsThere DEF DartsAt
  <2>2. Origin(s, e) = old.start_node /\ Origin(s, -e) = old.end_node
    BY <1>2 DEF Origin
  <2> QED BY <2>1, <2>2
<1> HIDE DEF old
<1>16. ASSUME NEW c \in DartsOf(s), c \notin {e, -e}
       PROVE  Next(t, c) = piece(Next(s, c))
  <2>1. c \in Int /\ c # 0 /\ EdgeOf(c) \in DOMAIN s.edge /\ -(-c) = c
    BY <1>1, DartIsSigned
  <2>2. CASE c > 0
    <3>1. c \in DOMAIN s.edge \ {e} /\ -c < 0
      BY <1>16, <2>1, <2>2 DEF EdgeOf
    <3>2. Next(s, c) = s.edge[c].next_left /\ Target(s, c) = s.edge[c].end_node
      BY <2>1, <2>2, <3>1 DEF Next, Target, Origin
    <3>3. Next(t, c) = relinked(c).next_left
      BY <1>9, <2>2, <3>1 DEF Next
    <3>4. relinked(c).next_left =
            IF s.edge[c].next_left = e /\ s.edge[c].end_node = old.start_node THEN e1
            ELSE IF s.edge[c].next_left = -e /\ s.edge[c].end_node = old.end_node THEN -e2
            ELSE s.edge[c].next_left
      BY <1>7, <1>8, <3>1
    <3> QED BY <1>4, <1>5, <1>15, <3>2, <3>3, <3>4
  <2>3. CASE ~ (c > 0)
    <3>1. -c \in DOMAIN s.edge \ {e} /\ -c > 0
      BY <1>2, <1>16, <2>1, <2>3 DEF EdgeOf
    <3>2. Next(s, c) = s.edge[-c].next_right
      BY <2>1, <2>3, <3>1 DEF Next
    <3>3. Next(t, c) = relinked(-c).next_right
      BY <1>9, <2>3, <3>1 DEF Next
    <3>4. s.edge[-c].next_right \notin {e, -e}
      BY <3>1
    <3>5. Next(t, c) = s.edge[-c].next_right
      BY <1>7, <1>8, <3>1, <3>3, <3>4
    <3> QED BY <1>5, <3>2, <3>4, <3>5
  <2> QED BY <2>2, <2>3
<1>17. /\ Next(t, e2) = piece(Next(s, e)) /\ Next(t, -e1) = piece(Next(s, -e))
       /\ Next(t, e1) = e2 /\ Next(t, -e2) = -e1
  <2>1. /\ ~ (-e2 > 0) /\ e2 > 0 /\ -(-e2) = e2 /\ e > 0 /\ ~ (-e > 0) /\ -(-e) = e
        /\ ~ (-e1 > 0) /\ e1 > 0 /\ -(-e1) = e1
    BY <1>2
  <2>2. /\ Next(t, e1) = relinked(e1).next_left /\ Next(t, -e1) = relinked(e1).next_right
        /\ Next(t, e2) = relinked(e2).next_left /\ Next(t, -e2) = relinked(e2).next_right
    BY <1>9, <2>1 DEF Next
  <2>3. Next(s, e) = old.next_left /\ Next(s, -e) = old.next_right
    BY <2>1 DEF Next, old
  <2>4. e1 \in DOMAIN rows /\ e2 \in DOMAIN rows /\ rows[e1] = head /\ rows[e2] = tail
    BY <1>7
  <2>5. relinked(e1).next_left = e2 /\ relinked(e2).next_right = -e1
    BY <1>4, <1>6, <1>8, <2>4
  <2>6. piece(old.next_right) \notin {e, -e} /\ piece(old.next_left) \notin {e, -e}
    BY <1>1, <1>4, <1>5
  <2>7. relinked(e1).next_right = piece(old.next_right)
    BY <1>6, <1>8, <2>4, <2>6
  <2>8. relinked(e2).next_left = piece(old.next_left)
    BY <1>6, <1>8, <2>4, <2>6
  <2> QED BY <2>2, <2>3, <2>5, <2>7, <2>8
<1>18. LinksSplit(s, t, e, e1, e2)
  <2>1. ASSUME NEW d \in DartsOf(s)
        PROVE  Next(t, -piece(d)) = piece(Next(s, -d))
    <3>1. d \in Int /\ -d \in DartsOf(s) /\ -(-e2) = e2 /\ -(-e) = e
      BY <1>1, <1>2, DartIsSigned
    <3>2. CASE d = -e
      BY <1>5, <1>17, <3>1, <3>2
    <3>3. CASE d = e
      BY <1>4, <1>5, <1>17, <3>1, <3>3
    <3>4. CASE d \notin {e, -e}
      <4>1. -d \notin {e, -e}
        BY <1>2, <3>1, <3>4
      <4> QED BY <1>5, <1>16, <3>1, <3>4, <4>1
    <3> QED BY <3>2, <3>3, <3>4
  <2> QED BY <1>17, <2>1 DEF LinksSplit, piece
<1>19. Turning(t)
  BY <1>1, <1>13, <1>14, <1>18, SplitTurns DEF t
<1> QED BY <1>19 DEF t

-----------------------------------------------------------------------------
(* Healing two edges: first, then last, are one edge from now on.          *)

LEMMA LeavingBack ==
  ASSUME NEW s, Typed(s), Flat(s), NEW d \in DartsOf(s)
  PROVE  LET p == Path(s, d)
         IN  Leaving(s, -d) = Direction(p[Len(p)], p[Len(p) - 1])
<1> DEFINE p == Path(s, d)
           r == Path(s, -d)
           g == s.line[EdgeOf(d)]
<1>1. /\ d \in Int /\ d # 0 /\ -d \in DartsOf(s) /\ EdgeOf(-d) = EdgeOf(d)
      /\ EdgeOf(d) \in DOMAIN s.edge
  BY DartIsSigned
<1>2. g \in Line /\ Len(g) \in Nat /\ Len(g) >= 2
  BY <1>1, LineVertices DEF Flat, EdgeDrawn
<1>3. Leaving(s, -d) = Direction(r[1], r[2])
  BY DEF Leaving
<1>4. CASE d > 0
  <2>1. -d < 0 /\ p = g
    BY <1>1, <1>4 DEF Path, EdgeOf
  <2>2. r[1] = g[Len(g)] /\ r[2] = g[Len(g) - 1]
    BY <1>1, <2>1, FirstSegment
  <2> HIDE DEF p, r, g
  <2> QED BY <1>3, <2>1, <2>2 DEF p
<1>5. CASE d < 0
  <2>1. -d > 0 /\ p = Reverse(g)
    BY <1>1, <1>5 DEF Path, EdgeOf
  <2>2. r[1] = g[1] /\ r[2] = g[2]
    BY <1>1, <2>1, FirstSegment
  <2>3. Len(p) = Len(g) /\ \A i \in 1 .. Len(g) : p[i] = g[Len(g) - i + 1]
    BY <1>2, <2>1, ReversedLine
  <2> HIDE DEF p, r, g
  <2>4. /\ Len(g) \in 1 .. Len(g) /\ Len(g) - 1 \in 1 .. Len(g)
        /\ Len(g) - Len(g) + 1 = 1 /\ Len(g) - (Len(g) - 1) + 1 = 2
    BY <1>2
  <2>5. p[Len(g)] = g[Len(g) - Len(g) + 1] /\ p[Len(g) - 1] = g[Len(g) - (Len(g) - 1) + 1]
    BY <2>3, <2>4
  <2>6. p[Len(p)] = g[1] /\ p[Len(p) - 1] = g[2]
    BY <2>3, <2>4, <2>5
  <2> QED BY <1>3, <2>2, <2>6 DEF p
<1> QED BY <1>1, <1>4, <1>5

\* The name of an end of the two edges in the healed one.
HealedOf(first, last, into, d) ==
  IF d = first THEN into ELSE IF d = -last THEN -into ELSE d

\* What s becomes, as far as it is drawn, and where the links point.
DrawsHealed(t, s, first, last, into) ==
  LET pair == {EdgeOf(first), EdgeOf(last)}
      m    == Target(s, first)
  IN  /\ DOMAIN t.node = DOMAIN s.node \ {m}
      /\ DOMAIN t.edge = (DOMAIN s.edge \ pair) \cup {into}
      /\ t.line[into] = Joined(Path(s, first), Path(s, last))
      /\ t.edge[into].start_node = Origin(s, first) /\ t.edge[into].end_node = Target(s, last)
      /\ \A x \in DOMAIN s.edge \ pair : /\ t.line[x] = s.line[x]
                                         /\ t.edge[x].start_node = s.edge[x].start_node
                                         /\ t.edge[x].end_node = s.edge[x].end_node

LinksHealed(s, t, first, last, into) ==
  LET now(d) == HealedOf(first, last, into, d)
  IN  /\ Next(t, into) = now(Next(s, last)) /\ Next(t, -into) = now(Next(s, -first))
      /\ \A d \in DartsOf(s) : EdgeOf(d) \notin {EdgeOf(first), EdgeOf(last)} =>
                                 Next(t, d) = now(Next(s, d))

\* The two edges are open, meet at a node, and no other edge is there.
Continues(s, first, last) ==
  /\ first \in DartsOf(s) /\ last \in DartsOf(s) /\ EdgeOf(first) # EdgeOf(last)
  /\ Target(s, first) = Origin(s, last)
  /\ Origin(s, first) # Target(s, first) /\ Origin(s, last) # Target(s, last)
  /\ Incident(s, Target(s, first)) \subseteq {EdgeOf(first), EdgeOf(last)}

LEMMA HealTurns ==
  ASSUME NEW s, Typed(s), Flat(s), Turning(s), NEW first, NEW last, Continues(s, first, last),
         NEW into \in Nat \ {0}, into \notin DOMAIN s.edge \ {EdgeOf(first), EdgeOf(last)},
         NEW t, Typed(t), Flat(t), DrawsHealed(t, s, first, last, into),
         LinksHealed(s, t, first, last, into)
  PROVE  Turning(t)
<1> DEFINE m == Target(s, first)
           e1 == EdgeOf(first)
           e2 == EdgeOf(last)
           g == Path(s, first)
           h == Path(s, last)
           j == t.line[into]
           now(d) == HealedOf(first, last, into, d)
<1>1. /\ first \in DartsOf(s) /\ last \in DartsOf(s) /\ e1 # e2 /\ Origin(s, last) = m
      /\ Origin(s, first) # m /\ Target(s, last) # m /\ Incident(s, m) \subseteq {e1, e2}
      /\ into \notin DOMAIN s.edge \ {e1, e2}
  BY DEF Continues
<1>2. /\ DOMAIN t.node = DOMAIN s.node \ {m} /\ DOMAIN t.edge = (DOMAIN s.edge \ {e1, e2}) \cup {into}
      /\ j = Joined(g, h)
      /\ t.edge[into].start_node = Origin(s, first) /\ t.edge[into].end_node = Target(s, last)
      /\ \A x \in DOMAIN s.edge \ {e1, e2} : /\ t.line[x] = s.line[x]
                                             /\ t.edge[x].start_node = s.edge[x].start_node
                                             /\ t.edge[x].end_node = s.edge[x].end_node
  BY DEF DrawsHealed
<1>3. /\ first \in Int /\ first \in {e1, -e1} /\ e1 \in DOMAIN s.edge /\ -first \in DartsOf(s)
      /\ last \in Int /\ last \in {e2, -e2} /\ e2 \in DOMAIN s.edge /\ -last \in DartsOf(s)
      /\ EdgeOf(-first) = e1 /\ EdgeOf(-last) = e2 /\ -(-first) = first /\ -(-last) = last
      /\ Origin(s, -first) = m /\ Origin(s, -last) = Target(s, last)
  BY <1>1, DartIsSigned
<1>4. DOMAIN s.edge \subseteq Nat \ {0}
  <2>1. DOMAIN s.edge \subseteq EdgeIds
    BY DEF Typed, IsTopology
  <2> QED BY <2>1, IdentifiersArePositive
<1> HIDE DEF m, e1, e2
\* The healed edge leaves its ends as the two did.
<1>5. Leaving(t, into) = Leaving(s, first) /\ Leaving(t, -into) = Leaving(s, -last)
  <2>1. /\ g \in Line /\ h \in Line /\ EndPoint(g) = StartPoint(h)
    <3>1. /\ g \in Line /\ h \in Line
          /\ EndPoint(g) = s.point[Target(s, first)] /\ StartPoint(h) = s.point[Origin(s, last)]
      BY <1>1, DartDrawn
    <3> QED BY <1>1, <3>1 DEF m
  <2>2. /\ Leaving(s, first) = Direction(g[1], g[2])
        /\ Leaving(s, -last) = Direction(h[Len(h)], h[Len(h) - 1])
    BY <1>1, LeavingBack DEF Leaving
  <2>3. /\ Leaving(t, into) = Direction(j[1], j[2])
        /\ Leaving(t, -into) = Direction(j[Len(j)], j[Len(j) - 1])
    BY <1>2, LeavingEdge
  <2> HIDE DEF g, h, j
  <2>4. /\ Len(j) = Len(g) + Len(h) - 1
        /\ \A i \in 1 .. Len(g) : j[i] = g[i]
        /\ \A i \in 1 .. Len(h) : j[Len(g) + i - 1] = h[i]
    BY <1>2, <2>1, JoinedLine
  <2>5. Len(g) \in Nat /\ Len(g) >= 2 /\ Len(h) \in Nat /\ Len(h) >= 2
    BY <2>1, LineVertices
  <2>6. /\ 1 \in 1 .. Len(g) /\ 2 \in 1 .. Len(g) /\ Len(h) \in 1 .. Len(h)
        /\ Len(h) - 1 \in 1 .. Len(h) /\ Len(j) = Len(g) + Len(h) - 1
        /\ Len(j) - 1 = Len(g) + (Len(h) - 1) - 1
    BY <2>4, <2>5
  <2>7. j[1] = g[1] /\ j[2] = g[2] /\ j[Len(j)] = h[Len(h)] /\ j[Len(j) - 1] = h[Len(h) - 1]
    BY <2>4, <2>6
  <2> QED BY <2>2, <2>3, <2>7
<1> HIDE DEF g, h, j
<1>6. /\ Origin(t, into) = Origin(s, first) /\ Origin(t, -into) = Origin(s, -last)
      /\ into \in DartsOf(t) /\ -into \in DartsOf(t) /\ into # -into /\ -(-into) = into
  BY <1>2, <1>3 DEF Origin, DartsOf
\* A dart of another edge.
<1>7. ASSUME NEW d \in DartsOf(s), EdgeOf(d) \notin {e1, e2}
      PROVE  /\ d \in DartsOf(t) /\ d \notin {into, -into, first, -first, last, -last}
             /\ Origin(t, d) = Origin(s, d) /\ Leaving(t, d) = Leaving(s, d)
             /\ now(d) = d
  <2>1. /\ d \in Int /\ d # 0 /\ EdgeOf(d) \in DOMAIN s.edge \ {e1, e2} /\ d \in {EdgeOf(d), -EdgeOf(d)}
    BY <1>7, DartIsSigned
  <2>2. d \in DartsOf(t)
    BY <1>2, <2>1 DEF DartsOf
  <2>3. EdgeOf(first) = e1 /\ EdgeOf(-first) = e1 /\ EdgeOf(last) = e2 /\ EdgeOf(-last) = e2
        /\ EdgeOf(into) = into /\ EdgeOf(-into) = into
    <3>1. EdgeOf(first) = e1 /\ EdgeOf(last) = e2
      BY DEF e1, e2
    <3>2. EdgeOf(into) = into /\ EdgeOf(-into) = into
      BY DEF EdgeOf
    <3> QED BY <1>3, <3>1, <3>2
  <2>4. d \notin {into, -into, first, -first, last, -last}
    BY <1>1, <2>1, <2>3
  <2>5. d > 0 => d \in DOMAIN s.edge \ {e1, e2}
    BY <2>1 DEF EdgeOf
  <2>6. ~ (d > 0) => -d \in DOMAIN s.edge \ {e1, e2}
    BY <2>1 DEF EdgeOf
  <2>7. Path(t, d) = Path(s, d)
    BY <1>2, <2>5, <2>6 DEF Path
  <2>8. Origin(t, d) = Origin(s, d)
    BY <1>2, <2>5, <2>6 DEF Origin
  <2>9. now(d) = d
    BY <2>4 DEF HealedOf
  <2> QED BY <2>2, <2>4, <2>7, <2>8, <2>9 DEF Leaving
\* What is at a node other than the one that goes.
<1>8. ASSUME NEW d \in DartsOf(s), Origin(s, d) # m
      PROVE  d \in {first, -last} \/ EdgeOf(d) \notin {e1, e2}
  <2>1. d \in {EdgeOf(d), -EdgeOf(d)}
    BY DartIsSigned
  <2>2. -(-e1) = e1 /\ -(-e2) = e2
    BY <1>3, <1>4
  <2>3. EdgeOf(d) = e1 => d \in {first, -first}
    BY <1>3, <2>1, <2>2
  <2>4. EdgeOf(d) = e2 => d \in {last, -last}
    BY <1>3, <2>1, <2>2
  <2> QED BY <1>1, <1>3, <1>8, <2>3, <2>4
<1>9. now(first) = into /\ now(-last) = -into /\ first # -last
  <2>1. first # -last
    BY <1>1, <1>3, <1>4
  <2> QED BY <2>1 DEF HealedOf
<1>10. ASSUME NEW d \in DartsOf(s), Origin(s, d) # m
       PROVE  /\ now(d) \in DartsOf(t) /\ Origin(t, now(d)) = Origin(s, d)
              /\ Turn(Leaving(s, d), Leaving(t, now(d))) = 0
              /\ Next(t, -now(d)) = now(Next(s, -d))
  <2>1. Turn(Leaving(s, d), Leaving(s, d)) = 0
    BY FirstSegment, TurnToSelf
  <2>2. CASE d = first
    <3>1. Next(t, -into) = now(Next(s, -first))
      BY DEF LinksHealed
    <3> HIDE DEF now
    <3> QED BY <1>5, <1>6, <1>9, <2>1, <2>2, <3>1
  <2>3. CASE d = -last
    <3>1. Next(t, into) = now(Next(s, last))
      BY DEF LinksHealed
    <3> HIDE DEF now
    <3> QED BY <1>3, <1>5, <1>6, <1>9, <2>1, <2>3, <3>1
  <2>4. CASE EdgeOf(d) \notin {e1, e2}
    <3>1. -d \in DartsOf(s) /\ EdgeOf(-d) = EdgeOf(d)
      BY DartIsSigned
    <3>2. Next(t, -d) = now(Next(s, -d))
      BY <2>4, <3>1 DEF LinksHealed, e1, e2
    <3> HIDE DEF now
    <3> QED BY <1>7, <2>1, <2>4, <3>2
  <2> QED BY <1>8, <1>10, <2>2, <2>3, <2>4
<1>11. ASSUME NEW c \in DartsOf(s), NEW d \in DartsOf(s), Origin(s, c) # m, Origin(s, d) # m, c # d
       PROVE  now(c) # now(d)
  <2> HIDE DEF now
  <2>1. /\ c = first \/ c = -last \/ (now(c) = c /\ c \notin {into, -into})
        /\ d = first \/ d = -last \/ (now(d) = d /\ d \notin {into, -into})
    BY <1>7, <1>8, <1>11
  <2> QED BY <1>6, <1>9, <1>11, <2>1
<1>12. ASSUME NEW y \in DartsOf(t)
       PROVE  \E d \in DartsOf(s) : Origin(s, d) # m /\ now(d) = y
  <2>1. EdgeOf(y) \in DOMAIN t.edge /\ y \in {EdgeOf(y), -EdgeOf(y)}
    BY DartIsSigned
  <2> HIDE DEF now
  <2>2. CASE EdgeOf(y) = into
    BY <1>1, <1>3, <1>9, <2>1, <2>2
  <2>3. CASE EdgeOf(y) # into
    <3>1. y \in DartsOf(s) /\ EdgeOf(y) \notin {e1, e2}
      BY <1>2, <2>1, <2>3 DEF DartsOf
    <3>2. Origin(s, y) # m
      <4>1. ASSUME Origin(s, y) = m PROVE EdgeOf(y) \in Incident(s, m)
        <5>1. y > 0 => EdgeOf(y) = y /\ s.edge[y].start_node = m
          BY <4>1 DEF Origin, EdgeOf
        <5>2. ~ (y > 0) => EdgeOf(y) = -y /\ s.edge[-y].end_node = m
          BY <4>1 DEF Origin, EdgeOf
        <5>3. EdgeOf(y) \in DOMAIN s.edge
          BY <3>1, DartIsSigned
        <5> QED BY <5>1, <5>2, <5>3 DEF Incident
      <4> QED BY <1>1, <3>1, <4>1
    <3> QED BY <1>7, <3>1, <3>2
  <2> QED BY <2>2, <2>3
<1> SUFFICES ASSUME NEW k \in DOMAIN t.node
             PROVE  Rotation(Star(t, k), Links(t, k))
  BY DEF Turning
<1> DEFINE f == [d \in DartsOf(s) |-> now(d)]
<1>13. \A d \in DartsOf(s) : f[d] = now(d)
  OBVIOUS
<1> HIDE DEF f, now
<1>14. k \in DOMAIN s.node /\ k # m
  BY <1>2
<1>15. \A x \in DartsAt(s, k) : x \in DartsOf(s) /\ Origin(s, x) = k /\ Origin(s, x) # m
  BY <1>14 DEF DartsAt
<1>16. \A x \in DartsAt(s, k) : f[x] \in DartsAt(t, k)
  BY <1>10, <1>13, <1>15 DEF DartsAt
<1>17. \A x, y \in DartsAt(s, k) : x # y => f[x] # f[y]
  BY <1>11, <1>13, <1>15
<1>18. ASSUME NEW y \in DartsAt(t, k)
       PROVE  \E x \in DartsAt(s, k) : f[x] = y
  <2>1. y \in DartsOf(t) /\ Origin(t, y) = k
    BY DEF DartsAt
  <2>2. PICK d \in DartsOf(s) : Origin(s, d) # m /\ now(d) = y
    BY <1>12, <2>1
  <2>3. Origin(s, d) = k
    BY <1>10, <2>1, <2>2
  <2> QED BY <1>13, <2>2, <2>3 DEF DartsAt
<1>19. ASSUME NEW x \in DartsAt(s, k)
       PROVE  /\ Turn(Leaving(s, x), Leaving(t, f[x])) = 0
              /\ Next(t, -f[x]) = f[Next(s, -x)]
  <2>1. x \in DartsOf(s) /\ -x \in DartsOf(s) /\ Origin(s, x) # m
    BY <1>15, DartIsSigned
  <2>2. Next(s, -x) \in DartsOf(s)
    BY <2>1, NextStartsThere
  <2> QED BY <1>10, <1>13, <2>1, <2>2
<1> QED BY <1>14, <1>16, <1>17, <1>18, <1>19, RenamedAround

\* What HealEdges writes for a link d.
Renamed(m, into, d) ==
  LET back == IF m.arrive > 0 THEN -into ELSE into
  IN  IF d = -m.leave THEN back ELSE IF d = m.arrive THEN -back ELSE d

\* The healed edge runs along first to the common node and on along last,
\* which are the two edges in the one order or the other.
LEMMA HealingContinues ==
  ASSUME NEW s, Typed(s), NEW e1, NEW e2, CanHealEdges(s, e1, e2), NEW m \in Meeting(s, e1, e2),
         NEW into \in Nat \ {0}
  PROVE  LET row == HealedRow(s, e1, m)
         IN  \E first, last \in DartsOf(s) :
               /\ Continues(s, first, last) /\ {EdgeOf(first), EdgeOf(last)} = {e1, e2}
               /\ Target(s, m.arrive) = Target(s, first)
               /\ HealedLine(s, m) = Joined(Path(s, first), Path(s, last))
               /\ row.start_node = Origin(s, first) /\ row.end_node = Target(s, last)
               /\ row.next_left = Next(s, last) /\ row.next_right = Next(s, -first)
               /\ \A d : Renamed(m, into, d) = HealedOf(first, last, into, d)
<1> DEFINE first == IF m.arrive > 0 THEN m.arrive ELSE -m.leave
           last  == IF m.arrive > 0 THEN m.leave ELSE -m.arrive
           row   == HealedRow(s, e1, m)
<1>1. /\ e1 \in DOMAIN s.edge /\ e2 \in DOMAIN s.edge /\ s.edge[e1] \in EdgeRow /\ e1 # e2
      /\ e1 \in Nat \ {0} /\ e2 \in Nat \ {0}
      /\ s.edge[e1].start_node # s.edge[e1].end_node
      /\ s.edge[e2].start_node # s.edge[e2].end_node
  BY IdentifiersArePositive DEF CanHealEdges, Typed, IsTopology
<1>2. /\ m.arrive \in {e1, -e1} /\ m.leave \in {e2, -e2}
      /\ Origin(s, m.leave) = Target(s, m.arrive)
      /\ Incident(s, Target(s, m.arrive)) \subseteq {e1, e2}
  BY MeetingTyped
<1>3. \A d \in {e1, -e1, e2, -e2} : /\ d \in DartsOf(s) /\ d \in Int /\ -(-d) = d
                                    /\ Origin(s, d) # Target(s, d)
  BY <1>1 DEF DartsOf, Origin, Target
<1>4. /\ first \in {e1, -e1, e2, -e2} /\ last \in {e1, -e1, e2, -e2}
      /\ {EdgeOf(first), EdgeOf(last)} = {e1, e2}
  BY <1>1, <1>2 DEF EdgeOf
<1>5. Target(s, first) = Target(s, m.arrive) /\ Origin(s, last) = Target(s, m.arrive)
  <2>1. CASE m.arrive > 0
    BY <1>2, <2>1
  <2>2. CASE ~ m.arrive > 0
    <3>1. first = -m.leave /\ last = -m.arrive /\ -first = m.leave
      BY <1>2, <1>3, <2>2
    <3> QED BY <1>2, <3>1 DEF Target
  <2> QED BY <2>1, <2>2
<1>6. HealedLine(s, m) = Joined(Path(s, first), Path(s, last))
  BY DEF HealedLine
<1>7. /\ row.start_node = Origin(s, first) /\ row.end_node = Target(s, last)
      /\ row.next_left = Next(s, last) /\ row.next_right = Next(s, -first)
  <2>1. row = [s.edge[e1] EXCEPT !.start_node = Origin(s, first), !.end_node = Target(s, last),
                                 !.next_left = Next(s, last), !.next_right = Next(s, -first)]
    BY DEF HealedRow
  <2> HIDE DEF first, last, row
  <2> QED BY <1>1, <2>1 DEF EdgeRow
<1>8. ASSUME NEW d
      PROVE  Renamed(m, into, d) = HealedOf(first, last, into, d)
  <2>1. CASE m.arrive > 0
    <3>1. m.arrive # -m.leave /\ -(-into) = into
      BY <1>1, <1>2
    <3>2. Renamed(m, into, d) = IF d = -m.leave THEN -into ELSE IF d = m.arrive THEN into ELSE d
      BY <2>1, <3>1 DEF Renamed
    <3>3. first = m.arrive /\ last = m.leave
      BY <2>1
    <3> HIDE DEF first, last
    <3> QED BY <3>1, <3>2, <3>3 DEF HealedOf
  <2>2. CASE ~ (m.arrive > 0)
    <3>1. first = -m.leave /\ -last = m.arrive
      BY <1>2, <1>3, <2>2
    <3>2. Renamed(m, into, d) = IF d = -m.leave THEN into ELSE IF d = m.arrive THEN -into ELSE d
      BY <2>2 DEF Renamed
    <3> HIDE DEF first, last
    <3> QED BY <3>1, <3>2 DEF HealedOf
  <2> QED BY <2>1, <2>2
<1> HIDE DEF row
<1>9. /\ first \in DartsOf(s) /\ last \in DartsOf(s)
      /\ Origin(s, first) # Target(s, first) /\ Origin(s, last) # Target(s, last)
  <2> HIDE DEF first, last
  <2> QED BY <1>3, <1>4
<1> HIDE DEF first, last
<1>10. EdgeOf(first) # EdgeOf(last)
  BY <1>1, <1>4
<1>11. Continues(s, first, last)
  BY <1>2, <1>4, <1>5, <1>9, <1>10 DEF Continues
<1> QED BY <1>4, <1>5, <1>6, <1>7, <1>8, <1>9, <1>11 DEF row

LEMMA HealEdgesTurns ==
  ASSUME NEW s, Sound(s), Flat(s), Turning(s), NEW e1, NEW e2, CanHealEdges(s, e1, e2),
         NEW m \in Meeting(s, e1, e2),
         NEW into \in EdgeIds, into = e1 \/ into \notin DOMAIN s.edge,
         Typed(HealEdges(s, e1, e2, m, into))
  PROVE  Turning(HealEdges(s, e1, e2, m, into))
<1> DEFINE back   == IF m.arrive > 0 THEN -into ELSE into
           rename(d) == IF d = -m.leave THEN back ELSE IF d = m.arrive THEN -back ELSE d
           row    == HealedRow(s, e1, m)
           rows   == WithRow(s.edge, into, row)
           linked == [x \in DOMAIN rows |->
                        [rows[x] EXCEPT !.next_left = rename(@), !.next_right = rename(@)]]
           gone   == {e1, e2} \ {into}
           common == Target(s, m.arrive)
           t == HealEdges(s, e1, e2, m, into)
<1>1. /\ e1 \in DOMAIN s.edge /\ e2 \in DOMAIN s.edge /\ e1 # e2 /\ e2 # into
      /\ DOMAIN s.line = DOMAIN s.edge /\ DOMAIN s.point = DOMAIN s.node
      /\ \A x \in DOMAIN s.edge : s.edge[x] \in EdgeRow
      /\ Typed(s)
  BY DEF CanHealEdges, Sound, Typed, IsTopology
<1>2. into \in Nat \ {0}
  BY IdentifiersArePositive
<1>3. PICK first \in DartsOf(s), last \in DartsOf(s) :
        /\ Continues(s, first, last) /\ {EdgeOf(first), EdgeOf(last)} = {e1, e2}
        /\ common = Target(s, first)
        /\ HealedLine(s, m) = Joined(Path(s, first), Path(s, last))
        /\ row.start_node = Origin(s, first) /\ row.end_node = Target(s, last)
        /\ row.next_left = Next(s, last) /\ row.next_right = Next(s, -first)
        /\ \A d : Renamed(m, into, d) = HealedOf(first, last, into, d)
  BY <1>1, <1>2, HealingContinues
<1>r. \A d : rename(d) = Renamed(m, into, d)
  BY DEF Renamed
<1>4. row \in EdgeRow
  BY HealedRowTyped DEF Sound
<1>5. /\ t.edge = WithoutRows(linked, gone)
      /\ t.line = WithoutRows(WithRow(s.line, into, HealedLine(s, m)), gone)
      /\ DOMAIN t.node = DOMAIN s.node \ {common}
  <2> DEFINE changed == [s EXCEPT !.edge = linked, !.line = WithRow(@, into, HealedLine(s, m)),
                                  !.lineal = IF e2 \in @ THEN (@ \ gone) \cup {into} ELSE @]
  <2>1. t = WithoutNode(WithoutEdges(changed, gone), common)
    BY DEF HealEdges
  <2>2. DOMAIN s = {"node", "point", "edge", "line", "mbr", "areal", "lineal"}
    BY DEF Sound, Typed, Tables
  <2> HIDE DEF t, row, rename, back, common, linked, rows, gone
  <2>3. /\ DOMAIN changed = DOMAIN s /\ changed.edge = linked
        /\ changed.line = WithRow(s.line, into, HealedLine(s, m)) /\ changed.node = s.node
    BY <2>2
  <2> HIDE DEF changed
  <2>4. /\ t.edge = WithoutRows(changed.edge, gone) /\ t.line = WithoutRows(changed.line, gone)
        /\ t.node = WithoutRows(changed.node, {common})
    BY <2>1, <2>2, <2>3 DEF WithoutNode, WithoutEdges
  <2> QED BY <2>3, <2>4 DEF WithoutRows
<1> HIDE DEF t, row, rename, common
<1>6. /\ DOMAIN rows = DOMAIN s.edge \cup {into} /\ rows[into] = row
      /\ \A x \in DOMAIN s.edge \ {into} : rows[x] = s.edge[x]
      /\ \A x \in DOMAIN rows : rows[x] \in EdgeRow
  BY <1>1, <1>4 DEF WithRow
<1> HIDE DEF rows
<1>7. /\ DOMAIN linked = DOMAIN s.edge \cup {into}
      /\ \A x \in DOMAIN linked : /\ linked[x].start_node = rows[x].start_node
                                  /\ linked[x].end_node = rows[x].end_node
                                  /\ linked[x].next_left = rename(rows[x].next_left)
                                  /\ linked[x].next_right = rename(rows[x].next_right)
  BY <1>6 DEF EdgeRow
<1> HIDE DEF linked
<1>8. /\ DOMAIN t.edge = (DOMAIN s.edge \ {e1, e2}) \cup {into}
      /\ \A x \in DOMAIN t.edge : t.edge[x] = linked[x]
      /\ \A x \in DOMAIN s.edge \ {e1, e2} : x # into /\ rows[x] = s.edge[x]
  BY <1>1, <1>5, <1>6, <1>7 DEF WithoutRows
<1>9. /\ t.line[into] = HealedLine(s, m)
      /\ \A x \in DOMAIN s.edge \ {e1, e2} : t.line[x] = s.line[x]
  BY <1>1, <1>5, <1>8 DEF WithoutRows, WithRow
<1>10. DrawsHealed(t, s, first, last, into)
  <2>1. /\ t.edge[into].start_node = row.start_node /\ t.edge[into].end_node = row.end_node
        /\ \A x \in DOMAIN s.edge \ {e1, e2} : /\ t.edge[x].start_node = s.edge[x].start_node
                                               /\ t.edge[x].end_node = s.edge[x].end_node
    BY <1>6, <1>7, <1>8
  <2> QED BY <1>3, <1>5, <1>8, <1>9, <2>1 DEF DrawsHealed
<1>11. Next(t, into) = rename(Next(s, last)) /\ Next(t, -into) = rename(Next(s, -first))
  <2>1. into > 0 /\ ~ (-into > 0) /\ -(-into) = into
    BY <1>2
  <2>2. Next(t, into) = t.edge[into].next_left /\ Next(t, -into) = t.edge[into].next_right
    BY <2>1 DEF Next
  <2>3. /\ t.edge[into].next_left = rename(row.next_left)
        /\ t.edge[into].next_right = rename(row.next_right)
    BY <1>6, <1>7, <1>8
  <2> QED BY <1>3, <2>2, <2>3
<1>12. ASSUME NEW d \in DartsOf(s), EdgeOf(d) \notin {e1, e2}
       PROVE  Next(t, d) = rename(Next(s, d))
  <2>1. EdgeOf(d) \in DOMAIN s.edge \ {e1, e2} /\ d \in Int
    BY <1>1, <1>12, DartIsSigned
  <2>2. /\ t.edge[EdgeOf(d)].next_left = rename(s.edge[EdgeOf(d)].next_left)
        /\ t.edge[EdgeOf(d)].next_right = rename(s.edge[EdgeOf(d)].next_right)
    BY <1>6, <1>7, <1>8, <2>1
  <2>3. CASE d > 0
    BY <2>2, <2>3 DEF EdgeOf, Next
  <2>4. CASE ~ (d > 0)
    BY <2>2, <2>4 DEF EdgeOf, Next
  <2> QED BY <2>3, <2>4
<1>13. LinksHealed(s, t, first, last, into)
  BY <1>3, <1>r, <1>11, <1>12 DEF LinksHealed
<1>14. Flat(t)
  BY HealEdgesFlat DEF t
<1>15. into \notin DOMAIN s.edge \ {EdgeOf(first), EdgeOf(last)}
  BY <1>3
<1>16. Turning(t)
  BY <1>1, <1>2, <1>3, <1>10, <1>13, <1>14, <1>15, HealTurns DEF t
<1> QED BY <1>16 DEF t

-----------------------------------------------------------------------------
(* Changing the shape of an edge: its ends may leave their nodes in other  *)
(* directions, but between the same two others.                            *)

\* One of them leaves another way, between those it was between.
LEMMA RotationMovesOne ==
  ASSUME NEW dir, NEW next, Rotation(dir, next), Spread(dir),
         NEW a \in DOMAIN dir, DOMAIN dir # {a},
         NEW to, Spread(to), DOMAIN to = DOMAIN dir,
         \A x \in DOMAIN dir \ {a} : to[x] = dir[x],
         Follows(to, a, next[a]), NEW last \in DOMAIN dir, next[last] = a, Precedes(to, last, a)
  PROVE  Rotation(to, next)
<1> DEFINE few  == [x \in DOMAIN dir \ {a} |-> dir[x]]
           then == [x \in DOMAIN dir \ {a} |-> IF next[x] = a THEN next[a] ELSE next[x]]
<1>1. /\ DOMAIN few = DOMAIN dir \ {a} /\ DOMAIN then = DOMAIN few
      /\ \A x \in DOMAIN few : few[x] = dir[x] /\ few[x] = to[x]
      /\ \A x \in DOMAIN few : then[x] = IF next[x] = a THEN next[a] ELSE next[x]
  OBVIOUS
<1> HIDE DEF few, then
<1>2. Rotation(few, then)
  BY <1>1, RotationShrinks
<1>3. Cyclic(dir) /\ DOMAIN next = DOMAIN dir /\ \A x \in DOMAIN dir : Follows(dir, x, next[x])
  BY SpreadIsCyclic DEF Rotation
<1>4. next[a] \in DOMAIN few /\ last \in DOMAIN few
  BY <1>1, <1>3 DEF Follows
<1>5. \A x \in DOMAIN dir : next[x] = a => x = last
  BY <1>3, FollowedIsOne
<1>6. \A x \in DOMAIN to : next[x] = IF x = a THEN next[a] ELSE IF x = last THEN a ELSE then[x]
  BY <1>1, <1>5
<1>7. /\ a \notin DOMAIN few /\ DOMAIN to = DOMAIN few \cup {a} /\ DOMAIN next = DOMAIN to
      /\ \A x \in DOMAIN few : to[x] = few[x]
  BY <1>1, <1>3
<1> QED BY <1>2, <1>4, <1>6, <1>7, RotationGrows

\* Two of them do.
LEMMA RotationMovesTwo ==
  ASSUME NEW dir, NEW next, Rotation(dir, next), Spread(dir),
         NEW a \in DOMAIN dir, NEW b \in DOMAIN dir, a # b, DOMAIN dir \ {a, b} # {},
         NEW to, Spread(to), DOMAIN to = DOMAIN dir,
         \A x \in DOMAIN dir \ {a, b} : to[x] = dir[x],
         Follows(to, a, next[a]), NEW last \in DOMAIN dir, next[last] = a, Precedes(to, last, a),
         Follows(to, b, next[b]), NEW tail \in DOMAIN dir, next[tail] = b, Precedes(to, tail, b)
  PROVE  Rotation(to, next)
<1> DEFINE few   == [x \in DOMAIN dir \ {a} |-> dir[x]]
           then  == [x \in DOMAIN dir \ {a} |-> IF next[x] = a THEN next[a] ELSE next[x]]
           rest  == [x \in DOMAIN dir \ {a, b} |-> dir[x]]
           links == [x \in DOMAIN dir \ {a, b} |-> IF then[x] = b THEN then[b] ELSE then[x]]
<1>1. /\ DOMAIN few = DOMAIN dir \ {a} /\ DOMAIN then = DOMAIN few
      /\ \A x \in DOMAIN few : few[x] = dir[x]
      /\ \A x \in DOMAIN few : then[x] = IF next[x] = a THEN next[a] ELSE next[x]
  OBVIOUS
<1>2. /\ DOMAIN rest = DOMAIN dir \ {a, b} /\ DOMAIN links = DOMAIN rest
      /\ \A x \in DOMAIN rest : rest[x] = dir[x] /\ rest[x] = to[x]
      /\ \A x \in DOMAIN rest : links[x] = IF then[x] = b THEN then[b] ELSE then[x]
  OBVIOUS
<1> HIDE DEF few, then, rest, links
<1>3. Rotation(few, then)
  BY <1>1, RotationShrinks
<1>4. Spread(few)
  BY <1>1 DEF Spread
<1>5. /\ b \in DOMAIN few /\ DOMAIN rest = DOMAIN few \ {b} /\ \A x \in DOMAIN rest : rest[x] = few[x]
  BY <1>1, <1>2
<1>6. Rotation(rest, links)
  BY <1>2, <1>3, <1>4, <1>5, RotationShrinks
<1>7. Cyclic(dir) /\ DOMAIN next = DOMAIN dir /\ \A x \in DOMAIN dir : Follows(dir, x, next[x])
  BY SpreadIsCyclic DEF Rotation
<1>8. \A x \in DOMAIN dir : (next[x] = a => x = last) /\ (next[x] = b => x = tail)
  BY <1>7, FollowedIsOne
<1>9. ASSUME NEW x \in DOMAIN rest
      PROVE  next[x] = IF x = tail THEN b ELSE IF x = last THEN a ELSE links[x]
  <2>1. x \in DOMAIN few /\ x \in DOMAIN dir
    BY <1>1, <1>2
  <2>2. CASE x \in {tail, last}
    BY <2>2
  <2>3. CASE x \notin {tail, last}
    <3>1. next[x] # a /\ next[x] # b
      BY <1>8, <2>1, <2>3
    <3>2. then[x] = next[x]
      BY <1>1, <2>1, <3>1
    <3> QED BY <1>2, <2>3, <3>1, <3>2
  <2> QED BY <2>2, <2>3
<1>10. PICK c : c \in DOMAIN rest
  BY <1>2
<1>11. /\ a \notin DOMAIN rest /\ b \notin DOMAIN rest /\ DOMAIN to = DOMAIN rest \cup {a, b}
       /\ DOMAIN next = DOMAIN to /\ \A x \in DOMAIN rest : to[x] = rest[x]
  BY <1>2, <1>7
<1> QED BY <1>6, <1>9, <1>10, <1>11, RotationGrowsByTwo

\* t has the rows of s, and another line for edge e.
Reshapes(s, t, e) ==
  /\ e \in DOMAIN s.edge /\ t.edge = s.edge
  /\ \A x \in DOMAIN s.edge \ {e} : t.line[x] = s.line[x]

LEMMA DartsReshaped ==
  ASSUME NEW s, Typed(s), NEW t, NEW e, Reshapes(s, t, e)
  PROVE  /\ e \in Nat \ {0} /\ -(-e) = e /\ -e # e
         /\ e \in DartsOf(s) /\ -e \in DartsOf(s) /\ DartsOf(t) = DartsOf(s)
         /\ \A d : Origin(t, d) = Origin(s, d) /\ Next(t, d) = Next(s, d)
         /\ \A n : DartsAt(t, n) = DartsAt(s, n)
         /\ \A d \in DartsOf(s) : EdgeOf(d) = e <=> d \in {e, -e}
         /\ \A d \in DartsOf(s) \ {e, -e} : Leaving(t, d) = Leaving(s, d)
<1>1. e \in EdgeIds
  BY DEF Typed, IsTopology, Reshapes
<1>2. e \in Nat \ {0}
  BY <1>1, IdentifiersArePositive
<1>3. -(-e) = e /\ -e # e
  BY <1>2
<1>4. /\ e \in DartsOf(s) /\ -e \in DartsOf(s) /\ DartsOf(t) = DartsOf(s)
  BY DEF DartsOf, Reshapes
<1>5. \A d : Origin(t, d) = Origin(s, d) /\ Next(t, d) = Next(s, d)
  BY DEF Origin, Next, Reshapes
<1>6. \A n : DartsAt(t, n) = DartsAt(s, n)
  BY <1>4, <1>5 DEF DartsAt
<1>7. ASSUME NEW d \in DartsOf(s)
      PROVE  /\ EdgeOf(d) = e <=> d \in {e, -e}
             /\ d \notin {e, -e} => Leaving(t, d) = Leaving(s, d)
  <2>1. d \in Int /\ d # 0 /\ EdgeOf(d) \in DOMAIN s.edge /\ d \in {EdgeOf(d), -EdgeOf(d)}
    BY DartIsSigned
  <2>2. EdgeOf(e) = e /\ EdgeOf(-e) = e
    BY <1>2, <1>3 DEF EdgeOf
  <2>3. EdgeOf(d) = e <=> d \in {e, -e}
    BY <2>1, <2>2
  <2>4. d > 0 => EdgeOf(d) = d
    BY DEF EdgeOf
  <2>5. ~ (d > 0) => EdgeOf(d) = -d
    BY DEF EdgeOf
  <2>6. d \notin {e, -e} => Path(t, d) = Path(s, d)
    BY <2>1, <2>3, <2>4, <2>5 DEF Path, Reshapes
  <2> QED BY <2>3, <2>6 DEF Leaving
<1> QED BY <1>2, <1>3, <1>4, <1>5, <1>6, <1>7

\* The other end of a closed edge, as a direction.
OtherEnd(s, n, d) == IF Origin(s, -d) = n THEN {Leaving(s, -d)} ELSE {}

\* What the adjacent ends of an edge end are: its neighbours around the node,
\* 0 for the other end of the edge.
Neighbours(s, n, d) ==
  LET around == DartsAt(s, n) \ {d}
      id(x)  == IF x = -d THEN 0 ELSE x
  IN  {[cw |-> id(a), ccw |-> id(b)] :
         a \in {x \in around : Follows(Star(s, n), d, x)},
         b \in {x \in around : Precedes(Star(s, n), x, d)}}

LEMMA AdjacentEndsOfEdge ==
  ASSUME NEW s, Typed(s), NEW e \in DOMAIN s.edge, NEW d \in {e, -e}, NEW n, Origin(s, d) = n,
         DartsAt(s, n) # {d}, NEW r, NEW u, u = Leaving(s, d), NEW others, others = OtherEnd(s, n, d),
         \A x \in DartsOf(s) \ {e, -e} : Leaving(r, x) = Leaving(s, x), r.edge = s.edge
  PROVE  AdjacentEnds(r, n, u, others, e) = Neighbours(s, n, d)
<1> DEFINE around == DartsAt(s, n) \ {d}
           id(x)  == IF x = -d THEN 0 ELSE x
           near   == {x \in DartsAt(r, n) : EdgeOf(x) # e}
           ends   == {[id |-> x, dir |-> Leaving(r, x)] : x \in near}
                     \cup {[id |-> 0, dir |-> v] : v \in others}
           end(x) == [id |-> id(x), dir |-> Leaving(s, x)]
<1>1. /\ e \in Nat \ {0} /\ -(-e) = e /\ -e # e
      /\ e \in DartsOf(s) /\ -e \in DartsOf(s)
      /\ \A x \in DartsOf(s) : EdgeOf(x) = e <=> x \in {e, -e}
  <2>1. Reshapes(s, s, e)
    BY DEF Reshapes
  <2> QED BY <2>1, DartsReshaped
<1>2. d \in DartsAt(s, n) /\ -d # d /\ -d \in DartsOf(s) /\ {d, -d} = {e, -e}
  BY <1>1 DEF DartsAt
<1>3. DartsAt(r, n) = DartsAt(s, n)
  BY DEF DartsAt, DartsOf, Origin
<1>4. near = DartsAt(s, n) \ {d, -d}
  BY <1>1, <1>2, <1>3 DEF DartsAt
<1>5. \A x \in near : id(x) = x /\ Leaving(r, x) = Leaving(s, x) /\ x \in around
  BY <1>2, <1>4 DEF DartsAt
<1> HIDE DEF near
<1>6. \A x \in around : end(x) \in ends
  <2> TAKE x \in around
  <2>1. CASE x = -d
    <3>1. Origin(s, -d) = n
      BY <2>1 DEF DartsAt
    <3> QED BY <2>1, <3>1 DEF OtherEnd
  <2>2. CASE x # -d
    BY <1>4, <1>5, <2>2
  <2> QED BY <2>1, <2>2
<1>7. ASSUME NEW y \in ends
      PROVE  \E x \in around : y = end(x)
  <2>1. CASE y \in {[id |-> x, dir |-> Leaving(r, x)] : x \in near}
    BY <1>5, <2>1
  <2>2. CASE y \in {[id |-> 0, dir |-> v] : v \in others}
    <3>1. Origin(s, -d) = n /\ y = end(-d)
      BY <2>2 DEF OtherEnd
    <3>2. -d \in around
      BY <1>2, <3>1 DEF DartsAt
    <3> QED BY <3>1, <3>2
  <2> QED BY <2>1, <2>2
<1>8. ends # {}
  <2>1. around # {}
    BY <1>2
  <2> QED BY <1>6, <2>1
<1>9. AdjacentEnds(r, n, u, others, e) =
        {[cw |-> a.id, ccw |-> b.id] :
           a \in {w \in ends : \A y \in ends : ~ MetBefore(u, y.dir, w.dir)},
           b \in {w \in ends : \A y \in ends : ~ MetBefore(u, w.dir, y.dir)}}
  BY <1>8 DEF AdjacentEnds, near
<1>10. \A x : end(x).id = id(x) /\ end(x).dir = Leaving(s, x)
  OBVIOUS
<1> HIDE DEF ends, end, id
<1>11. ASSUME NEW x \in around
       PROVE  /\ Follows(Star(s, n), d, x)
                   <=> \A y \in ends : ~ MetBefore(u, y.dir, end(x).dir)
              /\ Precedes(Star(s, n), x, d)
                   <=> \A y \in ends : ~ MetBefore(u, end(x).dir, y.dir)
  <2>1. DOMAIN Star(s, n) = DartsAt(s, n) /\ \A y \in DartsAt(s, n) : Star(s, n)[y] = Leaving(s, y)
    BY DEF Star
  <2>2. Follows(Star(s, n), d, x) <=> \A y \in around : ~ MetBefore(u, Leaving(s, y), Leaving(s, x))
    BY <1>2, <2>1 DEF Follows, Met
  <2>3. Precedes(Star(s, n), x, d) <=> \A y \in around : ~ MetBefore(u, Leaving(s, x), Leaving(s, y))
    BY <1>2, <2>1 DEF Precedes, Met
  <2> HIDE DEF around
  <2>4. (\A y \in around : ~ MetBefore(u, Leaving(s, y), Leaving(s, x)))
          <=> \A y \in ends : ~ MetBefore(u, y.dir, end(x).dir)
    BY <1>6, <1>7, <1>10
  <2>5. (\A y \in around : ~ MetBefore(u, Leaving(s, x), Leaving(s, y)))
          <=> \A y \in ends : ~ MetBefore(u, end(x).dir, y.dir)
    BY <1>6, <1>7, <1>10
  <2> QED BY <2>2, <2>3, <2>4, <2>5
<1>12. Neighbours(s, n, d) =
         {[cw |-> id(a), ccw |-> id(b)] :
            a \in {x \in around : Follows(Star(s, n), d, x)},
            b \in {x \in around : Precedes(Star(s, n), x, d)}}
  BY DEF Neighbours, id
<1> HIDE DEF around
<1>13. AdjacentEnds(r, n, u, others, e) \subseteq Neighbours(s, n, d)
  <2> SUFFICES ASSUME NEW a \in {w \in ends : \A y \in ends : ~ MetBefore(u, y.dir, w.dir)},
                      NEW b \in {w \in ends : \A y \in ends : ~ MetBefore(u, w.dir, y.dir)}
               PROVE  [cw |-> a.id, ccw |-> b.id] \in Neighbours(s, n, d)
    BY <1>9
  <2>1. PICK v, x \in around : a = end(v) /\ b = end(x)
    BY <1>7
  <2>2. Follows(Star(s, n), d, v) /\ Precedes(Star(s, n), x, d)
    BY <1>11, <2>1
  <2>3. a.id = id(v) /\ b.id = id(x)
    BY <1>10, <2>1
  <2> QED BY <1>12, <2>1, <2>2, <2>3
<1>14. Neighbours(s, n, d) \subseteq AdjacentEnds(r, n, u, others, e)
  <2> SUFFICES ASSUME NEW v \in {x \in around : Follows(Star(s, n), d, x)},
                      NEW x \in {w \in around : Precedes(Star(s, n), w, d)}
               PROVE  [cw |-> id(v), ccw |-> id(x)] \in AdjacentEnds(r, n, u, others, e)
    BY <1>12
  <2>1. /\ end(v) \in {w \in ends : \A y \in ends : ~ MetBefore(u, y.dir, w.dir)}
        /\ end(x) \in {w \in ends : \A y \in ends : ~ MetBefore(u, w.dir, y.dir)}
    BY <1>6, <1>11
  <2> QED BY <1>9, <1>10, <2>1
<1> QED BY <1>13, <1>14

\* The links of the edge end and of the one before it fit its new direction.
LEMMA NeighboursStay ==
  ASSUME NEW s, Typed(s), Flat(s), Turning(s), NEW t, NEW e, Reshapes(s, t, e),
         NEW d \in {e, -e}, NEW n \in DOMAIN s.node, Origin(s, d) = n, DartsAt(s, n) # {d},
         Neighbours(t, n, d) = Neighbours(s, n, d)
  PROVE  /\ Follows(Star(t, n), d, Links(s, n)[d])
         /\ \E c \in DartsAt(s, n) : Links(s, n)[c] = d /\ Precedes(Star(t, n), c, d)
<1> DEFINE x == Links(s, n)[d]
           id(y) == IF y = -d THEN 0 ELSE y
<1>1. /\ d \in DartsAt(s, n) /\ DartsAt(t, n) = DartsAt(s, n)
      /\ DOMAIN Star(s, n) = DartsAt(s, n)
  BY DartsReshaped DEF DartsAt, Star
<1>2. \A y \in DartsAt(s, n) : y # 0
  BY DartIsSigned DEF DartsAt
<1>3. Rotation(Star(s, n), Links(s, n)) /\ Cyclic(Star(s, n))
  BY EndsAreSpread, SpreadIsCyclic DEF Turning
<1>4. Follows(Star(s, n), d, x) /\ x \in DartsAt(s, n) \ {d}
  <2>1. Follows(Star(s, n), d, x)
    BY <1>1, <1>3 DEF Rotation
  <2> QED BY <1>1, <2>1 DEF Follows
<1>5. PICK c \in DartsAt(s, n) : Links(s, n)[c] = d
  BY <1>1, <1>3 DEF Rotation
<1>6. Precedes(Star(s, n), c, d) /\ c # d
  <2>1. Follows(Star(s, n), c, d)
    BY <1>1, <1>3, <1>5 DEF Rotation
  <2>2. c # d
    BY <1>1, <2>1 DEF Follows
  <2> QED BY <1>1, <1>3, <2>1, <2>2, LastIsFollowed
<1> HIDE DEF x, id
<1>7. [cw |-> id(x), ccw |-> id(c)] \in Neighbours(s, n, d)
  BY <1>4, <1>5, <1>6 DEF Neighbours, id
<1>8. PICK a \in DartsAt(t, n) \ {d}, b \in DartsAt(t, n) \ {d} :
        /\ Follows(Star(t, n), d, a) /\ Precedes(Star(t, n), b, d)
        /\ [cw |-> id(x), ccw |-> id(c)] = [cw |-> id(a), ccw |-> id(b)]
  <2>1. Neighbours(t, n, d) =
          {[cw |-> id(a), ccw |-> id(b)] :
             a \in {y \in DartsAt(t, n) \ {d} : Follows(Star(t, n), d, y)},
             b \in {y \in DartsAt(t, n) \ {d} : Precedes(Star(t, n), y, d)}}
    BY DEF Neighbours, id
  <2>2. [cw |-> id(x), ccw |-> id(c)] \in
          {[cw |-> id(a), ccw |-> id(b)] :
             a \in {y \in DartsAt(t, n) \ {d} : Follows(Star(t, n), d, y)},
             b \in {y \in DartsAt(t, n) \ {d} : Precedes(Star(t, n), y, d)}}
    BY <1>7, <2>1
  <2> QED BY <2>2
<1>9. id(a) = id(x) /\ id(b) = id(c)
  BY <1>8
<1>10. a = x /\ b = c
  BY <1>1, <1>2, <1>4, <1>5, <1>8, <1>9 DEF id
<1> QED BY <1>5, <1>8, <1>10 DEF x

LEMMA ReshapedTurns ==
  ASSUME NEW s, Typed(s), Flat(s), Turning(s), NEW t, Typed(t), Flat(t), NEW e, Reshapes(s, t, e),
         t.node = s.node,
         \A d \in {e, -e} : \A n \in DOMAIN s.node :
           Origin(s, d) = n /\ DartsAt(s, n) # {d} => Neighbours(t, n, d) = Neighbours(s, n, d)
  PROVE  Turning(t)
<1> SUFFICES ASSUME NEW n \in DOMAIN t.node
             PROVE  Rotation(Star(t, n), Links(t, n))
  BY DEF Turning
<1> DEFINE dir  == Star(s, n)
           to   == Star(t, n)
           next == Links(s, n)
<1>1. /\ e \in Nat \ {0} /\ -(-e) = e /\ -e # e /\ e \in DartsOf(s) /\ -e \in DartsOf(s)
      /\ \A d : Next(t, d) = Next(s, d)
      /\ DartsAt(t, n) = DartsAt(s, n)
      /\ \A d \in DartsOf(s) \ {e, -e} : Leaving(t, d) = Leaving(s, d)
  BY DartsReshaped
<1>2. /\ Rotation(dir, next) /\ Spread(dir) /\ Spread(to)
  BY EndsAreSpread DEF Turning
<1>3. /\ DOMAIN dir = DartsAt(s, n) /\ DOMAIN to = DartsAt(s, n) /\ Links(t, n) = next
      /\ \A d \in DartsAt(s, n) \ {e, -e} : to[d] = dir[d]
      /\ \A d \in DartsAt(s, n) : next[d] = Next(t, -d)
  BY <1>1 DEF Star, Links, DartsAt
<1>4. ASSUME NEW d \in DartsAt(s, n)
      PROVE  next[d] \in DartsAt(s, n) /\ (next[d] = d => DartsAt(s, n) = {d})
  BY <1>2, <1>3 DEF Rotation, Follows
<1>5. \A d \in {e, -e} : d \in DartsAt(s, n) <=> Origin(s, d) = n
  BY <1>1 DEF DartsAt
<1>6. ASSUME NEW d \in {e, -e}, d \in DartsAt(s, n), DartsAt(s, n) # {d}
      PROVE  /\ Follows(to, d, next[d])
             /\ \E c \in DartsAt(s, n) : next[c] = d /\ Precedes(to, c, d)
  BY <1>5, <1>6, NeighboursStay
<1> HIDE DEF dir, to, next
<1>7. CASE e \notin DartsAt(s, n) /\ -e \notin DartsAt(s, n)
  <2>1. DOMAIN next = DOMAIN dir
    BY <1>2 DEF Rotation
  <2>2. Rotation(to, next)
    BY <1>2, <1>3, <1>7, <2>1, RotationKept
  <2> QED BY <1>3, <2>2 DEF to
<1>8. ASSUME NEW d \in {e, -e}, d \in DartsAt(s, n), -d \notin DartsAt(s, n)
      PROVE  Rotation(Star(t, n), Links(t, n))
  <2>1. \A x \in DOMAIN dir \ {d} : to[x] = dir[x]
    BY <1>1, <1>3, <1>8
  <2>2. CASE DartsAt(s, n) = {d}
    <3>1. Next(t, -d) = d
      BY <1>3, <1>4, <2>2
    <3> QED BY <1>1, <2>2, <3>1, OneAround
  <2>3. CASE DartsAt(s, n) # {d}
    <3>1. PICK c \in DartsAt(s, n) : next[c] = d /\ Precedes(to, c, d)
      BY <1>6, <1>8, <2>3
    <3>2. Follows(to, d, next[d])
      BY <1>6, <1>8, <2>3
    <3>3. Rotation(to, next)
      BY <1>2, <1>3, <1>8, <2>1, <2>3, <3>1, <3>2, RotationMovesOne
    <3> QED BY <1>3, <3>3 DEF to
  <2> QED BY <2>2, <2>3
<1>9. CASE e \in DartsAt(s, n) /\ -e \in DartsAt(s, n)
  <2> DEFINE b == -e
  <2>1. b # e /\ b \in {e, -e} /\ b \in DartsAt(s, n) /\ e \in {e, -e}
    BY <1>1, <1>9
  <2>2. DartsAt(s, n) # {e} /\ DartsAt(s, n) # {b}
    BY <1>9, <2>1
  <2>3. \A x \in DOMAIN dir \ {e, b} : to[x] = dir[x]
    BY <1>3
  <2>4. CASE DartsAt(s, n) = {e, b}
    <3>1. next[e] = b /\ next[b] = e
      BY <1>4, <1>9, <2>1, <2>2, <2>4
    <3>2. Next(t, -e) = b /\ Next(t, -b) = e
      BY <1>3, <1>9, <2>1, <3>1
    <3> HIDE DEF b
    <3> QED BY <1>1, <2>1, <2>4, <3>2, TwoAround
  <2>5. CASE DartsAt(s, n) # {e, b}
    <3> HIDE DEF b
    <3>1. PICK c \in DartsAt(s, n) : next[c] = e /\ Precedes(to, c, e)
      BY <1>6, <1>9, <2>1, <2>2
    <3>2. PICK k \in DartsAt(s, n) : next[k] = b /\ Precedes(to, k, b)
      BY <1>6, <2>1, <2>2
    <3>3. Follows(to, e, next[e]) /\ Follows(to, b, next[b])
      BY <1>6, <1>9, <2>1, <2>2
    <3>4. DOMAIN dir \ {e, b} # {} /\ e \in DOMAIN dir /\ b \in DOMAIN dir /\ DOMAIN to = DOMAIN dir
      BY <1>3, <1>9, <2>1, <2>5
    <3>5. c \in DOMAIN dir /\ k \in DOMAIN dir
      BY <1>3
    <3>6. Rotation(to, next)
      BY <1>2, <2>1, <2>3, <3>1, <3>2, <3>3, <3>4, <3>5, RotationMovesTwo
    <3> QED BY <1>3, <3>6 DEF to
  <2> QED BY <2>4, <2>5
<1>10. CASE e \in DartsAt(s, n) /\ -e \notin DartsAt(s, n)
  BY <1>8, <1>10
<1>11. CASE e \notin DartsAt(s, n) /\ -e \in DartsAt(s, n)
  <2> DEFINE b == -e
  <2>1. b \in {e, -e} /\ b \in DartsAt(s, n) /\ -b \notin DartsAt(s, n)
    BY <1>1, <1>11
  <2> HIDE DEF b
  <2> QED BY <1>8, <2>1
<1> QED BY <1>7, <1>9, <1>10, <1>11

LEMMA ChangeEdgeGeomTurns ==
  ASSUME NEW s, Sound(s), Flat(s), Turning(s), NEW e \in DOMAIN s.edge, NEW g \in Line,
         CanChangeEdgeGeom(s, e, g), Typed(ChangeEdgeGeom(s, e, g))
  PROVE  Turning(ChangeEdgeGeom(s, e, g))
<1> DEFINE t == ChangeEdgeGeom(s, e, g)
           old == s.line[e]
           n1 == s.edge[e].start_node
           n2 == s.edge[e].end_node
           first(h) == Direction(h[1], h[2])
           last(h)  == Direction(h[Len(h)], h[Len(h) - 1])
<1>1. Typed(s) /\ Flat(t)
  BY ChangeEdgeGeomFlat DEF Sound
<1>2. /\ t.line = [s.line EXCEPT ![e] = g] /\ t.edge = s.edge
      /\ t.node = s.node /\ DOMAIN s.line = DOMAIN s.edge
  BY DEF ChangeEdgeGeom, Sound, Typed, Tables, IsTopology
<1>3. /\ AdjacentEnds(s, n1, first(old), IF n1 = n2 THEN {last(old)} ELSE {}, e)
           = AdjacentEnds(s, n1, first(g), IF n1 = n2 THEN {last(g)} ELSE {}, e)
      /\ AdjacentEnds(s, n2, last(old), IF n1 = n2 THEN {first(old)} ELSE {}, e)
           = AdjacentEnds(s, n2, last(g), IF n1 = n2 THEN {first(g)} ELSE {}, e)
  BY DEF CanChangeEdgeGeom
<1> HIDE DEF t
<1>4. Reshapes(s, t, e) /\ Reshapes(t, s, e) /\ t.line[e] = g
  BY <1>2 DEF Reshapes
<1>5. /\ e \in Nat \ {0} /\ -(-e) = e /\ -e # e
      /\ \A d : Origin(t, d) = Origin(s, d)
      /\ \A n : DartsAt(t, n) = DartsAt(s, n)
      /\ DartsOf(t) = DartsOf(s)
      /\ \A d \in DartsOf(s) \ {e, -e} : Leaving(t, d) = Leaving(s, d)
  BY <1>1, <1>4, DartsReshaped
<1>6. Origin(s, e) = n1 /\ Origin(s, -e) = n2
  BY <1>5 DEF Origin
<1>7. /\ Leaving(s, e) = first(old) /\ Leaving(s, -e) = last(old)
      /\ Leaving(t, e) = first(g) /\ Leaving(t, -e) = last(g)
  <2>1. e \in DOMAIN t.edge /\ Typed(t)
    BY <1>2 DEF t
  <2> QED BY <1>1, <1>4, <2>1, LeavingEdge
<1> HIDE DEF first, last, n1, n2, old
<1>8. ASSUME NEW d \in {e, -e}, NEW n, Origin(s, d) = n, DartsAt(s, n) # {d},
             AdjacentEnds(s, n, Leaving(s, d), OtherEnd(s, n, d), e)
               = AdjacentEnds(s, n, Leaving(t, d), OtherEnd(t, n, d), e)
      PROVE  Neighbours(t, n, d) = Neighbours(s, n, d)
  <2>1. AdjacentEnds(s, n, Leaving(s, d), OtherEnd(s, n, d), e) = Neighbours(s, n, d)
    <3> DEFINE u == Leaving(s, d)
               others == OtherEnd(s, n, d)
    <3>1. u = Leaving(s, d) /\ others = OtherEnd(s, n, d)
      OBVIOUS
    <3> HIDE DEF u, others
    <3>2. AdjacentEnds(s, n, u, others, e) = Neighbours(s, n, d)
      BY <1>1, <1>8, <3>1, AdjacentEndsOfEdge
    <3> QED BY <3>1, <3>2
  <2>2. AdjacentEnds(s, n, Leaving(t, d), OtherEnd(t, n, d), e) = Neighbours(t, n, d)
    <3> DEFINE u == Leaving(t, d)
               others == OtherEnd(t, n, d)
    <3>1. u = Leaving(t, d) /\ others = OtherEnd(t, n, d)
      OBVIOUS
    <3> HIDE DEF u, others
    <3>2. /\ Typed(t) /\ e \in DOMAIN t.edge /\ Origin(t, d) = n /\ DartsAt(t, n) # {d}
          /\ s.edge = t.edge
          /\ \A x \in DartsOf(t) \ {e, -e} : Leaving(s, x) = Leaving(t, x)
      BY <1>2, <1>5, <1>8 DEF t
    <3>3. AdjacentEnds(s, n, u, others, e) = Neighbours(t, n, d)
      BY <3>1, <3>2, AdjacentEndsOfEdge
    <3> QED BY <3>1, <3>3
  <2> QED BY <1>8, <2>1, <2>2
<1>9. /\ AdjacentEnds(s, n1, Leaving(s, e), OtherEnd(s, n1, e), e)
           = AdjacentEnds(s, n1, Leaving(t, e), OtherEnd(t, n1, e), e)
      /\ AdjacentEnds(s, n2, Leaving(s, -e), OtherEnd(s, n2, -e), e)
           = AdjacentEnds(s, n2, Leaving(t, -e), OtherEnd(t, n2, -e), e)
  <2>1. /\ OtherEnd(s, n1, e) = IF n1 = n2 THEN {last(old)} ELSE {}
        /\ OtherEnd(t, n1, e) = IF n1 = n2 THEN {last(g)} ELSE {}
        /\ OtherEnd(s, n2, -e) = IF n1 = n2 THEN {first(old)} ELSE {}
        /\ OtherEnd(t, n2, -e) = IF n1 = n2 THEN {first(g)} ELSE {}
    BY <1>5, <1>6, <1>7 DEF OtherEnd
  <2> QED BY <1>3, <1>7, <2>1
<1>10. ASSUME NEW d \in {e, -e}, NEW n \in DOMAIN s.node, Origin(s, d) = n, DartsAt(s, n) # {d}
       PROVE  Neighbours(t, n, d) = Neighbours(s, n, d)
  <2>1. CASE d = e
    <3>1. n = n1
      BY <1>6, <1>10, <2>1
    <3> QED BY <1>8, <1>9, <1>10, <2>1, <3>1
  <2>2. CASE d = -e
    <3>1. n = n2
      BY <1>6, <1>10, <2>2
    <3> QED BY <1>8, <1>9, <1>10, <2>2, <3>1
  <2> QED BY <2>1, <2>2
<1>11. Typed(t)
  BY DEF t
<1>12. Turning(t)
  BY <1>1, <1>2, <1>4, <1>10, <1>11, ReshapedTurns
<1> QED BY <1>12 DEF t

-----------------------------------------------------------------------------
(* Isolated nodes, and edges that may split a face.                        *)

LEMMA AddIsoNodeTurns ==
  ASSUME NEW s, Sound(s), Flat(s), Turning(s), NEW face, NEW p, NEW n
  PROVE  Turning(AddIsoNode(s, face, p, n))
<1> DEFINE f == IF face = -1 THEN FaceContaining(s, p) ELSE face
<1> HIDE DEF f
<1>1. SameLinks(s, WithNode(s, n, f, p))
  BY DEF WithNode, SameLinks, Sound, Typed, Tables
<1>2. AddIsoNode(s, face, p, n) = WithNode(s, n, f, p)
  BY DEF AddIsoNode, f
<1> QED BY <1>1, <1>2, SameLinksTurn DEF Sound

LEMMA MoveIsoNodeTurns ==
  ASSUME NEW s, Sound(s), Flat(s), Turning(s), NEW n, NEW p
  PROVE  Turning(MoveIsoNode(s, n, p))
<1>1. SameLinks(s, MoveIsoNode(s, n, p))
  BY DEF MoveIsoNode, SameLinks, Sound, Typed, Tables
<1> QED BY <1>1, SameLinksTurn DEF Sound

LEMMA RemoveIsoNodeTurns ==
  ASSUME NEW s, Sound(s), Flat(s), Turning(s), NEW n
  PROVE  Turning(WithoutNode(s, n))
<1>1. SameLinks(s, WithoutNode(s, n))
  BY DEF WithoutNode, SameLinks, Sound, Typed, Tables
<1> QED BY <1>1, SameLinksTurn DEF Sound

LEMMA AddEdgeTurns ==
  ASSUME NEW s, Sound(s), Flat(s), Turning(s),
         NEW n1 \in DOMAIN s.node, NEW n2 \in DOMAIN s.node,
         NEW g \in Line, CanAddEdge(s, n1, n2, g), NEW f \in Faces,
         NEW a1 \in StartEnds(s, n1, n2, g), NEW a2 \in EndEnds(s, n1, n2, g),
         NEW e \in EdgeIds \ DOMAIN s.edge, NEW nf \in FaceIds, NEW other \in FaceIds
  PROVE  /\ Turning(AddEdgeModFace(s, n1, n2, g, f, a1, a2, e, nf, other))
         /\ Turning(AddEdgeNewFaces(s, n1, n2, g, f, a1, a2, e, nf, other))
<1> DEFINE t == LinkEdge(s, n1, n2, g, f, a1, a2, e)
<1>1. /\ a1.cw \in DartsAt(s, n1) \cup {0} /\ a2.cw \in DartsAt(s, n2) \cup {0}
  BY AdjacentEndsAreEnds DEF StartEnds, EndEnds
<1>2. Typed(t) /\ Flat(t)
  BY <1>1, LinkEdgeSound, LinkEdgeFlat DEF Sound
<1>3. Turning(t)
  BY <1>2, LinkEdgeTurns DEF Sound
<1>4. /\ AddEdgeModFace(s, n1, n2, g, f, a1, a2, e, nf, other) \in {t, SplitModFace(t, e, f, nf, other)}
      /\ AddEdgeNewFaces(s, n1, n2, g, f, a1, a2, e, nf, other) \in {t, SplitNewFaces(t, e, f, nf, other)}
  BY DEF AddEdgeModFace, AddEdgeNewFaces
<1> HIDE DEF t
<1>5. /\ Turning(SplitModFace(t, e, f, nf, other))
      /\ Turning(SplitNewFaces(t, e, f, nf, other))
  BY <1>2, <1>3, SplitModFaceKeepsLinks, SplitNewFacesKeepsLinks, SameLinksTurn
<1> QED BY <1>3, <1>4, <1>5

-----------------------------------------------------------------------------
(* The specification.                                                      *)

LEMMA SameRowsTurn ==
  ASSUME NEW t, Turning(t), NEW u, DOMAIN u.node = DOMAIN t.node, u.edge = t.edge, u.line = t.line
  PROVE  Turning(u)
<1>1. \A d : Origin(u, d) = Origin(t, d) /\ Leaving(u, d) = Leaving(t, d) /\ Next(u, d) = Next(t, d)
  BY DEF Origin, Leaving, Path, Next
<1>2. \A n : DartsAt(u, n) = DartsAt(t, n)
  BY <1>1 DEF DartsAt, DartsOf
<1>3. \A n : Star(u, n) = Star(t, n) /\ Links(u, n) = Links(t, n)
  BY <1>1, <1>2 DEF Star, Links
<1> QED BY <1>3 DEF Turning

LEMMA CommitTurns ==
  ASSUME NEW t, Turning(t), Commit(t)
  PROVE  Turning(db)'
<1> DEFINE u == db'
<1>1. u.node = t.node /\ u.edge = t.edge /\ u.line = t.line
  BY DEF Commit, db
<1> HIDE DEF u
<1>2. Turning(u)
  BY <1>1, SameRowsTurn
<1> QED BY <1>2 DEF u

LEMMA InitTurns == Init => Turning(db)
<1> SUFFICES ASSUME Init PROVE Turning(db)
  OBVIOUS
<1>1. DOMAIN db.node = {}
  BY TablesOfDb DEF Init, EmptyTable
<1> QED BY <1>1 DEF Turning

\* NewEdgesSplit is not called, or not for an edge another one refers to by
\* next_right.
SplitsAreSafe == "SplitsReferredEdge" \in Avoids \/ "NewEdgesSplit" \notin Ops

LEMMA StepTurns ==
  ASSUME SplitsAreSafe
  PROVE  Sound(db) /\ Flat(db) /\ Turning(db) /\ [NextCall]_vars => Turning(db)'
<1> SUFFICES ASSUME Sound(db), Flat(db), Turning(db), [NextCall]_vars PROVE Turning(db)'
  OBVIOUS
<1> USE TablesOfDb
<1>a. Typed(db)
  BY DEF Sound
<1>b. Sites \subseteq Point /\ Curves \subseteq Line
  BY InputsAreGeometries
<1>1. CASE rtt_AddIsoNode
  <2>1. PICK p \in Sites, face \in Faces \cup {-1} :
          /\ CanAddIsoNode(db, face, p)
          /\ \E n \in NewNodeId(p) : Commit(AddIsoNode(db, face, p, n))
    BY <1>1 DEF rtt_AddIsoNode
  <2>2. PICK n \in NewNodeId(p) : Commit(AddIsoNode(db, face, p, n))
    BY <2>1
  <2>3. p \in Point /\ n \in NodeIds \ DOMAIN db.node
    BY <1>b, NewIdentifiersAreFree
  <2>4. Turning(AddIsoNode(db, face, p, n))
    BY <1>a, <2>1, <2>3, AddIsoNodeTurns
  <2> QED BY <2>2, <2>4, CommitTurns
<1>2. CASE rtt_MoveIsoNode
  <2>1. PICK n \in DOMAIN node, p \in Sites :
          CanMoveIsoNode(db, n, p) /\ Commit(MoveIsoNode(db, n, p))
    BY <1>2 DEF rtt_MoveIsoNode
  <2>2. p \in Point
    BY <1>b
  <2>3. Turning(MoveIsoNode(db, n, p))
    BY <2>1, <2>2, MoveIsoNodeTurns
  <2> QED BY <2>1, <2>3, CommitTurns
<1>3. CASE rtt_RemoveIsoNode
  <2>1. PICK n \in DOMAIN node : IsIsoNode(db, n) /\ Commit(WithoutNode(db, n))
    BY <1>3 DEF rtt_RemoveIsoNode
  <2>2. Turning(WithoutNode(db, n))
    BY <2>1, RemoveIsoNodeTurns
  <2> QED BY <2>1, <2>2, CommitTurns
<1>4. CASE rtt_AddIsoEdge
  <2>1. PICK n1 \in DOMAIN node, n2 \in DOMAIN node, g \in Curves :
          /\ CanAddIsoEdge(db, n1, n2, g)
          /\ \E e \in NewEdgeId(g, {}) : Commit(AddIsoEdge(db, n1, n2, g, e))
    BY <1>4 DEF rtt_AddIsoEdge
  <2>2. PICK e \in NewEdgeId(g, {}) : Commit(AddIsoEdge(db, n1, n2, g, e))
    BY <2>1
  <2>3. g \in Line /\ e \in EdgeIds \ DOMAIN db.edge
    BY <1>b, NewIdentifiersAreFree
  <2>4. Turning(AddIsoEdge(db, n1, n2, g, e))
    BY <2>1, <2>3, AddIsoEdgeTurns
  <2> QED BY <2>2, <2>4, CommitTurns
<1>5. CASE rtt_RemIsoEdge
  <2>1. PICK e \in DOMAIN edge : CanRemIsoEdge(db, e) /\ Commit(RemIsoEdge(db, e))
    BY <1>5 DEF rtt_RemIsoEdge
  <2>2. Turning(RemIsoEdge(db, e))
    BY <1>a, <2>1, RemIsoEdgeTurns
  <2> QED BY <2>1, <2>2, CommitTurns
<1>6. CASE rtt_ModEdgeSplit
  <2>1. PICK e \in DOMAIN edge, p \in Sites :
          /\ CanSplitEdge(db, e, p)
          /\ \E n \in NewNodeId(p), e2 \in NewEdgeId(TailFrom(line[e], p), {}) :
               Commit(ModEdgeSplit(db, e, p, n, e2))
    BY <1>6 DEF rtt_ModEdgeSplit
  <2>2. PICK n \in NewNodeId(p), e2 \in NewEdgeId(TailFrom(line[e], p), {}) :
          Commit(ModEdgeSplit(db, e, p, n, e2))
    BY <2>1
  <2>3. p \in Point /\ n \in NodeIds \ DOMAIN db.node /\ e2 \in EdgeIds \ DOMAIN db.edge
    BY <1>b, NewIdentifiersAreFree
  <2>4. Turning(ModEdgeSplit(db, e, p, n, e2))
    <3>1. Typed(ModEdgeSplit(db, e, p, n, e2))
      BY <2>3, ModEdgeSplitSound DEF Sound
    <3> QED BY <2>1, <2>3, <3>1, ModEdgeSplitTurns
  <2> QED BY <2>2, <2>4, CommitTurns
<1>7. CASE rtt_NewEdgesSplit
  <2>1. PICK e \in DOMAIN edge, p \in Sites :
          /\ CanSplitEdge(db, e, p)
          /\ ~ Avoided("SplitsReferredEdge", SplitsReferredEdge(e)) /\ "NewEdgesSplit" \in Ops
          /\ \E n \in NewNodeId(p), e1 \in NewEdgeId(HeadUpTo(line[e], p), {}) :
               \E e2 \in NewEdgeId(TailFrom(line[e], p), {e1}) :
                 Commit(NewEdgesSplit(db, e, p, n, e1, e2))
    BY <1>7 DEF rtt_NewEdgesSplit
  <2>2. PICK n \in NewNodeId(p), e1 \in NewEdgeId(HeadUpTo(line[e], p), {}) :
          \E e2 \in NewEdgeId(TailFrom(line[e], p), {e1}) :
            Commit(NewEdgesSplit(db, e, p, n, e1, e2))
    BY <2>1
  <2>3. PICK e2 \in NewEdgeId(TailFrom(line[e], p), {e1}) :
          Commit(NewEdgesSplit(db, e, p, n, e1, e2))
    BY <2>2
  <2>4. /\ p \in Point /\ n \in NodeIds \ DOMAIN db.node
        /\ e1 \in EdgeIds \ DOMAIN db.edge /\ e2 \in EdgeIds \ DOMAIN db.edge /\ e1 # e2
    BY <1>b, NewIdentifiersAreFree
  <2>5. Turning(NewEdgesSplit(db, e, p, n, e1, e2))
    <3>1. Typed(NewEdgesSplit(db, e, p, n, e1, e2))
      BY <2>4, NewEdgesSplitSound DEF Sound
    <3>2. ~ SplitsReferredEdge(e)
      BY <2>1 DEF SplitsAreSafe, Avoided
    <3>3. \A x \in DOMAIN db.edge \ {e} : db.edge[x].next_right \notin {e, -e}
      BY <3>2 DEF SplitsReferredEdge
    <3> QED BY <2>1, <2>4, <3>1, <3>3, NewEdgesSplitTurns
  <2> QED BY <2>3, <2>5, CommitTurns
<1>8. CASE rtt_AddEdgeModFace
  <2>1. PICK n1 \in DOMAIN node, n2 \in DOMAIN node, g \in Curves :
          /\ CanAddEdge(db, n1, n2, g)
          /\ \E a1 \in StartEnds(db, n1, n2, g), a2 \in EndEnds(db, n1, n2, g),
                e \in NewEdgeId(g, {}), nf \in NewFaceId({}) :
             \E spare \in NewFaceId({nf}) :
               LET f == NewEdgeFace(db, n1, n2, a1, a2)
               IN  f # -1 /\ Commit(AddEdgeModFace(db, n1, n2, g, f, a1, a2, e, nf, spare))
    BY <1>8 DEF rtt_AddEdgeModFace
  <2>2. PICK a1 \in StartEnds(db, n1, n2, g), a2 \in EndEnds(db, n1, n2, g),
             e \in NewEdgeId(g, {}), nf \in NewFaceId({}) :
          \E spare \in NewFaceId({nf}) :
            LET f == NewEdgeFace(db, n1, n2, a1, a2)
            IN  f # -1 /\ Commit(AddEdgeModFace(db, n1, n2, g, f, a1, a2, e, nf, spare))
    BY <2>1
  <2> DEFINE f == NewEdgeFace(db, n1, n2, a1, a2)
  <2>3. PICK spare \in NewFaceId({nf}) :
          f # -1 /\ Commit(AddEdgeModFace(db, n1, n2, g, f, a1, a2, e, nf, spare))
    BY <2>2
  <2>4. /\ g \in Line /\ e \in EdgeIds \ DOMAIN db.edge /\ nf \in FaceIds /\ spare \in FaceIds
    BY <1>b, NewIdentifiersAreFree
  <2>5. /\ a1.cw \in DartsAt(db, n1) \cup {0} /\ a1.ccw \in DartsAt(db, n1) \cup {0}
        /\ a2.cw \in DartsAt(db, n2) \cup {0}
    BY AdjacentEndsAreEnds DEF StartEnds, EndEnds
  <2>6. f \in Faces
    BY <1>a, <2>3, <2>5, NewEdgeFaceTyped
  <2> HIDE DEF f
  <2>7. Turning(AddEdgeModFace(db, n1, n2, g, f, a1, a2, e, nf, spare))
    BY <2>1, <2>2, <2>4, <2>6, AddEdgeTurns
  <2> QED BY <2>3, <2>7, CommitTurns
<1>9. CASE rtt_AddEdgeNewFaces
  <2>1. PICK n1 \in DOMAIN node, n2 \in DOMAIN node, g \in Curves :
          /\ CanAddEdge(db, n1, n2, g)
          /\ \E a1 \in StartEnds(db, n1, n2, g), a2 \in EndEnds(db, n1, n2, g),
                e \in NewEdgeId(g, {}), nf1 \in NewFaceId({}) :
             \E nf \in NewFaceId({nf1}) :
               LET f == NewEdgeFace(db, n1, n2, a1, a2)
               IN  f # -1 /\ Commit(AddEdgeNewFaces(db, n1, n2, g, f, a1, a2, e, nf, nf1))
    BY <1>9 DEF rtt_AddEdgeNewFaces
  <2>2. PICK a1 \in StartEnds(db, n1, n2, g), a2 \in EndEnds(db, n1, n2, g),
             e \in NewEdgeId(g, {}), nf1 \in NewFaceId({}) :
          \E nf \in NewFaceId({nf1}) :
            LET f == NewEdgeFace(db, n1, n2, a1, a2)
            IN  f # -1 /\ Commit(AddEdgeNewFaces(db, n1, n2, g, f, a1, a2, e, nf, nf1))
    BY <2>1
  <2> DEFINE f == NewEdgeFace(db, n1, n2, a1, a2)
  <2>3. PICK nf \in NewFaceId({nf1}) :
          f # -1 /\ Commit(AddEdgeNewFaces(db, n1, n2, g, f, a1, a2, e, nf, nf1))
    BY <2>2
  <2>4. /\ g \in Line /\ e \in EdgeIds \ DOMAIN db.edge /\ nf \in FaceIds /\ nf1 \in FaceIds
    BY <1>b, NewIdentifiersAreFree
  <2>5. /\ a1.cw \in DartsAt(db, n1) \cup {0} /\ a1.ccw \in DartsAt(db, n1) \cup {0}
        /\ a2.cw \in DartsAt(db, n2) \cup {0}
    BY AdjacentEndsAreEnds DEF StartEnds, EndEnds
  <2>6. f \in Faces
    BY <1>a, <2>3, <2>5, NewEdgeFaceTyped
  <2> HIDE DEF f
  <2>7. Turning(AddEdgeNewFaces(db, n1, n2, g, f, a1, a2, e, nf, nf1))
    BY <2>1, <2>2, <2>4, <2>6, AddEdgeTurns
  <2> QED BY <2>3, <2>7, CommitTurns
<1>10. CASE rtt_RemEdgeModFace
  <2>1. PICK e \in DOMAIN edge : Commit(RemEdge(db, e, TRUE, Universe))
    BY <1>10 DEF rtt_RemEdgeModFace
  <2>2. Turning(RemEdge(db, e, TRUE, Universe))
    BY <1>a, RemEdgeTurns DEF Faces
  <2> QED BY <2>1, <2>2, CommitTurns
<1>11. CASE rtt_RemEdgeNewFace
  <2>1. PICK e \in DOMAIN edge, nf \in NewFaceId({}) : Commit(RemEdge(db, e, FALSE, nf))
    BY <1>11 DEF rtt_RemEdgeNewFace
  <2>2. nf \in Faces
    BY NewIdentifiersAreFree DEF Faces
  <2>3. Turning(RemEdge(db, e, FALSE, nf))
    BY <1>a, <2>2, RemEdgeTurns
  <2> QED BY <2>1, <2>3, CommitTurns
<1>12. CASE rtt_ModEdgeHeal
  <2>1. PICK e1 \in DOMAIN edge, e2 \in DOMAIN edge :
          /\ CanHealEdges(db, e1, e2)
          /\ \E m \in Meeting(db, e1, e2) : Commit(HealEdges(db, e1, e2, m, e1))
    BY <1>12 DEF rtt_ModEdgeHeal
  <2>2. PICK m \in Meeting(db, e1, e2) : Commit(HealEdges(db, e1, e2, m, e1))
    BY <2>1
  <2>3. e1 \in EdgeIds
    BY DEF Sound, Typed, IsTopology
  <2>4. Turning(HealEdges(db, e1, e2, m, e1))
    <3>1. Typed(HealEdges(db, e1, e2, m, e1))
      BY <2>1, <2>3, HealEdgesSound DEF Sound
    <3> QED BY <2>1, <2>3, <3>1, HealEdgesTurns
  <2> QED BY <2>2, <2>4, CommitTurns
<1>13. CASE rtt_NewEdgeHeal
  <2>1. PICK e1 \in DOMAIN edge, e2 \in DOMAIN edge :
          /\ CanHealEdges(db, e1, e2)
          /\ \E m \in Meeting(db, e1, e2) : \E e \in NewEdgeId(HealedLine(db, m), {}) :
               Commit(HealEdges(db, e1, e2, m, e))
    BY <1>13 DEF rtt_NewEdgeHeal
  <2>2. PICK m \in Meeting(db, e1, e2) : \E e \in NewEdgeId(HealedLine(db, m), {}) :
          Commit(HealEdges(db, e1, e2, m, e))
    BY <2>1
  <2>3. PICK e \in NewEdgeId(HealedLine(db, m), {}) : Commit(HealEdges(db, e1, e2, m, e))
    BY <2>2
  <2>4. e \in EdgeIds \ DOMAIN db.edge
    BY NewIdentifiersAreFree
  <2>5. Turning(HealEdges(db, e1, e2, m, e))
    <3>1. Typed(HealEdges(db, e1, e2, m, e))
      BY <2>1, <2>4, HealEdgesSound DEF Sound
    <3> QED BY <2>1, <2>4, <3>1, HealEdgesTurns
  <2> QED BY <2>3, <2>5, CommitTurns
<1>14. CASE rtt_ChangeEdgeGeom
  <2>1. PICK e \in DOMAIN edge, g \in Curves :
          CanChangeEdgeGeom(db, e, g) /\ Commit(ChangeEdgeGeom(db, e, g))
    BY <1>14 DEF rtt_ChangeEdgeGeom
  <2>2. g \in Line
    BY <1>b
  <2>3. Turning(ChangeEdgeGeom(db, e, g))
    <3>1. Typed(ChangeEdgeGeom(db, e, g))
      BY ChangeEdgeGeomSound DEF Sound
    <3> QED BY <2>1, <2>2, <3>1, ChangeEdgeGeomTurns
  <2> QED BY <2>1, <2>3, CommitTurns
<1>15. CASE CreateArealTopoGeom
  <2>1. node' = node /\ point' = point /\ edge' = edge /\ line' = line
    BY <1>15 DEF CreateArealTopoGeom
  <2> DEFINE u == db'
  <2>2. u.node = db.node /\ u.edge = db.edge /\ u.line = db.line
    BY <2>1 DEF db
  <2> HIDE DEF u
  <2>3. Turning(u)
    BY <2>2, SameRowsTurn
  <2> QED BY <2>3 DEF u
<1>16. CASE CreateLinealTopoGeom
  <2>1. node' = node /\ point' = point /\ edge' = edge /\ line' = line
    BY <1>16 DEF CreateLinealTopoGeom
  <2> DEFINE u == db'
  <2>2. u.node = db.node /\ u.edge = db.edge /\ u.line = db.line
    BY <2>1 DEF db
  <2> HIDE DEF u
  <2>3. Turning(u)
    BY <2>2, SameRowsTurn
  <2> QED BY <2>3 DEF u
<1>17. CASE UNCHANGED vars
  <2>1. db' = db
    BY <1>17 DEF vars, db
  <2> QED BY <2>1
<1> QED BY <1>1, <1>2, <1>3, <1>4, <1>5, <1>6, <1>7, <1>8, <1>9, <1>10, <1>11, <1>12,
           <1>13, <1>14, <1>15, <1>16, <1>17 DEF NextCall

\* Around every node next_left and next_right go on with the edge end that is
\* next in clockwise order, for every history of additions, splits, heals,
\* removals and changes of shape that does not split a referred edge with
\* NewEdgesSplit: the searches by azimuth before an edge is added, the renaming
\* of links by identifier afterwards and the test of the adjacent ends in
\* ChangeEdgeGeom keep it, for every set of points, lines and identifiers.
THEOREM LinksAlwaysFollowRotation ==
  ASSUME "SplitsReferredEdge" \in Avoids \/ "NewEdgesSplit" \notin Ops
  PROVE  Spec => []LinksFollowRotation
<1>1. Init => Sound(db) /\ Flat(db) /\ Turning(db)
  BY InitSound, InitFlat, InitTurns
<1>2. Sound(db) /\ Flat(db) /\ Turning(db) /\ [NextCall]_vars => (Sound(db) /\ Flat(db) /\ Turning(db))'
  <2>1. SplitsAreSafe
    BY DEF SplitsAreSafe
  <2> QED BY <2>1, StepSound, StepFlat, StepTurns
<1>3. Sound(db) /\ Flat(db) /\ Turning(db) => LinksFollowRotation
  BY TurningIsClockwise DEF Sound, LinksFollowRotation
<1> QED BY <1>1, <1>2, <1>3, PTL DEF Spec

-----------------------------------------------------------------------------
(* Rings.                                                                  *)

\* The links lead from darts to darts.
Linked(s) ==
  /\ IsFiniteSet(DOMAIN s.edge) /\ DOMAIN s.edge \subseteq Nat \ {0}
  /\ \A x \in DartsOf(s) : Next(s, x) \in DartsOf(s)

\* w is the walk of k steps from d.
IsWalk(s, d, k, w) == w = [i \in 0 .. k |-> IF i = 0 THEN d ELSE Next(s, w[i - 1])]

\* A walk of any length exists: the shortest that did not would be longer by one
\* step than one that does.
LEMMA WalkExists ==
  ASSUME NEW s, NEW d, NEW k \in Nat
  PROVE  \E w : IsWalk(s, d, k, w)
<1> DEFINE walks(m, w) == w = [i \in 0 .. m |-> IF i = 0 THEN d ELSE Next(s, w[i - 1])]
           none == {m \in Nat : ~ \E w : walks(m, w)}
<1>1. none = {}
  <2> SUFFICES ASSUME none # {} PROVE FALSE
    OBVIOUS
  <2>1. PICK m \in none : \A y \in none : m <= y
    BY LeastNumber
  <2>2. CASE m = 0
    <3>1. walks(m, [i \in 0 .. 0 |-> d])
      BY <2>2
    <3> QED BY <2>1, <3>1
  <2>3. CASE m # 0
    <3>0. m \in Nat
      BY <2>1
    <3>1. m - 1 \in Nat /\ ~ (m <= m - 1)
      BY <2>3, <3>0
    <3>2. PICK w : walks(m - 1, w)
      <4>1. m - 1 \notin none
        BY <2>1, <3>1
      <4> QED BY <3>1, <4>1
    <3> DEFINE v == [i \in 0 .. m |-> IF i = m THEN Next(s, w[m - 1]) ELSE w[i]]
    <3>3. \A i \in 0 .. m - 1 : v[i] = w[i]
      BY <3>0
    <3>4. v[m] = Next(s, v[m - 1])
      BY <3>1, <3>3
    <3>5. \A i \in 0 .. m : v[i] = IF i = 0 THEN d ELSE Next(s, v[i - 1])
      <4> SUFFICES ASSUME NEW i \in 0 .. m PROVE v[i] = IF i = 0 THEN d ELSE Next(s, v[i - 1])
        OBVIOUS
      <4>1. CASE i = m
        BY <2>3, <3>4, <4>1
      <4>2. CASE i # m
        <5>1. i \in 0 .. m - 1
          BY <4>2
        <5>2. i # 0 => i - 1 \in 0 .. m - 1
          BY <5>1
        <5>3. w[i] = IF i = 0 THEN d ELSE Next(s, w[i - 1])
          BY <3>2, <5>1
        <5> HIDE DEF v
        <5> QED BY <3>3, <5>1, <5>2, <5>3
      <4> QED BY <4>1, <4>2
    <3>6. v = [i \in 0 .. m |-> v[i]]
      OBVIOUS
    <3> HIDE DEF v
    <3>7. v = [i \in 0 .. m |-> IF i = 0 THEN d ELSE Next(s, v[i - 1])]
      BY <3>5, <3>6
    <3> QED BY <2>1, <3>7
  <2> QED BY <2>2, <2>3
<1> QED BY <1>1 DEF IsWalk

LEMMA RingIsWalked ==
  ASSUME NEW s, IsFiniteSet(DOMAIN s.edge), NEW d
  PROVE  \E w : LET steps == 2 * Cardinality(DOMAIN s.edge)
                IN  /\ steps \in Nat
                    /\ w[0] = d
                    /\ \A i \in 0 .. steps - 1 : w[i + 1] = Next(s, w[i])
                    /\ Ring(s, d) = {w[i] : i \in 0 .. steps}
<1> DEFINE steps == 2 * Cardinality(DOMAIN s.edge)
           step(w) == [i \in 0 .. steps |-> IF i = 0 THEN d ELSE Next(s, w[i - 1])]
           walk == CHOOSE w : w = step(w)
<1>1. steps \in Nat
  BY FS_CardinalityType
<1>2. Ring(s, d) = {walk[i] : i \in 0 .. steps}
  BY DEF Ring
<1> HIDE DEF steps, walk
<1>3. walk = step(walk)
  <2>0. PICK w : IsWalk(s, d, steps, w)
    BY <1>1, WalkExists
  <2>1. w = step(w)
    BY <2>0 DEF IsWalk
  <2> HIDE DEF step
  <2> QED BY <2>1 DEF walk
<1>4. \A i \in 0 .. steps : walk[i] = IF i = 0 THEN d ELSE Next(s, walk[i - 1])
  BY <1>3
<1>5. walk[0] = d
  BY <1>1, <1>4
<1>6. \A i \in 0 .. steps - 1 : walk[i + 1] = Next(s, walk[i])
  BY <1>1, <1>4
<1> QED BY <1>1, <1>2, <1>5, <1>6 DEF steps

\* There are at most two darts for an edge.
LEMMA DartsAreFinite ==
  ASSUME NEW s, Linked(s)
  PROVE  /\ IsFiniteSet(DartsOf(s)) /\ Cardinality(DartsOf(s)) \in Nat
         /\ Cardinality(DartsOf(s)) <= 2 * Cardinality(DOMAIN s.edge)
<1> DEFINE E == DOMAIN s.edge
           back == {-e : e \in E}
           turn == [e \in E |-> -e]
<1>1. IsFiniteSet(E)
  BY DEF Linked
<1>2. turn \in Surjection(E, back)
  BY DEF Surjection
<1> HIDE DEF turn
<1>3. IsFiniteSet(back) /\ Cardinality(back) <= Cardinality(E)
  BY <1>1, <1>2, FS_Surjection
<1>4. DartsOf(s) = E \cup back
  BY DEF DartsOf
<1> HIDE DEF E, back
<1>5. /\ IsFiniteSet(E \cup back)
      /\ Cardinality(E \cup back) = Cardinality(E) + Cardinality(back) - Cardinality(E \cap back)
  BY <1>1, <1>3, FS_Union
<1>6. IsFiniteSet(E \cap back)
  BY <1>1, FS_Intersection
<1>7. /\ Cardinality(E) \in Nat /\ Cardinality(back) \in Nat /\ Cardinality(E \cap back) \in Nat
      /\ Cardinality(E \cup back) \in Nat
  BY <1>1, <1>3, <1>5, <1>6, FS_CardinalityType
<1>8. Cardinality(E \cup back) <= 2 * Cardinality(E)
  BY <1>3, <1>5, <1>7
<1> QED BY <1>4, <1>5, <1>7, <1>8 DEF E

\* getRingEdges walks as long as needed: the ring of a dart is the least set with
\* the dart that the links do not leave.
LEMMA RingIsLeast ==
  ASSUME NEW s, Linked(s), NEW d \in DartsOf(s)
  PROVE  /\ d \in Ring(s, d) /\ Ring(s, d) \subseteq DartsOf(s)
         /\ \A x \in Ring(s, d) : Next(s, x) \in Ring(s, d)
         /\ \A S : /\ d \in S
                   /\ \A x \in DartsOf(s) \cap S : Next(s, x) \in S
                   => Ring(s, d) \subseteq S
<1> DEFINE n == 2 * Cardinality(DOMAIN s.edge)
<1>1. PICK w : /\ n \in Nat
               /\ w[0] = d
               /\ \A i \in 0 .. n - 1 : w[i + 1] = Next(s, w[i])
               /\ Ring(s, d) = {w[i] : i \in 0 .. n}
  BY RingIsWalked DEF Linked
<1> HIDE DEF n
<1>2. ASSUME NEW S, d \in S, \A x \in DartsOf(s) \cap S : Next(s, x) \in S
      PROVE  Ring(s, d) \subseteq S \cap DartsOf(s)
  <2> DEFINE out == {i \in 0 .. n : w[i] \notin S \cap DartsOf(s)}
  <2>1. out = {}
    <3> SUFFICES ASSUME out # {} PROVE FALSE
      OBVIOUS
    <3>1. PICK k \in out : \A y \in out : k <= y
      <4>1. out \in SUBSET Nat
        OBVIOUS
      <4> HIDE DEF out
      <4> QED BY <4>1, LeastNumber
    <3>2. k # 0
      BY <1>1, <1>2
    <3>3. k - 1 \in 0 .. n - 1 /\ k - 1 \notin out /\ k - 1 \in 0 .. n /\ (k - 1) + 1 = k
      BY <1>1, <3>1, <3>2
    <3>4. w[k] = Next(s, w[k - 1]) /\ w[k - 1] \in S \cap DartsOf(s)
      BY <1>1, <3>3
    <3>5. w[k] \in S \cap DartsOf(s)
      BY <1>2, <3>4 DEF Linked
    <3> QED BY <3>1, <3>5
  <2> QED BY <1>1, <2>1
<1>3. d \in Ring(s, d)
  BY <1>1
<1>4. Ring(s, d) \subseteq DartsOf(s)
  BY <1>2 DEF Linked
<1>5. Next(s, w[n]) \in Ring(s, d)
  <2> SUFFICES ASSUME Next(s, w[n]) \notin Ring(s, d) PROVE FALSE
    OBVIOUS
  <2>1. ASSUME NEW i \in 0 .. n, NEW j \in 0 .. n, i < j, w[i] = w[j]
        PROVE  FALSE
    <3> DEFINE apart == {m \in 0 .. n - j : w[i + m] # w[j + m]}
    <3>1. apart = {}
      <4> SUFFICES ASSUME apart # {} PROVE FALSE
        OBVIOUS
      <4>1. PICK m \in apart : \A y \in apart : m <= y
        <5>1. apart \in SUBSET Nat
          BY <1>1
        <5> HIDE DEF apart
        <5> QED BY <5>1, LeastNumber
      <4>2. m # 0
        BY <2>1
      <4>3. m - 1 \in 0 .. n - j /\ m - 1 \notin apart
        <5>1. m \in 0 .. n - j
          BY <4>1
        <5>2. m - 1 \in 0 .. n - j /\ ~ (m <= m - 1)
          BY <1>1, <4>2, <5>1
        <5> HIDE DEF apart
        <5> QED BY <4>1, <5>2
      <4>4. w[i + (m - 1)] = w[j + (m - 1)]
        BY <4>3
      <4>5. /\ i + (m - 1) \in 0 .. n - 1 /\ j + (m - 1) \in 0 .. n - 1
            /\ (i + (m - 1)) + 1 = i + m /\ (j + (m - 1)) + 1 = j + m
        BY <1>1, <2>1, <4>1, <4>2
      <4>6. w[i + m] = w[j + m]
        BY <1>1, <4>4, <4>5
      <4> QED BY <4>1, <4>6
    <3>2. n - j \in 0 .. n - j /\ j + (n - j) = n
      BY <1>1
    <3>3. w[i + (n - j)] = w[n]
      BY <3>1, <3>2
    <3>4. i + (n - j) \in 0 .. n - 1 /\ (i + (n - j)) + 1 \in 0 .. n
      BY <1>1, <2>1
    <3>5. Next(s, w[n]) = w[(i + (n - j)) + 1]
      BY <1>1, <3>3, <3>4
    <3> QED BY <1>1, <3>4, <3>5
  <2>2. \A i, j \in 0 .. n : w[i] = w[j] => i = j
    <3> SUFFICES ASSUME NEW i \in 0 .. n, NEW j \in 0 .. n, w[i] = w[j], i # j PROVE FALSE
      OBVIOUS
    <3>1. i < j \/ j < i
      BY <1>1
    <3> QED BY <2>1, <3>1
  <2> DEFINE seen == [i \in 0 .. n |-> w[i]]
  <2>3. seen \in [0 .. n -> DartsOf(s)] /\ \A i, j \in 0 .. n : seen[i] = seen[j] => i = j
    BY <1>1, <1>4, <2>2
  <2>4. seen \in Injection(0 .. n, DartsOf(s))
    BY <2>3 DEF Injection, IsInjective
  <2> HIDE DEF seen
  <2>5. Cardinality(0 .. n) = n + 1
    BY <1>1, FS_Interval
  <2>6. Cardinality(0 .. n) <= Cardinality(DartsOf(s))
    BY <2>4, DartsAreFinite, FS_Injection
  <2> QED BY <1>1, <2>5, <2>6, DartsAreFinite DEF n
<1>6. ASSUME NEW x \in Ring(s, d) PROVE Next(s, x) \in Ring(s, d)
  <2>1. PICK i \in 0 .. n : x = w[i]
    BY <1>1
  <2>2. CASE i = n
    BY <1>5, <2>1, <2>2
  <2>3. CASE i # n
    <3>1. i \in 0 .. n - 1 /\ i + 1 \in 0 .. n
      BY <1>1, <2>3
    <3> QED BY <1>1, <2>1, <3>1
  <2> QED BY <2>2, <2>3
<1> QED BY <1>2, <1>3, <1>4, <1>6

LEMMA TurningIsLinked ==
  ASSUME NEW s, Typed(s), Flat(s), Turning(s), IsFiniteSet(DOMAIN s.edge)
  PROVE  Linked(s)
<1>1. DOMAIN s.edge \subseteq Nat \ {0}
  BY IdentifiersArePositive DEF Typed, IsTopology
<1> QED BY <1>1, NextStartsThere DEF Linked

\* No two darts go on with the same one.
LEMMA NextIsInjective ==
  ASSUME NEW s, Typed(s), Flat(s), Turning(s),
         NEW x \in DartsOf(s), NEW y \in DartsOf(s), Next(s, x) = Next(s, y)
  PROVE  x = y
<1> DEFINE z == Next(s, x)
           n == Origin(s, z)
<1>1. /\ z \in DartsAt(s, Target(s, x)) /\ z \in DartsAt(s, Target(s, y)) /\ z \in DartsOf(s)
  BY NextStartsThere
<1>2. Target(s, x) = n /\ Target(s, y) = n
  BY <1>1 DEF DartsAt
<1>3. /\ -x \in DartsOf(s) /\ -y \in DartsOf(s) /\ -(-x) = x /\ -(-y) = y
      /\ Origin(s, -x) = n /\ Origin(s, -y) = n
  BY <1>2, DartIsSigned DEF Target
<1>4. n \in DOMAIN s.node
  BY <1>1, DartDrawn
<1>5. /\ -x \in DartsAt(s, n) /\ -y \in DartsAt(s, n) /\ z \in DartsAt(s, n)
      /\ DOMAIN Star(s, n) = DartsAt(s, n)
  BY <1>1, <1>2, <1>3 DEF DartsAt, Star
<1>6. Links(s, n)[-x] = z /\ Links(s, n)[-y] = z
  BY <1>3, <1>5 DEF Links
<1>7. Rotation(Star(s, n), Links(s, n))
  BY <1>4 DEF Turning
<1>8. Follows(Star(s, n), -x, z) /\ Follows(Star(s, n), -y, z)
  BY <1>5, <1>6, <1>7 DEF Rotation
<1>9. Cyclic(Star(s, n))
  BY <1>4, EndsAreSpread, SpreadIsCyclic
<1>10. -x = -y
  BY <1>5, <1>8, <1>9, FollowedIsOne
<1> QED BY <1>3, <1>10

\* A ring is the same from wherever it is walked.  A dart that were on the ring of
\* d without leading back to it would be entered from outside as well as from its
\* own ring, which the links, being injective, map onto itself.
RingsAreCycles(s) ==
  \A d \in DartsOf(s) : \A c \in Ring(s, d) : Ring(s, c) = Ring(s, d)

LEMMA RingsComeBack ==
  ASSUME NEW s, Typed(s), Flat(s), Turning(s), IsFiniteSet(DOMAIN s.edge)
  PROVE  RingsAreCycles(s)
<1> SUFFICES ASSUME NEW d \in DartsOf(s), NEW c \in Ring(s, d)
             PROVE  Ring(s, c) = Ring(s, d)
  BY DEF RingsAreCycles
<1>1. Linked(s)
  BY TurningIsLinked
<1>2. /\ d \in Ring(s, d) /\ Ring(s, d) \subseteq DartsOf(s)
      /\ \A x \in Ring(s, d) : Next(s, x) \in Ring(s, d)
      /\ \A S : d \in S /\ (\A x \in DartsOf(s) \cap S : Next(s, x) \in S) => Ring(s, d) \subseteq S
  BY <1>1, RingIsLeast
<1>3. c \in DartsOf(s)
  BY <1>2
<1>4. /\ c \in Ring(s, c) /\ Ring(s, c) \subseteq DartsOf(s)
      /\ \A x \in Ring(s, c) : Next(s, x) \in Ring(s, c)
      /\ \A S : c \in S /\ (\A x \in DartsOf(s) \cap S : Next(s, x) \in S) => Ring(s, c) \subseteq S
  BY <1>1, <1>3, RingIsLeast
<1>5. Ring(s, c) \subseteq Ring(s, d)
  BY <1>2, <1>4
<1>6. d \in Ring(s, c)
  <2> SUFFICES ASSUME d \notin Ring(s, c) PROVE FALSE
    OBVIOUS
  <2> DEFINE next == [x \in Ring(s, c) |-> Next(s, x)]
             rest == DartsOf(s) \ Ring(s, c)
  <2>1. next \in Injection(Ring(s, c), Ring(s, c))
    <3>1. next \in [Ring(s, c) -> Ring(s, c)]
      BY <1>4
    <3>2. \A x, y \in Ring(s, c) : next[x] = next[y] => x = y
      BY <1>4, NextIsInjective
    <3> HIDE DEF next
    <3> QED BY <3>1, <3>2 DEF Injection, IsInjective
  <2>2. IsFiniteSet(Ring(s, c))
    BY <1>1, <1>4, DartsAreFinite, FS_Subset
  <2>3. next \in Surjection(Ring(s, c), Ring(s, c))
    <3> HIDE DEF next
    <3> QED BY <2>1, <2>2, FS_Injection
  <2>4. \A z \in Ring(s, c) : \E y \in Ring(s, c) : Next(s, y) = z
    BY <2>3 DEF Surjection
  <2>5. ASSUME NEW x \in rest PROVE Next(s, x) \in rest
    <3>1. Next(s, x) \in DartsOf(s)
      BY <1>1, <2>5 DEF Linked
    <3>2. ASSUME Next(s, x) \in Ring(s, c) PROVE FALSE
      <4>1. PICK y \in Ring(s, c) : Next(s, y) = Next(s, x)
        BY <2>4, <3>2
      <4>2. y = x
        BY <1>4, <2>5, <4>1, NextIsInjective
      <4> QED BY <2>5, <4>1, <4>2
    <3> QED BY <3>1, <3>2
  <2>6. d \in rest /\ \A x \in DartsOf(s) \cap rest : Next(s, x) \in rest
    BY <2>5
  <2> HIDE DEF rest
  <2>7. Ring(s, d) \subseteq rest
    BY <1>2, <2>6
  <2> QED BY <1>4, <2>7 DEF rest
<1>7. Ring(s, d) \subseteq Ring(s, c)
  BY <1>4, <1>6, <1>2
<1> QED BY <1>5, <1>7

\* Rings are made of links: relabelled faces do not change them.
LEMMA SameLinksSameRings ==
  ASSUME NEW s, Linked(s), NEW t, SameLinks(s, t), NEW d \in DartsOf(s)
  PROVE  Ring(t, d) = Ring(s, d)
<1>1. DartsOf(t) = DartsOf(s) /\ DOMAIN t.edge = DOMAIN s.edge
  BY DEF SameLinks, DartsOf
<1>2. ASSUME NEW x \in DartsOf(s) PROVE Next(t, x) = Next(s, x)
  <2>1. CASE x > 0
    <3>1. x \in DOMAIN s.edge
      BY <2>1 DEF DartsOf, Linked
    <3> QED BY <2>1, <3>1 DEF Next, SameLinks
  <2>2. CASE ~ (x > 0)
    <3>1. -x \in DOMAIN s.edge
      BY <2>2 DEF DartsOf, Linked
    <3> QED BY <2>2, <3>1 DEF Next, SameLinks
  <2> QED BY <2>1, <2>2
<1>3. Linked(t)
  BY <1>1, <1>2 DEF Linked
<1>4. Ring(t, d) \subseteq Ring(s, d)
  BY <1>1, <1>2, <1>3, RingIsLeast
<1>5. Ring(s, d) \subseteq Ring(t, d)
  BY <1>1, <1>2, <1>3, RingIsLeast
<1> QED BY <1>4, <1>5

-----------------------------------------------------------------------------
(* The edge table is finite: a call adds two rows at most.                 *)

FewMore(s, t) == \E a, b : DOMAIN t.edge \subseteq DOMAIN s.edge \cup {a, b}

LEMMA FewMoreIsFinite ==
  ASSUME NEW s, IsFiniteSet(DOMAIN s.edge), NEW t, FewMore(s, t)
  PROVE  IsFiniteSet(DOMAIN t.edge)
<1>1. PICK a, b : DOMAIN t.edge \subseteq DOMAIN s.edge \cup {a, b}
  BY DEF FewMore
<1>2. IsFiniteSet(DOMAIN s.edge \cup {a})
  BY FS_AddElement
<1>3. IsFiniteSet((DOMAIN s.edge \cup {a}) \cup {b})
  BY <1>2, FS_AddElement
<1>4. (DOMAIN s.edge \cup {a}) \cup {b} = DOMAIN s.edge \cup {a, b}
  OBVIOUS
<1> QED BY <1>1, <1>3, <1>4, FS_Subset

LEMMA NodesAddFew ==
  ASSUME NEW s, Typed(s)
  PROVE  /\ \A n, f, p : FewMore(s, WithNode(s, n, f, p))
         /\ \A n : FewMore(s, WithoutNode(s, n))
         /\ \A n, p : FewMore(s, MoveIsoNode(s, n, p))
         /\ \A e, g : FewMore(s, ChangeEdgeGeom(s, e, g))
<1>1. \A n, f, p : WithNode(s, n, f, p).edge = s.edge
  BY DEF WithNode, Typed, Tables
<1>2. \A n : WithoutNode(s, n).edge = s.edge
  BY DEF WithoutNode, Typed, Tables
<1>3. \A n, p : MoveIsoNode(s, n, p).edge = s.edge
  BY DEF MoveIsoNode, Typed, Tables
<1>4. \A e, g : ChangeEdgeGeom(s, e, g).edge = s.edge
  BY DEF ChangeEdgeGeom, Typed, Tables
<1> QED BY <1>1, <1>2, <1>3, <1>4 DEF FewMore

LEMMA EdgesAddFew ==
  ASSUME NEW s, Typed(s)
  PROVE  /\ \A n1, n2, g, e : FewMore(s, AddIsoEdge(s, n1, n2, g, e))
         /\ \A e : FewMore(s, RemIsoEdge(s, e))
         /\ \A n1, n2, g, f, a1, a2, e : FewMore(s, LinkEdge(s, n1, n2, g, f, a1, a2, e))
         /\ \A e, modFace, nf : FewMore(s, RemEdge(s, e, modFace, nf))
<1>1. ASSUME NEW n1, NEW n2, NEW g, NEW e
      PROVE  FewMore(s, AddIsoEdge(s, n1, n2, g, e))
  <2>1. DOMAIN AddIsoEdge(s, n1, n2, g, e).edge = DOMAIN s.edge \cup {e}
    BY DEF AddIsoEdge, WithContainingFace, WithEdge, WithRow, Typed, Tables
  <2> QED BY <2>1 DEF FewMore
<1>2. ASSUME NEW e PROVE FewMore(s, RemIsoEdge(s, e))
  <2>1. DOMAIN RemIsoEdge(s, e).edge \subseteq DOMAIN s.edge
    BY DEF RemIsoEdge, WithContainingFace, WithoutEdges, WithoutRows, Typed, Tables
  <2> QED BY <2>1 DEF FewMore
<1>3. ASSUME NEW n1, NEW n2, NEW g, NEW f, NEW a1, NEW a2, NEW e
      PROVE  FewMore(s, LinkEdge(s, n1, n2, g, f, a1, a2, e))
  <2>1. DOMAIN LinkEdge(s, n1, n2, g, f, a1, a2, e).edge = DOMAIN s.edge \cup {e}
    BY DEF LinkEdge, WithContainingFace, WithEdge, WithRow, Typed, Tables
  <2> QED BY <2>1 DEF FewMore
<1>4. ASSUME NEW e, NEW modFace, NEW nf PROVE FewMore(s, RemEdge(s, e, modFace, nf))
  <2> DEFINE row    == s.edge[e]
             flood  == FloodFace(s, e, modFace, nf)
             cut    == UnlinkEdge(s, e)
             healed == HealFaces(cut, row.face_left, row.face_right, flood)
  <2>1. DOMAIN cut = Tables /\ DOMAIN cut.edge = DOMAIN s.edge
    BY DEF UnlinkEdge, Typed, Tables
  <2> HIDE DEF cut, row, flood
  <2>2. DOMAIN healed = Tables /\ DOMAIN healed.edge = DOMAIN s.edge
    BY <2>1 DEF HealFaces, ReplaceFace, TopoGeomFaceHeal, Tables
  <2>3. RemEdge(s, e, modFace, nf) = WithContainingFace(WithoutEdges(healed, {e}), LonelyEnds(s, e), flood)
    BY DEF RemEdge, cut, row, flood
  <2> HIDE DEF healed
  <2>4. DOMAIN RemEdge(s, e, modFace, nf).edge \subseteq DOMAIN s.edge
    BY <2>2, <2>3 DEF WithContainingFace, WithoutEdges, WithoutRows, Tables
  <2> QED BY <2>4 DEF FewMore
<1> QED BY <1>1, <1>2, <1>3, <1>4

LEMMA SplitsAndHealsAddFew ==
  ASSUME NEW s, Typed(s)
  PROVE  /\ \A e, p, n, e2 : FewMore(s, ModEdgeSplit(s, e, p, n, e2))
         /\ \A e, p, n, e1, e2 : FewMore(s, NewEdgesSplit(s, e, p, n, e1, e2))
         /\ \A e1, e2, m, into : FewMore(s, HealEdges(s, e1, e2, m, into))
<1>1. ASSUME NEW e, NEW p, NEW n, NEW e2 PROVE FewMore(s, ModEdgeSplit(s, e, p, n, e2))
  <2>1. DOMAIN ModEdgeSplit(s, e, p, n, e2).edge = DOMAIN s.edge \cup {e2}
    BY DEF ModEdgeSplit, WithNode, WithRow, Typed, Tables
  <2> QED BY <2>1 DEF FewMore
<1>2. ASSUME NEW e, NEW p, NEW n, NEW e1, NEW e2
      PROVE  FewMore(s, NewEdgesSplit(s, e, p, n, e1, e2))
  <2>1. DOMAIN NewEdgesSplit(s, e, p, n, e1, e2).edge = ((DOMAIN s.edge \ {e}) \cup {e1}) \cup {e2}
    BY DEF NewEdgesSplit, WithNode, WithRow, WithoutRows, Typed, Tables
  <2> QED BY <2>1 DEF FewMore
<1>3. ASSUME NEW e1, NEW e2, NEW m, NEW into PROVE FewMore(s, HealEdges(s, e1, e2, m, into))
  <2>1. DOMAIN HealEdges(s, e1, e2, m, into).edge = (DOMAIN s.edge \cup {into}) \ ({e1, e2} \ {into})
    BY DEF HealEdges, WithoutNode, WithoutEdges, WithRow, WithoutRows, Typed, Tables
  <2> QED BY <2>1 DEF FewMore
<1> QED BY <1>1, <1>2, <1>3

LEMMA AddEdgeAddsFew ==
  ASSUME NEW s, Sound(s), NEW n1 \in DOMAIN s.node, NEW n2 \in DOMAIN s.node,
         NEW g, NEW f \in Faces,
         NEW a1 \in StartEnds(s, n1, n2, g), NEW a2 \in EndEnds(s, n1, n2, g),
         NEW e \in EdgeIds \ DOMAIN s.edge, NEW nf \in FaceIds, NEW other \in FaceIds
  PROVE  /\ FewMore(s, AddEdgeModFace(s, n1, n2, g, f, a1, a2, e, nf, other))
         /\ FewMore(s, AddEdgeNewFaces(s, n1, n2, g, f, a1, a2, e, nf, other))
<1> DEFINE t == LinkEdge(s, n1, n2, g, f, a1, a2, e)
<1>1. /\ a1.cw \in DartsAt(s, n1) \cup {0} /\ a2.cw \in DartsAt(s, n2) \cup {0}
  BY AdjacentEndsAreEnds DEF StartEnds, EndEnds
<1>2. Typed(t) /\ FewMore(s, t)
  BY <1>1, LinkEdgeSound, EdgesAddFew DEF Sound
<1>3. /\ AddEdgeModFace(s, n1, n2, g, f, a1, a2, e, nf, other) \in {t, SplitModFace(t, e, f, nf, other)}
      /\ AddEdgeNewFaces(s, n1, n2, g, f, a1, a2, e, nf, other) \in {t, SplitNewFaces(t, e, f, nf, other)}
  BY DEF AddEdgeModFace, AddEdgeNewFaces
<1> HIDE DEF t
<1>4. /\ DOMAIN SplitModFace(t, e, f, nf, other).edge = DOMAIN t.edge
      /\ DOMAIN SplitNewFaces(t, e, f, nf, other).edge = DOMAIN t.edge
  BY <1>2, SplitModFaceKeepsLinks, SplitNewFacesKeepsLinks DEF SameLinks
<1> QED BY <1>2, <1>3, <1>4 DEF FewMore

LEMMA CommitAddsFew ==
  ASSUME NEW t, FewMore(db, t), Commit(t)
  PROVE  FewMore(db, db')
<1> DEFINE u == db'
<1>1. u.edge = t.edge
  BY DEF Commit, db
<1> HIDE DEF u
<1>2. FewMore(db, u)
  BY <1>1 DEF FewMore
<1> QED BY <1>2 DEF u

LEMMA StepAddsFew ==
  ASSUME Sound(db), [NextCall]_vars
  PROVE  FewMore(db, db')
<1> USE TablesOfDb
<1>a. Typed(db)
  BY DEF Sound
<1>1. CASE rtt_AddIsoNode
  <2>1. PICK p \in Sites, face \in Faces \cup {-1} :
          \E n \in NewNodeId(p) : Commit(AddIsoNode(db, face, p, n))
    BY <1>1 DEF rtt_AddIsoNode
  <2>2. \A n : FewMore(db, AddIsoNode(db, face, p, n))
    BY <1>a, NodesAddFew DEF AddIsoNode
  <2> QED BY <2>1, <2>2, CommitAddsFew
<1>2. CASE rtt_MoveIsoNode
  <2>1. PICK n \in DOMAIN node, p \in Sites : Commit(MoveIsoNode(db, n, p))
    BY <1>2 DEF rtt_MoveIsoNode
  <2>2. FewMore(db, MoveIsoNode(db, n, p))
    BY <1>a, NodesAddFew
  <2> QED BY <2>1, <2>2, CommitAddsFew
<1>3. CASE rtt_RemoveIsoNode
  <2>1. PICK n \in DOMAIN node : Commit(WithoutNode(db, n))
    BY <1>3 DEF rtt_RemoveIsoNode
  <2>2. FewMore(db, WithoutNode(db, n))
    BY <1>a, NodesAddFew
  <2> QED BY <2>1, <2>2, CommitAddsFew
<1>4. CASE rtt_AddIsoEdge
  <2>1. PICK n1 \in DOMAIN node, n2 \in DOMAIN node, g \in Curves :
          \E e \in NewEdgeId(g, {}) : Commit(AddIsoEdge(db, n1, n2, g, e))
    BY <1>4 DEF rtt_AddIsoEdge
  <2>2. \A e : FewMore(db, AddIsoEdge(db, n1, n2, g, e))
    BY <1>a, EdgesAddFew
  <2> QED BY <2>1, <2>2, CommitAddsFew
<1>5. CASE rtt_RemIsoEdge
  <2>1. PICK e \in DOMAIN edge : Commit(RemIsoEdge(db, e))
    BY <1>5 DEF rtt_RemIsoEdge
  <2>2. FewMore(db, RemIsoEdge(db, e))
    BY <1>a, EdgesAddFew
  <2> QED BY <2>1, <2>2, CommitAddsFew
<1>6. CASE rtt_ModEdgeSplit
  <2>1. PICK e \in DOMAIN edge, p \in Sites :
          \E n \in NewNodeId(p), e2 \in NewEdgeId(TailFrom(line[e], p), {}) :
            Commit(ModEdgeSplit(db, e, p, n, e2))
    BY <1>6 DEF rtt_ModEdgeSplit
  <2>2. \A n, e2 : FewMore(db, ModEdgeSplit(db, e, p, n, e2))
    BY <1>a, SplitsAndHealsAddFew
  <2> QED BY <2>1, <2>2, CommitAddsFew
<1>7. CASE rtt_NewEdgesSplit
  <2>1. PICK e \in DOMAIN edge, p \in Sites :
          \E n \in NewNodeId(p), e1 \in NewEdgeId(HeadUpTo(line[e], p), {}) :
            \E e2 \in NewEdgeId(TailFrom(line[e], p), {e1}) :
              Commit(NewEdgesSplit(db, e, p, n, e1, e2))
    BY <1>7 DEF rtt_NewEdgesSplit
  <2>2. \A n, e1, e2 : FewMore(db, NewEdgesSplit(db, e, p, n, e1, e2))
    BY <1>a, SplitsAndHealsAddFew
  <2> QED BY <2>1, <2>2, CommitAddsFew
<1>8. CASE rtt_AddEdgeModFace
  <2>1. PICK n1 \in DOMAIN node, n2 \in DOMAIN node, g \in Curves :
          \E a1 \in StartEnds(db, n1, n2, g), a2 \in EndEnds(db, n1, n2, g),
             e \in NewEdgeId(g, {}), nf \in NewFaceId({}) :
          \E spare \in NewFaceId({nf}) :
            LET f == NewEdgeFace(db, n1, n2, a1, a2)
            IN  f # -1 /\ Commit(AddEdgeModFace(db, n1, n2, g, f, a1, a2, e, nf, spare))
    BY <1>8 DEF rtt_AddEdgeModFace
  <2>2. PICK a1 \in StartEnds(db, n1, n2, g), a2 \in EndEnds(db, n1, n2, g),
             e \in NewEdgeId(g, {}), nf \in NewFaceId({}) :
          \E spare \in NewFaceId({nf}) :
            LET f == NewEdgeFace(db, n1, n2, a1, a2)
            IN  f # -1 /\ Commit(AddEdgeModFace(db, n1, n2, g, f, a1, a2, e, nf, spare))
    BY <2>1
  <2> DEFINE f == NewEdgeFace(db, n1, n2, a1, a2)
  <2>3. PICK spare \in NewFaceId({nf}) :
          f # -1 /\ Commit(AddEdgeModFace(db, n1, n2, g, f, a1, a2, e, nf, spare))
    BY <2>2
  <2>4. e \in EdgeIds \ DOMAIN db.edge /\ nf \in FaceIds /\ spare \in FaceIds
    BY NewIdentifiersAreFree
  <2>5. /\ a1.cw \in DartsAt(db, n1) \cup {0} /\ a1.ccw \in DartsAt(db, n1) \cup {0}
        /\ a2.cw \in DartsAt(db, n2) \cup {0}
    BY AdjacentEndsAreEnds DEF StartEnds, EndEnds
  <2>6. f \in Faces
    BY <1>a, <2>3, <2>5, NewEdgeFaceTyped
  <2> HIDE DEF f
  <2>7. FewMore(db, AddEdgeModFace(db, n1, n2, g, f, a1, a2, e, nf, spare))
    BY <2>4, <2>6, AddEdgeAddsFew
  <2> QED BY <2>3, <2>7, CommitAddsFew
<1>9. CASE rtt_AddEdgeNewFaces
  <2>1. PICK n1 \in DOMAIN node, n2 \in DOMAIN node, g \in Curves :
          \E a1 \in StartEnds(db, n1, n2, g), a2 \in EndEnds(db, n1, n2, g),
             e \in NewEdgeId(g, {}), nf1 \in NewFaceId({}) :
          \E nf \in NewFaceId({nf1}) :
            LET f == NewEdgeFace(db, n1, n2, a1, a2)
            IN  f # -1 /\ Commit(AddEdgeNewFaces(db, n1, n2, g, f, a1, a2, e, nf, nf1))
    BY <1>9 DEF rtt_AddEdgeNewFaces
  <2>2. PICK a1 \in StartEnds(db, n1, n2, g), a2 \in EndEnds(db, n1, n2, g),
             e \in NewEdgeId(g, {}), nf1 \in NewFaceId({}) :
          \E nf \in NewFaceId({nf1}) :
            LET f == NewEdgeFace(db, n1, n2, a1, a2)
            IN  f # -1 /\ Commit(AddEdgeNewFaces(db, n1, n2, g, f, a1, a2, e, nf, nf1))
    BY <2>1
  <2> DEFINE f == NewEdgeFace(db, n1, n2, a1, a2)
  <2>3. PICK nf \in NewFaceId({nf1}) :
          f # -1 /\ Commit(AddEdgeNewFaces(db, n1, n2, g, f, a1, a2, e, nf, nf1))
    BY <2>2
  <2>4. e \in EdgeIds \ DOMAIN db.edge /\ nf \in FaceIds /\ nf1 \in FaceIds
    BY NewIdentifiersAreFree
  <2>5. /\ a1.cw \in DartsAt(db, n1) \cup {0} /\ a1.ccw \in DartsAt(db, n1) \cup {0}
        /\ a2.cw \in DartsAt(db, n2) \cup {0}
    BY AdjacentEndsAreEnds DEF StartEnds, EndEnds
  <2>6. f \in Faces
    BY <1>a, <2>3, <2>5, NewEdgeFaceTyped
  <2> HIDE DEF f
  <2>7. FewMore(db, AddEdgeNewFaces(db, n1, n2, g, f, a1, a2, e, nf, nf1))
    BY <2>4, <2>6, AddEdgeAddsFew
  <2> QED BY <2>3, <2>7, CommitAddsFew
<1>10. CASE rtt_RemEdgeModFace
  <2>1. PICK e \in DOMAIN edge : Commit(RemEdge(db, e, TRUE, Universe))
    BY <1>10 DEF rtt_RemEdgeModFace
  <2>2. FewMore(db, RemEdge(db, e, TRUE, Universe))
    BY <1>a, EdgesAddFew
  <2> QED BY <2>1, <2>2, CommitAddsFew
<1>11. CASE rtt_RemEdgeNewFace
  <2>1. PICK e \in DOMAIN edge, nf \in NewFaceId({}) : Commit(RemEdge(db, e, FALSE, nf))
    BY <1>11 DEF rtt_RemEdgeNewFace
  <2>2. FewMore(db, RemEdge(db, e, FALSE, nf))
    BY <1>a, EdgesAddFew
  <2> QED BY <2>1, <2>2, CommitAddsFew
<1>12. CASE rtt_ModEdgeHeal
  <2>1. PICK e1 \in DOMAIN edge, e2 \in DOMAIN edge :
          \E m \in Meeting(db, e1, e2) : Commit(HealEdges(db, e1, e2, m, e1))
    BY <1>12 DEF rtt_ModEdgeHeal
  <2>2. \A m : FewMore(db, HealEdges(db, e1, e2, m, e1))
    BY <1>a, SplitsAndHealsAddFew
  <2> QED BY <2>1, <2>2, CommitAddsFew
<1>13. CASE rtt_NewEdgeHeal
  <2>1. PICK e1 \in DOMAIN edge, e2 \in DOMAIN edge :
          \E m \in Meeting(db, e1, e2) : \E e \in NewEdgeId(HealedLine(db, m), {}) :
            Commit(HealEdges(db, e1, e2, m, e))
    BY <1>13 DEF rtt_NewEdgeHeal
  <2>2. \A m, e : FewMore(db, HealEdges(db, e1, e2, m, e))
    BY <1>a, SplitsAndHealsAddFew
  <2> QED BY <2>1, <2>2, CommitAddsFew
<1>14. CASE rtt_ChangeEdgeGeom
  <2>1. PICK e \in DOMAIN edge, g \in Curves : Commit(ChangeEdgeGeom(db, e, g))
    BY <1>14 DEF rtt_ChangeEdgeGeom
  <2>2. FewMore(db, ChangeEdgeGeom(db, e, g))
    BY <1>a, NodesAddFew
  <2> QED BY <2>1, <2>2, CommitAddsFew
<1>15. CASE CreateArealTopoGeom \/ CreateLinealTopoGeom \/ UNCHANGED vars
  <2>1. edge' = edge
    BY <1>15 DEF CreateArealTopoGeom, CreateLinealTopoGeom, vars
  <2>2. DOMAIN db'.edge = DOMAIN db.edge
    BY <2>1 DEF db
  <2> QED BY <2>2 DEF FewMore
<1> QED BY <1>1, <1>2, <1>3, <1>4, <1>5, <1>6, <1>7, <1>8, <1>9, <1>10, <1>11, <1>12,
           <1>13, <1>14, <1>15 DEF NextCall

LEMMA InitFinite == Init => IsFiniteSet(DOMAIN db.edge)
<1> SUFFICES ASSUME Init PROVE IsFiniteSet(DOMAIN db.edge)
  OBVIOUS
<1>1. DOMAIN db.edge = {}
  BY TablesOfDb DEF Init, EmptyTable
<1> QED BY <1>1, FS_EmptySet

LEMMA StepFinite ==
  Sound(db) /\ IsFiniteSet(DOMAIN db.edge) /\ [NextCall]_vars => IsFiniteSet(DOMAIN db.edge)'
<1> SUFFICES ASSUME Sound(db), IsFiniteSet(DOMAIN db.edge), [NextCall]_vars
             PROVE  IsFiniteSet(DOMAIN db.edge)'
  OBVIOUS
<1> DEFINE u == db'
<1>1. FewMore(db, u)
  BY StepAddsFew
<1> HIDE DEF u
<1>2. IsFiniteSet(DOMAIN u.edge)
  BY <1>1, FewMoreIsFinite
<1> QED BY <1>2 DEF u

\* What getRingEdges returns does not depend on the dart it starts with: however
\* the links were patched, the walk comes back to its start, and two walks have
\* all darts in common or none.
THEOREM RingsAreAlwaysCycles ==
  ASSUME SplitsAreSafe
  PROVE  Spec => []RingsAreCycles(db)
<1> DEFINE Inv == Sound(db) /\ Flat(db) /\ Turning(db) /\ IsFiniteSet(DOMAIN db.edge)
<1>1. Init => Inv
  BY InitSound, InitFlat, InitTurns, InitFinite
<1>2. Inv /\ [NextCall]_vars => Inv'
  BY StepSound, StepFlat, StepTurns, StepFinite
<1>3. Inv => RingsAreCycles(db)
  BY RingsComeBack DEF Sound
<1> QED BY <1>1, <1>2, <1>3, PTL DEF Spec
================================================================================
