-------------------------------- MODULE GeoSplit -------------------------------
(***************************************************************************)
(* Package geo: Split cuts the polygons of a feature collection along a    *)
(* grid, again and again until the pieces are small or the depth is        *)
(* reached.                                                                *)
(*                                                                         *)
(* Coordinates are whole numbers, none negative, of a grid finer than the   *)
(* 1e-7 that round() keeps: Grain of them make 1e-7.  A polygon is the set   *)
(* of unit squares, named by their lower left corners, that it covers, a    *)
(* slanted edge being a stair; it has a coordinate at each step of its      *)
(* outline.  Degenerate polygons and errors of floating-point addition are  *)
(* left out.                                                               *)
(***************************************************************************)
EXTENDS Integers, FiniteSetsExt

CONSTANTS
  Few,       \* a polygon with fewer coordinates is not split (200 in the code)
  Grain       \* how many units the 1e-7 of round() has

ASSUME GrainAssumption == Grain \in Nat \ {0}

Sides(c) == { <<c[1] - 1, c[2]>>, <<c[1] + 1, c[2]>>, <<c[1], c[2] - 1>>, <<c[1], c[2] + 1>> }

getCoordCount(p) == 1 + MapThenSumSet(LAMBDA c : Cardinality(Sides(c) \ p), p)

(* n / d to the nearest multiple of Grain, as the coordinates are not negative. *)
round(n, d) == Grain * ((2 * n + d * Grain) \div (2 * d * Grain))

(* The cells that hang together with c, which are at most so many steps away. *)
Component(c, cells) ==
  LET reached[n \in 0 .. Cardinality(cells)] ==
        IF n = 0 THEN {c}
        ELSE LET near == reached[n - 1] IN near \cup (cells \cap UNION { Sides(d) : d \in near }) IN
    reached[Cardinality(cells)]

(* What an intersection consists of. *)
Polygons(cells) == { Component(c, cells) : c \in cells }

Min2(a, b) == IF a < b THEN a ELSE b

Spans_RoundedUnit(from, to, longer, cluster) == \* mutant: the unit is rounded, not the edges
  LET unit == round(longer, cluster) IN
    { s \in { <<from + i * unit, Min2(to, from + (i + 1) * unit)>> : i \in 0 .. cluster - 1 } : s[1] < s[2] }

(* Along one side of the box, in steps of longer / cluster and as far as it *)
(* goes: both edges are rounded, and spans without width are skipped.       *)
Spans(from, to, longer, cluster) ==
  LET at(i) == cluster * from + i * longer IN
    { s \in { <<round(at(i), cluster), round(Min2(cluster * to, at(i + 1)), cluster)>> :
                i \in { j \in 0 .. cluster : at(j) < cluster * to } } : s[1] # s[2] }

Rects(p, cluster) ==
  LET left == Min({ c[1] : c \in p })  right == Max({ c[1] : c \in p }) + 1
      low == Min({ c[2] : c \in p })   high == Max({ c[2] : c \in p }) + 1
      longer == Max({right - left, high - low}) IN
    { [x0 |-> s[1], x1 |-> s[2], y0 |-> t[1], y1 |-> t[2]] :
        s \in Spans(left, right, longer, cluster), t \in Spans(low, high, longer, cluster) }

In(c, r) == c[1] \in r.x0 .. r.x1 - 1 /\ c[2] \in r.y0 .. r.y1 - 1

(* An intersection that fails, or has lines or points beside polygons, is   *)
(* dropped: lost are the rectangles where that happens.                     *)
Cut(p, cluster, lost) ==
  UNION { Polygons({ c \in p : In(c, r) }) : r \in Rects(p, cluster) \ lost }

splitPolygon(p, lc, lost) ==
  LET split[curDepth \in Nat] ==
        [q \in SUBSET p |->
           IF getCoordCount(q) < Few \/ curDepth >= lc.maxDepth
             THEN {q}
             ELSE UNION { split[curDepth + 1][r] : r \in Cut(q, lc.clusterSize, lost) }] IN
    split[0][p]

Context(depth, cluster) == [maxDepth |-> depth, clusterSize |-> cluster]

(* The parts of a MultiPolygon are split by 3, whatever was asked for. *)
Split(features, depth, cluster, lost) ==
  IF \E f \in features : f.type \notin {"Polygon", "MultiPolygon"}
    THEN [error |-> "invalid type"]
    ELSE [pieces |-> UNION { UNION { splitPolygon(p, IF f.type = "Polygon" THEN Context(depth, cluster)
                                                                       ELSE Context(3, 3), lost) :
                                       p \in f.parts } : f \in features }]

-------------------------------------------------------------------------------
IsPolygon(p) == p \in SUBSET (Nat \X Nat) /\ IsFiniteSet(p)

(* The polygons given do not overlap, neither within a feature nor across. *)
NoOverlap(features) ==
  \A f, g \in features : \A p \in f.parts, q \in g.parts : <<f, p>> # <<g, q>> => p \cap q = {}

(* A square of a polygon between an edge that its row or column has and the *)
(* multiple of 1e-7 that the edge rounds to.                                *)
OutsideRounded(line, x) ==
  \/ \E k \in line : k - 1 \notin line /\ k <= x /\ x < round(k, 1)
  \/ \E k \in line : k + 1 \notin line /\ x <= k /\ round(k + 1, 1) <= x

Row(p, c) == { d[1] : d \in { e \in p : e[2] = c[2] } }
Column(p, c) == { d[2] : d \in { e \in p : e[1] = c[1] } }

Sliver(c, p) == c \in p /\ (OutsideRounded(Row(p, c), c[1]) \/ OutsideRounded(Column(p, c), c[2]))

(* The pieces of polygons that do not overlap do not overlap, have no area  *)
(* that was not there, and cover it all but for what lies in a rectangle     *)
(* whose intersection was dropped, and slivers along the outline: a box is   *)
(* cut along its own edges rounded (split.go:24-58, 109-172).               *)
PiecesAreAPartition(features, depth, cluster, lost) ==
  LET r == Split(features, depth, cluster, lost)
      polygons == UNION { f.parts : f \in features } IN
    "pieces" \in DOMAIN r =>
      /\ \A p, q \in r.pieces : p # q => p \cap q = {}
      /\ UNION r.pieces \subseteq UNION polygons
      /\ \A c \in (UNION polygons) \ (UNION r.pieces) :
           (\E l \in lost : In(c, l)) \/ (\E p \in polygons : Sliver(c, p))
===============================================================================
