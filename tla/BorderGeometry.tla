--------------------------- MODULE BorderGeometry ---------------------------
(***************************************************************************)
(* The geometry of the borders: cutting rectangles out of one another      *)
(* (core/BorderOcclusion.cpp), keeping a border on its screen and the      *)
(* rounded ring (core/BorderGeometry.cpp), and the ring around a window    *)
(* (WinBorderPlan.cpp).  Lists of rectangles are sets here: the pieces are *)
(* disjoint, which is proved, so that neither order nor repetition matters.*)
(***************************************************************************)
EXTENDS Rectangles, FiniteSets

Proper(S) == {r \in S : ~IsEmpty(r)}
Intersects(a, b) == /\ a.left < b.right /\ b.left < a.right
                    /\ a.top < b.bottom /\ b.top < a.bottom

\* Above and below the hole over the whole width, then left and right of it.
AboveHole(from, hole) == Rect(from.left, from.top, from.right, AtMost(from.bottom, hole.top))
BelowHole(from, hole) == Rect(from.left, AtLeast(from.top, hole.bottom), from.right, from.bottom)
LeftOfHole(from, hole) ==
  Rect(from.left, AtLeast(from.top, hole.top),
       AtMost(from.right, hole.left), AtMost(from.bottom, hole.bottom))
RightOfHole(from, hole) ==
  Rect(AtLeast(from.left, hole.right), AtLeast(from.top, hole.top),
       from.right, AtMost(from.bottom, hole.bottom))

(* Mutant: the piece left of the hole starts at the top of the rectangle.  *)
SubtractRectTwice(from, hole) ==
  IF IsEmpty(from) THEN {}
  ELSE IF ~Intersects(from, hole) THEN {from}
  ELSE Proper({AboveHole(from, hole), BelowHole(from, hole), RightOfHole(from, hole),
               Rect(from.left, from.top, AtMost(from.right, hole.left),
                    AtMost(from.bottom, hole.bottom))})

SubtractRect(from, hole) ==
  IF IsEmpty(from) THEN {}
  ELSE IF ~Intersects(from, hole) THEN {from}
  ELSE Proper({AboveHole(from, hole), BelowHole(from, hole),
               LeftOfHole(from, hole), RightOfHole(from, hole)})

\* The top and bottom sides over the whole width, the others between them.
BorderRingSegments(outer, inner) ==
  Proper({Rect(outer.left, outer.top, outer.right, inner.top),
          Rect(outer.left, inner.bottom, outer.right, outer.bottom),
          Rect(outer.left, inner.top, inner.left, inner.bottom),
          Rect(inner.right, inner.top, outer.right, inner.bottom)})

\* What is left of the pieces after one occluder, and after all of them.
CutAll(pieces, occluder) == UNION {SubtractRect(s, occluder) : s \in pieces}
ClipSegments(segments, occluders) ==
  LET left[cut \in SUBSET occluders] ==
        IF cut = {} THEN segments
        ELSE LET last == CHOOSE last \in cut : TRUE
             IN CutAll(left[cut \ {last}], last)
  IN left[occluders]

ClipToBounds(segments, bounds) ==
  Proper({Rect(AtLeast(s.left, bounds.left), AtLeast(s.top, bounds.top),
               AtMost(s.right, bounds.right), AtMost(s.bottom, bounds.bottom)) :
            s \in segments})

\* A side is kept on the work area, else on the monitor, when the window's own
\* edge lies within reach of it.
Touches(gap, reach) == gap >= 0 /\ gap <= reach
KeptFrom(edge, out, work, monitor, reach) ==
  IF Touches(edge - work, reach) THEN AtLeast(out, work)
  ELSE IF Touches(edge - monitor, reach) THEN AtLeast(out, monitor) ELSE out
KeptTo(edge, out, work, monitor, reach) ==
  IF Touches(work - edge, reach) THEN AtMost(out, work)
  ELSE IF Touches(monitor - edge, reach) THEN AtMost(out, monitor) ELSE out

ClampBorderToScreen(frame, outer, monitor, work, reach) ==
  IF reach <= 0 THEN outer
  ELSE Rect(KeptFrom(frame.left, outer.left, work.left, monitor.left, reach),
            KeptFrom(frame.top, outer.top, work.top, monitor.top, reach),
            KeptTo(frame.right, outer.right, work.right, monitor.right, reach),
            KeptTo(frame.bottom, outer.bottom, work.bottom, monitor.bottom, reach))

\* The rounded ring; the inset is a multiple of a half pixel, here doubled.
RoundedRingOf(stroke, widthExtra, cornerInset) ==
  LET width == AtLeast(1, stroke + widthExtra)
  IN [width |-> width,
      inset2 |-> 2 * stroke - width + 2 * cornerInset,
      grow |-> AtLeast(0, width - stroke - cornerInset)]
RingInnerEdge2(ring, reach) == ring.inset2 + ring.width - 2 * reach
RingOuterEdge2(ring, reach) == ring.inset2 - ring.width - 2 * reach

\* The ring lies reach outside and stroke - reach inside the window, unless the
\* window is so small that nothing would be left of it.
Grown(r, by) == Rect(r.left - by, r.top - by, r.right + by, r.bottom + by)
RingInner(frame, stroke, reach) ==
  LET inner == Grown(frame, reach - stroke)
  IN IF IsEmpty(inner) THEN frame ELSE inner

\* A window that covers others counts one pixel smaller.
AsOccluder(frame) ==
  LET bitten == Grown(frame, -1)
  IN IF IsEmpty(bitten) THEN frame ELSE bitten
-----------------------------------------------------------------------------
(***************************************************************************)
(* What the plan relies on.                                                *)
(***************************************************************************)
\* Nothing of the hole is painted and nothing else of the rectangle is lost;
\* no pixel is painted twice, which a translucent colour would show.
SubtractsExactly(from, hole, x, y) ==
  /\ (\E p \in SubtractRect(from, hole) : Covers(p, x, y))
       <=> Covers(from, x, y) /\ ~Covers(hole, x, y)
  /\ \A p, q \in SubtractRect(from, hole) : Covers(p, x, y) /\ Covers(q, x, y) => p = q

\* The four sides are the outer rectangle without the inner one, each pixel of
\* it once, so that the corners are not darker.
RingIsExact(outer, inner, x, y) ==
  (/\ outer.left <= inner.left /\ inner.left < inner.right /\ inner.right <= outer.right
   /\ outer.top <= inner.top /\ inner.top < inner.bottom /\ inner.bottom <= outer.bottom)
  => /\ (\E p \in BorderRingSegments(outer, inner) : Covers(p, x, y))
          <=> Covers(outer, x, y) /\ ~Covers(inner, x, y)
     /\ \A p, q \in BorderRingSegments(outer, inner) :
          Covers(p, x, y) /\ Covers(q, x, y) => p = q

\* However much wider the rounded ring is made, its inner edge stays where the
\* offset puts it, and the area set aside for painting holds its outer edge.
RingGrowsOutwards(stroke, widthExtra, cornerInset, reach) ==
  LET ring == RoundedRingOf(stroke, widthExtra, cornerInset)
  IN /\ RingInnerEdge2(ring, reach) = 2 * (stroke - reach + cornerInset)
     /\ RingOuterEdge2(ring, reach) >= -2 * (reach + ring.grow)

\* On none of its four sides does a border leave the work area where the window
\* touches that, or else the monitor where it touches that; a side where the window
\* lies further off than the border reaches is as planned, and no side is moved out.
StaysOnScreen(frame, outer, monitor, work, reach) ==
  LET out == ClampBorderToScreen(frame, outer, monitor, work, reach)
      FromHere(edge, planned, is, area, screen) ==   \* the left or the top side
        /\ is >= planned
        /\ Touches(edge - area, reach) => is >= area
        /\ ~Touches(edge - area, reach) /\ Touches(edge - screen, reach) => is >= screen
        /\ ~Touches(edge - area, reach) /\ ~Touches(edge - screen, reach) => is = planned
      UpToHere(edge, planned, is, area, screen) ==   \* the right or the bottom side
        /\ is <= planned
        /\ Touches(area - edge, reach) => is <= area
        /\ ~Touches(area - edge, reach) /\ Touches(screen - edge, reach) => is <= screen
        /\ ~Touches(area - edge, reach) /\ ~Touches(screen - edge, reach) => is = planned
  IN IF reach <= 0 THEN out = outer
     ELSE /\ FromHere(frame.left, outer.left, out.left, work.left, monitor.left)
          /\ FromHere(frame.top, outer.top, out.top, work.top, monitor.top)
          /\ UpToHere(frame.right, outer.right, out.right, work.right, monitor.right)
          /\ UpToHere(frame.bottom, outer.bottom, out.bottom, work.bottom, monitor.bottom)
=============================================================================
