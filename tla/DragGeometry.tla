---------------------------- MODULE DragGeometry ----------------------------
(***************************************************************************)
(* The rectangles of the drag gesture (core/DragGeometry.cpp): which edges *)
(* of a window a press takes hold of, where the window goes for a given    *)
(* displacement of the cursor, and where a click puts it.                  *)
(***************************************************************************)
EXTENDS Rectangles

Edges == [left : BOOLEAN, top : BOOLEAN, right : BOOLEAN, bottom : BOOLEAN]
AllEdges == [left |-> TRUE, top |-> TRUE, right |-> TRUE, bottom |-> TRUE]
IsMove(e) == e.left /\ e.top /\ e.right /\ e.bottom

\* The third of the extent a coordinate falls into: 0, 1 or 2.
Band(value, start, extent) ==
  LET offset == value - start
  IN IF extent <= 0 THEN 1
     ELSE IF offset < extent \div 3 THEN 0
     ELSE IF offset < extent - extent \div 3 THEN 1
     ELSE 2

\* The middle of the nine cells moves the window, the others resize it.
HitZone(frame, x, y) ==
  LET col == Band(x, frame.left, Width(frame))
      row == Band(y, frame.top, Height(frame))
  IN IF col = 1 /\ row = 1 THEN AllEdges
     ELSE [left |-> col = 0, top |-> row = 0, right |-> col = 2, bottom |-> row = 2]

\* One axis of a resize: the dragged edge stops where the extent would fall
\* below the smallest one, the edge opposite stays.
ResizeLow(low, high, lowDragged, highDragged, d, least) ==
  LET l == IF lowDragged THEN low + d ELSE low
      h == IF highDragged THEN high + d ELSE high
  IN IF h - l < least /\ lowDragged THEN h - least ELSE l
ResizeHigh(low, high, lowDragged, highDragged, d, least) ==
  LET l == IF lowDragged THEN low + d ELSE low
      h == IF highDragged THEN high + d ELSE high
  IN IF h - l < least /\ ~lowDragged THEN l + least ELSE h

ApplyDrag(start, e, dx, dy, minWidth, minHeight) ==
  LET w == AtLeast(1, minWidth)
      h == AtLeast(1, minHeight)
  IN IF IsMove(e)
     THEN Rect(start.left + dx, start.top + dy, start.right + dx, start.bottom + dy)
     ELSE Rect(ResizeLow(start.left, start.right, e.left, e.right, dx, w),
               ResizeLow(start.top, start.bottom, e.top, e.bottom, dy, h),
               ResizeHigh(start.left, start.right, e.left, e.right, dx, w),
               ResizeHigh(start.top, start.bottom, e.top, e.bottom, dy, h))

\* A window taller than the work area keeps its title bar inside it.
CenterInWorkArea(frame, work) ==
  LET l == work.left + Half(Width(work) - Width(frame))
      t == AtLeast(work.top, work.top + Half(Height(work) - Height(frame)))
  IN Rect(l, t, l + Width(frame), t + Height(frame))
-----------------------------------------------------------------------------
(***************************************************************************)
(* What the callers rely on.                                               *)
(***************************************************************************)
\* A window of at least the smallest size, resized by any cell and however
\* far: it keeps that size, an edge that is not dragged does not move, and
\* the window never turns inside out (the clamp of ApplyDrag).
ResizeIsAnchored(start, e, dx, dy, minWidth, minHeight) ==
  LET out == ApplyDrag(start, e, dx, dy, minWidth, minHeight)
  IN (/\ Width(start) >= AtLeast(1, minWidth)
      /\ Height(start) >= AtLeast(1, minHeight)
      /\ ~IsMove(e) /\ ~(e.left /\ e.right) /\ ~(e.top /\ e.bottom))
     => /\ Width(out) >= AtLeast(1, minWidth)
        /\ Height(out) >= AtLeast(1, minHeight)
        /\ ~e.left => out.left = start.left
        /\ ~e.right => out.right = start.right
        /\ ~e.top => out.top = start.top
        /\ ~e.bottom => out.bottom = start.bottom

\* A press never takes hold of two opposite edges unless it moves the window,
\* and a press inside a window always takes hold of something (HitZone).
ZoneIsUsable(frame, x, y) ==
  LET e == HitZone(frame, x, y)
  IN /\ (e.left /\ e.right) => IsMove(e)
     /\ (e.top /\ e.bottom) => IsMove(e)
     /\ e.left \/ e.top \/ e.right \/ e.bottom

\* Centring keeps the size and the title bar within reach: the top is never
\* above the work area, and inside it when the window fits.
CentredIsReachable(frame, work) ==
  LET out == CenterInWorkArea(frame, work)
  IN /\ Width(out) = Width(frame)
     /\ Height(out) = Height(frame)
     /\ out.top >= work.top
     /\ (Height(frame) >= 0 /\ Height(frame) <= Height(work)) => out.bottom <= work.bottom
=============================================================================
