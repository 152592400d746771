--------------------------- MODULE Screen_proofs ----------------------------
(***************************************************************************)
(* Theorems about what is painted on the screen, for any windows,          *)
(* monitors, frames and number of strips.  The rectangles of a border are  *)
(* exact; the borders are those of the desktop once its events are         *)
(* handled, and never cross the window in the foreground; the outline of a *)
(* drag is that of its drop target, a preview has a strip that hides it,   *)
(* and a strip that is not at rest has its timer running.                  *)
(***************************************************************************)
EXTENDS MCScreen, FiniteSetTheorems, WellFoundedInduction, TLAPS

-----------------------------------------------------------------------------
(***************************************************************************)
(* The rectangles of the borders, for all integers.                        *)
(***************************************************************************)
(* The four pieces around a hole hold the same pixels as the rectangle     *)
(* without the hole, each once.  The hole is the frame of a window, which  *)
(* is never empty; around one turned inside out pieces would overlap.      *)
THEOREM SubtractExact ==
    ASSUME NEW from \in Rects, NEW hole \in Rects, ~IsEmpty(hole), NEW x \in Int, NEW y \in Int
    PROVE  SubtractsExactly(from, hole, x, y)
  <1>1. /\ from.left \in Int /\ from.top \in Int /\ from.right \in Int /\ from.bottom \in Int
        /\ hole.left \in Int /\ hole.top \in Int /\ hole.right \in Int /\ hole.bottom \in Int
    BY DEF Rects
  <1>2. CASE IsEmpty(from)
    BY <1>1, <1>2 DEF SubtractsExactly, SubtractRect, IsEmpty, Covers
  <1>3. CASE ~IsEmpty(from) /\ ~Intersects(from, hole)
    BY <1>1, <1>3 DEF SubtractsExactly, SubtractRect, Intersects, Covers
  <1>4. CASE ~IsEmpty(from) /\ Intersects(from, hole)
    <2> DEFINE above == AboveHole(from, hole)
               below == BelowHole(from, hole)
               leftOf == LeftOfHole(from, hole)
               rightOf == RightOfHole(from, hole)
               pieces == {above, below, leftOf, rightOf}
    <2>1. Covers(above, x, y) <=> Covers(from, x, y) /\ y < hole.top
      BY <1>1, <1>4 DEF AboveHole, Rect, Covers, AtMost
    <2>2. Covers(below, x, y) <=> Covers(from, x, y) /\ y >= hole.bottom
      BY <1>1, <1>4 DEF BelowHole, Rect, Covers, AtLeast
    <2>3. Covers(leftOf, x, y) <=>
            Covers(from, x, y) /\ hole.top <= y /\ y < hole.bottom /\ x < hole.left
      BY <1>1, <1>4 DEF LeftOfHole, Rect, Covers, AtMost, AtLeast
    <2>4. Covers(rightOf, x, y) <=>
            Covers(from, x, y) /\ hole.top <= y /\ y < hole.bottom /\ x >= hole.right
      BY <1>1, <1>4 DEF RightOfHole, Rect, Covers, AtMost, AtLeast
    <2>5. SubtractRect(from, hole) = Proper(pieces)
      BY <1>4 DEF SubtractRect
    <2>6. \A p \in pieces : Covers(p, x, y) => ~IsEmpty(p)
      <3>1. \A p \in pieces :
               p.left \in Int /\ p.right \in Int /\ p.top \in Int /\ p.bottom \in Int
        BY <1>1 DEF AboveHole, BelowHole, LeftOfHole, RightOfHole, Rect, AtMost, AtLeast
      <3> HIDE DEF pieces
      <3> QED
        BY <3>1 DEF Covers, IsEmpty
    <2>7. hole.left < hole.right /\ hole.top < hole.bottom
      BY <1>1 DEF IsEmpty
    <2> HIDE DEF above, below, leftOf, rightOf
    <2>8. (\E p \in SubtractRect(from, hole) : Covers(p, x, y))
            <=> Covers(from, x, y) /\ ~Covers(hole, x, y)
      <3>1. (\E p \in SubtractRect(from, hole) : Covers(p, x, y))
              <=> \/ Covers(above, x, y) \/ Covers(below, x, y)
                  \/ Covers(leftOf, x, y) \/ Covers(rightOf, x, y)
        BY <2>5, <2>6 DEF Proper
      <3>2. Covers(hole, x, y) <=>
              hole.left <= x /\ x < hole.right /\ hole.top <= y /\ y < hole.bottom
        BY DEF Covers
      <3> QED
        BY <1>1, <2>1, <2>2, <2>3, <2>4, <3>1, <3>2
    <2>9. \A p, q \in pieces : Covers(p, x, y) /\ Covers(q, x, y) => p = q
      BY <1>1, <2>1, <2>2, <2>3, <2>4, <2>7
    <2> QED
      BY <2>5, <2>8, <2>9 DEF SubtractsExactly, Proper
  <1> QED
    BY <1>2, <1>3, <1>4

(* The four sides of a ring hold the pixels between its rectangles, each   *)
(* once.                                                                   *)
THEOREM RingExact ==
    ASSUME NEW outer \in Rects, NEW inner \in Rects, NEW x \in Int, NEW y \in Int
    PROVE  RingIsExact(outer, inner, x, y)
  <1>1. /\ outer.left \in Int /\ outer.top \in Int /\ outer.right \in Int
        /\ outer.bottom \in Int /\ inner.left \in Int /\ inner.top \in Int
        /\ inner.right \in Int /\ inner.bottom \in Int
    BY DEF Rects
  <1> DEFINE top == Rect(outer.left, outer.top, outer.right, inner.top)
             bottom == Rect(outer.left, inner.bottom, outer.right, outer.bottom)
             left == Rect(outer.left, inner.top, inner.left, inner.bottom)
             right == Rect(inner.right, inner.top, outer.right, inner.bottom)
             sides == {top, bottom, left, right}
  <1>2. SUFFICES
          ASSUME outer.left <= inner.left, inner.left < inner.right,
                 inner.right <= outer.right, outer.top <= inner.top,
                 inner.top < inner.bottom, inner.bottom <= outer.bottom
          PROVE  /\ (\E p \in BorderRingSegments(outer, inner) : Covers(p, x, y))
                       <=> Covers(outer, x, y) /\ ~Covers(inner, x, y)
                 /\ \A p, q \in BorderRingSegments(outer, inner) :
                       Covers(p, x, y) /\ Covers(q, x, y) => p = q
    BY DEF RingIsExact
  <1>3. /\ Covers(top, x, y) <=> Covers(outer, x, y) /\ y < inner.top
        /\ Covers(bottom, x, y) <=> Covers(outer, x, y) /\ y >= inner.bottom
        /\ Covers(left, x, y) <=>
              Covers(outer, x, y) /\ inner.top <= y /\ y < inner.bottom /\ x < inner.left
        /\ Covers(right, x, y) <=>
              Covers(outer, x, y) /\ inner.top <= y /\ y < inner.bottom /\ x >= inner.right
    BY <1>1, <1>2 DEF Rect, Covers
  <1>4. BorderRingSegments(outer, inner) = Proper(sides)
    BY DEF BorderRingSegments
  <1>5. \A p \in sides : Covers(p, x, y) => ~IsEmpty(p)
    <2>1. \A p \in sides :
             p.left \in Int /\ p.right \in Int /\ p.top \in Int /\ p.bottom \in Int
      BY <1>1 DEF Rect
    <2> HIDE DEF sides
    <2> QED
      BY <2>1 DEF Covers, IsEmpty
  <1> HIDE DEF top, bottom, left, right
  <1>6. (\E p \in BorderRingSegments(outer, inner) : Covers(p, x, y))
          <=> \/ Covers(top, x, y) \/ Covers(bottom, x, y)
              \/ Covers(left, x, y) \/ Covers(right, x, y)
    BY <1>4, <1>5 DEF Proper
  <1>7. Covers(inner, x, y) <=>
          inner.left <= x /\ x < inner.right /\ inner.top <= y /\ y < inner.bottom
    BY DEF Covers
  <1>8. (\E p \in BorderRingSegments(outer, inner) : Covers(p, x, y))
          <=> Covers(outer, x, y) /\ ~Covers(inner, x, y)
    BY <1>1, <1>3, <1>6, <1>7
  <1>9. \A p, q \in sides : Covers(p, x, y) /\ Covers(q, x, y) => p = q
    BY <1>1, <1>2, <1>3
  <1> QED
    BY <1>4, <1>8, <1>9 DEF Proper

(* The wider rounded ring grows outwards only, and the painted area holds  *)
(* it (RoundedRing of BorderGeometry.cpp).                                 *)
THEOREM RingGrows ==
    ASSUME NEW stroke \in Int, NEW widthExtra \in Int, NEW cornerInset \in Int,
           NEW reach \in Int
    PROVE  RingGrowsOutwards(stroke, widthExtra, cornerInset, reach)
  BY DEF RingGrowsOutwards, RoundedRingOf, RingInnerEdge2, RingOuterEdge2, AtLeast

(* A border stays on the work area, or else on the monitor, on every side *)
(* where its window touches it, and is moved on no other                   *)
(* (ClampBorderToScreen).                                                  *)
THEOREM BorderStaysOnScreen ==
    ASSUME NEW frame \in Rects, NEW outer \in Rects, NEW monitor \in Rects,
           NEW work \in Rects, NEW reach \in Int
    PROVE  StaysOnScreen(frame, outer, monitor, work, reach)
  <1> DEFINE out == ClampBorderToScreen(frame, outer, monitor, work, reach)
  <1>1. /\ frame.left \in Int /\ frame.top \in Int /\ frame.right \in Int
        /\ frame.bottom \in Int /\ outer.left \in Int /\ outer.top \in Int
        /\ outer.right \in Int /\ outer.bottom \in Int /\ monitor.left \in Int
        /\ monitor.top \in Int /\ monitor.right \in Int /\ monitor.bottom \in Int
        /\ work.left \in Int /\ work.top \in Int /\ work.right \in Int /\ work.bottom \in Int
    BY DEF Rects
  <1>2. CASE reach <= 0
    BY <1>2 DEF StaysOnScreen, ClampBorderToScreen
  <1>3. CASE reach > 0
    <2>1. /\ out.left = KeptFrom(frame.left, outer.left, work.left, monitor.left, reach)
          /\ out.top = KeptFrom(frame.top, outer.top, work.top, monitor.top, reach)
          /\ out.right = KeptTo(frame.right, outer.right, work.right, monitor.right, reach)
          /\ out.bottom = KeptTo(frame.bottom, outer.bottom, work.bottom, monitor.bottom, reach)
      BY <1>3 DEF ClampBorderToScreen, Rect
    <2> HIDE DEF out
    <2>2. /\ out.left >= outer.left
          /\ Touches(frame.left - work.left, reach) => out.left >= work.left
          /\ ~Touches(frame.left - work.left, reach) /\ Touches(frame.left - monitor.left, reach)
               => out.left >= monitor.left
          /\ ~Touches(frame.left - work.left, reach) /\ ~Touches(frame.left - monitor.left, reach)
               => out.left = outer.left
      BY <1>1, <2>1 DEF KeptFrom, AtLeast
    <2>3. /\ out.top >= outer.top
          /\ Touches(frame.top - work.top, reach) => out.top >= work.top
          /\ ~Touches(frame.top - work.top, reach) /\ Touches(frame.top - monitor.top, reach)
               => out.top >= monitor.top
          /\ ~Touches(frame.top - work.top, reach) /\ ~Touches(frame.top - monitor.top, reach)
               => out.top = outer.top
      BY <1>1, <2>1 DEF KeptFrom, AtLeast
    <2>4. /\ out.right <= outer.right
          /\ Touches(work.right - frame.right, reach) => out.right <= work.right
          /\ ~Touches(work.right - frame.right, reach) /\ Touches(monitor.right - frame.right, reach)
               => out.right <= monitor.right
          /\ ~Touches(work.right - frame.right, reach) /\ ~Touches(monitor.right - frame.right, reach)
               => out.right = outer.right
      BY <1>1, <2>1 DEF KeptTo, AtMost
    <2>5. /\ out.bottom <= outer.bottom
          /\ Touches(work.bottom - frame.bottom, reach) => out.bottom <= work.bottom
          /\ ~Touches(work.bottom - frame.bottom, reach) /\ Touches(monitor.bottom - frame.bottom, reach)
               => out.bottom <= monitor.bottom
          /\ ~Touches(work.bottom - frame.bottom, reach) /\ ~Touches(monitor.bottom - frame.bottom, reach)
               => out.bottom = outer.bottom
      BY <1>1, <2>1 DEF KeptTo, AtMost
    <2> QED
      BY <1>3, <2>2, <2>3, <2>4, <2>5 DEF StaysOnScreen, out
  <1> QED
    BY <1>2, <1>3

(* The set form of induction over the naturals.                            *)
LEMMA UpFromZero ==
    ASSUME NEW good \in SUBSET Nat, 0 \in good, \A n \in good : n + 1 \in good
    PROVE  good = Nat
  <1> DEFINE Less == {p \in Nat \X Nat : p[1] < p[2]}
             bad == Nat \ good
  <1>1. OpToRel(<, Nat) = Less
    BY DEF OpToRel
  <1>2. IsWellFoundedOn(Less, Nat)
    BY <1>1, NatLessThanWellFounded
  <1>3. SUFFICES ASSUME bad # {} PROVE FALSE
    OBVIOUS
  <1>4. PICK n \in bad : \A m \in bad : ~(<<m, n>> \in Less)
    <2> HIDE DEF Less, bad
    <2>1. bad \subseteq Nat
      BY DEF bad
    <2> QED
      BY <1>2, <1>3, <2>1, WFMin
  <1>5. n - 1 \in Nat /\ <<n - 1, n>> \in Less
    BY <1>4
  <1> QED
    BY <1>4, <1>5

(* What holds of no cut, and of a cut once it holds without the occluder   *)
(* cut last, holds of all occluders.                                       *)
LastOf(cut) == CHOOSE last \in cut : TRUE

LEMMA CutInduction ==
    ASSUME NEW holes, IsFiniteSet(holes), NEW good \in SUBSET (SUBSET holes), {} \in good,
           \A cut \in SUBSET holes : cut # {} /\ cut \ {LastOf(cut)} \in good => cut \in good
    PROVE  holes \in good
  <1> DEFINE bad == (SUBSET holes) \ good
  <1>1. \A cut \in SUBSET holes : IsFiniteSet(cut)
    BY FS_Subset
  <1>2. bad \subseteq FiniteSubsetsOf(holes)
    BY <1>1 DEF FiniteSubsetsOf
  <1>3. SUFFICES ASSUME bad # {} PROVE FALSE
    OBVIOUS
  <1>4. PICK cut \in bad : \A less \in bad : ~(<<less, cut>> \in StrictSubsetOrdering(holes))
    <2> HIDE DEF bad
    <2> QED
      BY <1>2, <1>3, FS_StrictSubsetOrderingWellFounded, WFMin
  <1>5. cut # {} /\ cut \in SUBSET holes
    BY <1>4
  <1>6. LastOf(cut) \in cut
    BY <1>5 DEF LastOf
  <1> DEFINE less == cut \ {LastOf(cut)}
  <1>7. less \in SUBSET holes /\ less \subseteq cut /\ less # cut
    BY <1>5, <1>6
  <1>8. <<less, cut>> \in StrictSubsetOrdering(holes)
    BY <1>1, <1>5, <1>7 DEF StrictSubsetOrdering, FiniteSubsetsOf
  <1>9. less \in good
    BY <1>4, <1>7, <1>8
  <1> QED
    BY <1>4, <1>5, <1>9
(* The recursion of ClipSegments has a solution, and so is one.            *)
LEMMA CutEquation ==
    ASSUME NEW segments, NEW holes, IsFiniteSet(holes)
    PROVE  \E left :
             /\ left = [cut \in SUBSET holes |->
                          IF cut = {} THEN segments
                          ELSE CutAll(left[cut \ {LastOf(cut)}], LastOf(cut))]
             /\ ClipSegments(segments, holes) = left[holes]
  <1> DEFINE Step(left, cut) == IF cut = {} THEN segments
                                ELSE CutAll(left[cut \ {LastOf(cut)}], LastOf(cut))
             low(n) == {cut \in SUBSET holes : Cardinality(cut) <= n}
             good == {n \in Nat : \E left : left = [cut \in low(n) |-> Step(left, cut)]}
  <1>1. \A cut \in SUBSET holes : IsFiniteSet(cut) /\ Cardinality(cut) \in Nat
    BY FS_Subset, FS_CardinalityType
  <1>2. 0 \in good
    <2> DEFINE left == [cut \in low(0) |-> segments]
    <2>1. \A cut \in low(0) : cut = {}
      BY <1>1, FS_EmptySet
    <2>2. left = [cut \in low(0) |-> Step(left, cut)]
      BY <2>1
    <2> QED
      BY <2>2
  <1>3. ASSUME NEW n \in good
        PROVE  n + 1 \in good
    <2>1. PICK left : left = [cut \in low(n) |-> Step(left, cut)]
      BY <1>3
    <2> DEFINE next == [cut \in low(n + 1) |-> Step(left, cut)]
    <2>2. \A cut \in low(n + 1) : cut # {} => cut \ {LastOf(cut)} \in low(n)
      <3> SUFFICES ASSUME NEW cut \in low(n + 1), cut # {}
                   PROVE  cut \ {LastOf(cut)} \in low(n)
        OBVIOUS
      <3>1. LastOf(cut) \in cut
        BY DEF LastOf
      <3>2. Cardinality(cut \ {LastOf(cut)}) = Cardinality(cut) - 1
        BY <1>1, <3>1, FS_RemoveElement
      <3> QED
        BY <1>1, <1>3, <3>2
    <2>3. \A cut \in low(n) : cut \in low(n + 1) /\ next[cut] = left[cut]
      <3>1. \A cut \in low(n) : cut \in low(n + 1)
        BY <1>1, <1>3
      <3>2. \A cut \in low(n) : left[cut] = Step(left, cut)
        BY <2>1
      <3> HIDE DEF low, Step
      <3> QED
        BY <3>1, <3>2
    <2>4. \A cut \in low(n + 1) : Step(left, cut) = Step(next, cut)
      <3> HIDE DEF low, next
      <3> QED
        BY <2>2, <2>3
    <2>5. next = [cut \in low(n + 1) |-> Step(next, cut)]
      <3> HIDE DEF Step, low
      <3> QED
        BY <2>4
    <2>6. \E later : later = [cut \in low(n + 1) |-> Step(later, cut)]
      BY <2>5
    <2>7. n + 1 \in Nat
      BY <1>3
    <2> HIDE DEF next, low, Step
    <2> QED
      BY <2>6, <2>7
  <1>4. Cardinality(holes) \in good
    <2> HIDE DEF good
    <2>1. good = Nat
      BY <1>2, <1>3, UpFromZero DEF good
    <2> QED
      BY <2>1, FS_CardinalityType
  <1>5. low(Cardinality(holes)) = SUBSET holes
    BY FS_Subset
  <1>6. \E left : left = [cut \in SUBSET holes |-> Step(left, cut)]
    BY <1>4, <1>5
  <1> DEFINE it == CHOOSE left : left = [cut \in SUBSET holes |-> Step(left, cut)]
  <1>7. it = [cut \in SUBSET holes |-> Step(it, cut)]
    BY <1>6
  <1>8. ClipSegments(segments, holes) = it[holes]
    BY DEF ClipSegments, LastOf
  <1> QED
    BY <1>7, <1>8
(* Pieces that share no pixel.                                             *)
Apart(pieces) ==
  \A p, q \in pieces : \A x, y \in Int : Covers(p, x, y) /\ Covers(q, x, y) => p = q

LEMMA PiecesAreRects ==
    ASSUME NEW from \in Rects, NEW hole \in Rects
    PROVE  SubtractRect(from, hole) \subseteq Proper(Rects)
  <1>1. {AboveHole(from, hole), BelowHole(from, hole), LeftOfHole(from, hole),
         RightOfHole(from, hole)} \subseteq Rects
    BY DEF AboveHole, BelowHole, LeftOfHole, RightOfHole, Rect, Rects, AtLeast, AtMost
  <1> QED
    BY <1>1 DEF SubtractRect, Proper

(* One occluder takes its own pixels from the pieces, and nothing else.    *)
LEMMA CutAllExact ==
    ASSUME NEW pieces \in SUBSET Rects, NEW hole \in Rects, ~IsEmpty(hole)
    PROVE  /\ CutAll(pieces, hole) \subseteq Proper(Rects)
           /\ \A x, y \in Int : (\E p \in CutAll(pieces, hole) : Covers(p, x, y))
                <=> (\E p \in pieces : Covers(p, x, y)) /\ ~Covers(hole, x, y)
           /\ Apart(pieces) => Apart(CutAll(pieces, hole))
  <1>1. CutAll(pieces, hole) \subseteq Proper(Rects)
    BY PiecesAreRects DEF CutAll
  <1>2. \A from \in pieces : \A x, y \in Int : SubtractsExactly(from, hole, x, y)
    BY SubtractExact
  <1>3. \A x, y \in Int : (\E p \in CutAll(pieces, hole) : Covers(p, x, y))
           <=> (\E p \in pieces : Covers(p, x, y)) /\ ~Covers(hole, x, y)
    BY <1>2 DEF SubtractsExactly, CutAll
  <1>4. ASSUME Apart(pieces), NEW p \in CutAll(pieces, hole), NEW q \in CutAll(pieces, hole),
               NEW x \in Int, NEW y \in Int, Covers(p, x, y), Covers(q, x, y)
        PROVE  p = q
    <2>1. PICK from \in pieces : p \in SubtractRect(from, hole)
      BY DEF CutAll
    <2>2. PICK other \in pieces : q \in SubtractRect(other, hole)
      BY DEF CutAll
    <2>3. Covers(from, x, y) /\ Covers(other, x, y)
      BY <1>2, <1>4, <2>1, <2>2 DEF SubtractsExactly
    <2>4. from = other
      BY <1>4, <2>3 DEF Apart
    <2> QED
      BY <1>2, <1>4, <2>1, <2>2, <2>4 DEF SubtractsExactly
  <1> QED
    BY <1>1, <1>3, <1>4 DEF Apart

(* The border that is left of its segments behind any number of windows    *)
(* has the pixels that none of them covers, no piece is empty, and pieces  *)
(* that did not overlap do not after it (ClipSegments).                    *)
THEOREM ClipExact ==
    ASSUME NEW segments \in SUBSET Proper(Rects), NEW holes \in SUBSET Proper(Rects),
           IsFiniteSet(holes)
    PROVE  /\ ClipSegments(segments, holes) \subseteq Proper(Rects)
           /\ \A x, y \in Int : (\E p \in ClipSegments(segments, holes) : Covers(p, x, y))
                <=> /\ \E s \in segments : Covers(s, x, y)
                    /\ \A h \in holes : ~Covers(h, x, y)
           /\ Apart(segments) => Apart(ClipSegments(segments, holes))
  <1>1. PICK left :
          /\ left = [cut \in SUBSET holes |->
                       IF cut = {} THEN segments
                       ELSE CutAll(left[cut \ {LastOf(cut)}], LastOf(cut))]
          /\ ClipSegments(segments, holes) = left[holes]
    BY CutEquation
  <1> DEFINE Exact(cut) ==
               /\ left[cut] \subseteq Proper(Rects)
               /\ \A x, y \in Int : (\E p \in left[cut] : Covers(p, x, y))
                    <=> /\ \E s \in segments : Covers(s, x, y)
                        /\ \A h \in cut : ~Covers(h, x, y)
               /\ Apart(segments) => Apart(left[cut])
             good == {cut \in SUBSET holes : Exact(cut)}
  <1>2. {} \in good
    <2>1. left[{}] = segments
      BY <1>1
    <2> QED
      BY <2>1
  <1>3. ASSUME NEW cut \in SUBSET holes, cut # {}, cut \ {LastOf(cut)} \in good
        PROVE  cut \in good
    <2> DEFINE last == LastOf(cut)
               less == cut \ {last}
    <2>1. last \in cut
      BY <1>3 DEF LastOf
    <2>2. left[cut] = CutAll(left[less], last)
      BY <1>1, <1>3
    <2>3. Exact(less)
      BY <1>3
    <2>4. left[less] \in SUBSET Rects /\ last \in Rects /\ ~IsEmpty(last)
      BY <2>1, <2>3 DEF Proper
    <2> HIDE DEF less, last
    <2>5. /\ left[cut] \subseteq Proper(Rects)
          /\ \A x, y \in Int : (\E p \in left[cut] : Covers(p, x, y))
               <=> (\E p \in left[less] : Covers(p, x, y)) /\ ~Covers(last, x, y)
          /\ Apart(left[less]) => Apart(left[cut])
      <3> DEFINE before == left[less]
      <3> HIDE DEF before
      <3>1. /\ CutAll(before, last) \subseteq Proper(Rects)
            /\ \A x, y \in Int : (\E p \in CutAll(before, last) : Covers(p, x, y))
                 <=> (\E p \in before : Covers(p, x, y)) /\ ~Covers(last, x, y)
            /\ Apart(before) => Apart(CutAll(before, last))
        <4>1. before \in SUBSET Rects
          BY <2>4 DEF before
        <4> QED
          BY <2>4, <4>1, CutAllExact
      <3> QED
        BY <2>2, <3>1, Zenon DEF before
    <2>6. cut = less \cup {last}
      BY <2>1 DEF less
    <2>7. \A x, y \in Int : (\E p \in left[cut] : Covers(p, x, y))
            <=> /\ \E s \in segments : Covers(s, x, y)
                /\ \A h \in cut : ~Covers(h, x, y)
      BY <2>3, <2>5, <2>6
    <2> QED
      BY <2>3, <2>5, <2>7
  <1>4. holes \in good
    <2> HIDE DEF good
    <2>1. good \in SUBSET (SUBSET holes)
      BY DEF good
    <2> QED
      BY <1>2, <1>3, <2>1, CutInduction
  <1> QED
    BY <1>1, <1>4

-----------------------------------------------------------------------------
(***************************************************************************)
(* The borders follow the desktop.                                         *)
(***************************************************************************)
(* As far as no event waits, the snapshot is the desktop but for where in  *)
(* the z order the foreground window is, which is put right without one.   *)
SnapshotFollows ==
  snapshotValid /\ <<"changed">> \notin borderMail =>
    /\ snapshot.fg = desktop.fg /\ snapshot.state = desktop.state
    /\ snapshot.cloaked = desktop.cloaked
    /\ \A w \in BorderWindows :
         <<"moved", w>> \notin borderMail => snapshot.frame[w] = desktop.frame[w]
    /\ \A v, w \in BorderWindows \ {desktop.fg} :
         v \in snapshot.order[w] <=> v \in desktop.order[w]

ModelsFollow == <<"changed">> \notin borderMail => borderModels = ModelsNow

(* What was painted last is the plan for the snapshot; a snapshot that is  *)
(* not valid has been painted by nobody.                                   *)
PlanIsPainted ==
  IF suspended THEN lastStrokes = {}
  ELSE \/ snapshotValid /\ lastStrokes = PlanBorders(snapshot, borderModels, width)
       \/ ~snapshotValid /\ lastStrokes = {} /\ <<"changed">> \in borderMail

BorderInv ==
  /\ BorderTypeOK
  /\ SnapshotFollows /\ ModelsFollow /\ PlanIsPainted
(* Moving a window behind those that stay in front of it leaves an order.  *)
LEMMA PutBehindOrders ==
    ASSUME NEW o \in Orders, NEW w \in BorderWindows, NEW front \in SUBSET BorderWindows,
           w \notin front, \A v \in front : o[v] \subseteq front \cup {w},
           IF w \in Topmost THEN front \subseteq Topmost ELSE Topmost \subseteq front
    PROVE  PutBehind(o, w, front) \in Orders
  <1> DEFINE p == PutBehind(o, w, front)
  <1>1. o \in [BorderWindows -> SUBSET BorderWindows]
    BY DEF Orders
  <1>2. p \in [BorderWindows -> SUBSET BorderWindows]
    BY <1>1 DEF PutBehind
  <1>3. \A u, v \in BorderWindows :
          /\ v \in p[w] <=> v \in front
          /\ u # w /\ v # w => (v \in p[u] <=> v \in o[u])
          /\ u # w => (w \in p[u] <=> u \notin front)
    BY <1>1 DEF PutBehind
  <1> HIDE DEF p
  <1>4. \A u, v \in BorderWindows :
          /\ v \in o[u] => v # u /\ u \notin o[v] /\ o[v] \subseteq o[u]
          /\ v # u => v \in o[u] \/ u \in o[v]
          /\ v \in Topmost /\ u \notin Topmost => v \in o[u]
    BY DEF Orders
  <1>5. ASSUME NEW u \in BorderWindows, NEW v \in BorderWindows
        PROVE  /\ v \in p[u] => v # u /\ u \notin p[v]
               /\ v # u => v \in p[u] \/ u \in p[v]
               /\ v \in Topmost /\ u \notin Topmost => v \in p[u]
    BY <1>3, <1>4, <1>5
  <1>6. ASSUME NEW u \in BorderWindows, NEW v \in BorderWindows, NEW x \in BorderWindows,
               v \in p[u], x \in p[v]
        PROVE  x \in p[u]
    <2>1. CASE u = w
      BY <1>3, <1>4, <1>6, <2>1
    <2>2. CASE u # w /\ v = w
      BY <1>3, <1>4, <1>6, <2>2
    <2>3. CASE u # w /\ v # w /\ x = w
      BY <1>3, <1>4, <1>6, <2>3
    <2>4. CASE u # w /\ v # w /\ x # w
      BY <1>3, <1>4, <1>6, <2>4
    <2> QED
      BY <2>1, <2>2, <2>3, <2>4
  <1>7. \A u, v \in BorderWindows : v \in p[u] => p[v] \subseteq p[u]
    BY <1>2, <1>6
  <1> QED
    BY <1>2, <1>5, <1>7 DEF Orders, p

LEMMA CaptureOrders ==
    ASSUME NEW o \in Orders, NEW w \in BorderWindows
    PROVE  ToFront(o, w) \in Orders /\ PutBehind(o, w, Topmost \ {w}) \in Orders
  <1>1. Topmost \in SUBSET BorderWindows
    BY BorderAssumption
  <1>2. \A u \in Topmost : o[u] \subseteq Topmost
    BY <1>1 DEF Orders
  <1>3. PutBehind(o, w, Topmost \ {w}) \in Orders
    BY <1>1, <1>2, PutBehindOrders
  <1>4. CASE w \in Topmost
    <2>1. PutBehind(o, w, {}) \in Orders
      BY <1>4, PutBehindOrders
    <2> QED
      BY <1>3, <1>4, <2>1 DEF ToFront
  <1>5. CASE w \notin Topmost
    <2>1. Topmost \ {w} = Topmost
      BY <1>5
    <2> QED
      BY <1>3, <1>5, <2>1 DEF ToFront
  <1> QED
    BY <1>3, <1>4, <1>5

(* Captured, with the foreground window found or missed.                   *)
LEMMA CaptureTyped ==
    ASSUME BorderTypeOK, NEW missed \in MayMiss
    PROVE  CaptureDesktop(missed) \in Snapshots
  <1>1. desktop.fg # NoBorderWindow => desktop.fg \in BorderWindows
    BY DEF BorderTypeOK, Desktops
  <1>2. (IF missed THEN PutBehind(desktop.order, desktop.fg, Topmost \ {desktop.fg})
         ELSE desktop.order) \in Orders
    BY <1>1, CaptureOrders DEF MayMiss, BorderTypeOK, Desktops
  <1> QED
    BY <1>2 DEF CaptureDesktop, Snapshots, BorderTypeOK, Desktops

LEMMA ModelsTyped ==
    ModelsNow \in [BorderWindows -> {"none", "plain", "active", "pinned"}]
  BY DEF ModelsNow
-----------------------------------------------------------------------------
(* The segments of a border before anything covers it.                     *)
LEMMA UnitsTyped ==
    ASSUME NEW s \in Snapshots, NEW w \in BorderWindows, NEW stroke \in Int
    PROVE  UnitsOf(s, w, stroke) \subseteq Proper(Rects)
  <1> DEFINE frame == s.frame[w]
             reach == stroke - 1
             outer == Grown(frame, reach)
             inner == RingInner(frame, stroke, reach)
             ring == BorderRingSegments(outer, inner)
             limits == {ClampBorderToScreen(frame, outer, m.bounds, m.work, reach) :
                          m \in ScreenOf(s, frame)}
  <1>1. frame \in Rects
    BY BorderAssumption DEF Snapshots
  <1>2. outer \in Rects /\ inner \in Rects
    BY <1>1 DEF Grown, RingInner, Rect, Rects
  <1>3. ring \subseteq Proper(Rects)
    <2> HIDE DEF outer, inner
    <2> QED
      BY <1>2 DEF BorderRingSegments, Proper, Rect, Rects
  <1>4. \A m \in ScreenOf(s, frame) : m.bounds \in Rects /\ m.work \in Rects
    BY BorderAssumption DEF ScreenOf, Snapshots
  <1>5. limits \subseteq Rects
    <2>1. ASSUME NEW m \in ScreenOf(s, frame)
          PROVE  ClampBorderToScreen(frame, outer, m.bounds, m.work, reach) \in Rects
      <3> HIDE DEF frame, outer
      <3>1. m.bounds \in Rects /\ m.work \in Rects
        BY <1>4 DEF frame
      <3> QED
        BY <1>1, <1>2, <3>1 DEF ClampBorderToScreen, KeptFrom, KeptTo, Touches, Rect, Rects,
           AtLeast, AtMost
    <2> HIDE DEF frame, outer, reach
    <2> QED
      BY <2>1
  <1> HIDE DEF frame, outer, ring, limits
  <1>6. ASSUME \E l \in limits : ~IsEmpty(l)
        PROVE  ClipToBounds(ring, CHOOSE l \in limits : ~IsEmpty(l)) \subseteq Proper(Rects)
    <2> DEFINE limit == CHOOSE l \in limits : ~IsEmpty(l)
    <2>1. limit \in Rects
      BY <1>5, <1>6
    <2> HIDE DEF limit
    <2>2. ring \subseteq Rects
      BY <1>3 DEF Proper
    <2>3. ClipToBounds(ring, limit) \subseteq Proper(Rects)
      BY <2>1, <2>2 DEF ClipToBounds, Proper, Rect, Rects, AtLeast, AtMost
    <2> QED
      BY <2>3 DEF limit
  <1>7. UnitsOf(s, w, stroke) = IF \E l \in limits : ~IsEmpty(l)
                                THEN ClipToBounds(ring, CHOOSE l \in limits : ~IsEmpty(l))
                                ELSE ring
    BY DEF UnitsOf, limits, ring, outer, frame
  <1> QED
    BY <1>3, <1>6, <1>7

(* A window covers others by a rectangle that is not empty.                *)
LEMMA OccluderTyped ==
    ASSUME NEW f \in FrameChoices
    PROVE  AsOccluder(f) \in Proper(Rects)
  <1>1. f \in Rects /\ ~IsEmpty(f)
    BY BorderAssumption
  <1> QED
    BY <1>1 DEF AsOccluder, Grown, Proper, Rect, Rects

LEMMA OccludersTyped ==
    ASSUME NEW frames \in [BorderWindows -> FrameChoices], NEW some \in SUBSET BorderWindows
    PROVE  LET holes == {AsOccluder(frames[v]) : v \in some}
           IN  holes \in SUBSET Proper(Rects) /\ IsFiniteSet(holes)
  <1> DEFINE holes == {AsOccluder(frames[v]) : v \in some}
             rect == [v \in some |-> AsOccluder(frames[v])]
  <1>1. rect \in Surjection(some, holes)
    BY DEF Surjection
  <1>2. IsFiniteSet(some)
    BY BorderAssumption, FS_Subset
  <1>3. IsFiniteSet(holes)
    <2> HIDE DEF rect, holes
    <2> QED
      BY <1>1, <1>2, FS_Surjection
  <1>4. holes \in SUBSET Proper(Rects)
    BY OccluderTyped
  <1> QED
    BY <1>3, <1>4
(* What covers the border of a window: the windows before it, and that in  *)
(* the foreground wherever the snapshot has it.                            *)
HolesOf(s, w) == {AsOccluder(s.frame[v]) : v \in OccludersOf(s, w)}
                   \cup (IF w = s.fg THEN {} ELSE ForegroundHole(s))

LEMMA HolesTyped ==
    ASSUME NEW s \in Snapshots, NEW w \in BorderWindows
    PROVE  /\ {AsOccluder(s.frame[v]) : v \in OccludersOf(s, w)} \in SUBSET Proper(Rects)
           /\ IsFiniteSet({AsOccluder(s.frame[v]) : v \in OccludersOf(s, w)})
           /\ ForegroundHole(s) \in SUBSET Proper(Rects) /\ IsFiniteSet(ForegroundHole(s))
  <1>1. s.frame \in [BorderWindows -> FrameChoices] /\ s.order \in [BorderWindows -> SUBSET BorderWindows]
        /\ s.fg \in BorderWindows \cup {NoBorderWindow}
    BY DEF Snapshots, Orders
  <1>2. OccludersOf(s, w) \in SUBSET BorderWindows
    BY <1>1 DEF OccludersOf
  <1>3. ForegroundHole(s) \in SUBSET Proper(Rects)
    BY <1>1, OccluderTyped DEF ForegroundHole
  <1>4. IsFiniteSet(ForegroundHole(s))
    BY FS_EmptySet, FS_Singleton DEF ForegroundHole
  <1> QED
    BY <1>1, <1>2, <1>3, <1>4, OccludersTyped

LEMMA VisibleExact ==
    ASSUME NEW s \in Snapshots, NEW w \in BorderWindows, NEW stroke \in Int
    PROVE  /\ VisibleOf(s, w, stroke) \subseteq Proper(Rects)
           /\ \A x, y \in Int : (\E r \in VisibleOf(s, w, stroke) : Covers(r, x, y))
                <=> /\ \E u \in UnitsOf(s, w, stroke) : Covers(u, x, y)
                    /\ \A h \in HolesOf(s, w) : ~Covers(h, x, y)
  <1> DEFINE units == UnitsOf(s, w, stroke)
             holes == {AsOccluder(s.frame[v]) : v \in OccludersOf(s, w)}
             front == ForegroundHole(s)
             cut == ClipSegments(units, holes)
  <1>1. units \in SUBSET Proper(Rects)
    BY UnitsTyped
  <1>2. holes \in SUBSET Proper(Rects) /\ IsFiniteSet(holes)
        /\ front \in SUBSET Proper(Rects) /\ IsFiniteSet(front)
    BY HolesTyped
  <1>3. VisibleOf(s, w, stroke) = IF w = s.fg THEN cut ELSE ClipSegments(cut, front)
    BY DEF VisibleOf
  <1>4. HolesOf(s, w) = holes \cup (IF w = s.fg THEN {} ELSE front)
    BY DEF HolesOf
  <1> HIDE DEF units, holes, front
  <1>5. /\ cut \subseteq Proper(Rects)
        /\ \A x, y \in Int : (\E p \in cut : Covers(p, x, y))
             <=> (\E u \in units : Covers(u, x, y)) /\ \A h \in holes : ~Covers(h, x, y)
    BY <1>1, <1>2, ClipExact
  <1> HIDE DEF cut
  <1>6. /\ ClipSegments(cut, front) \subseteq Proper(Rects)
        /\ \A x, y \in Int : (\E p \in ClipSegments(cut, front) : Covers(p, x, y))
             <=> (\E u \in cut : Covers(u, x, y)) /\ \A h \in front : ~Covers(h, x, y)
    BY <1>2, <1>5, ClipExact
  <1>7. CASE w = s.fg
    <2>1. VisibleOf(s, w, stroke) = cut /\ HolesOf(s, w) = holes
      BY <1>3, <1>4, <1>7
    <2> QED
      BY <1>5, <2>1 DEF units
  <1>8. CASE w # s.fg
    <2>1. VisibleOf(s, w, stroke) = ClipSegments(cut, front) /\ HolesOf(s, w) = holes \cup front
      BY <1>3, <1>4, <1>8
    <2> DEFINE seen == ClipSegments(cut, front)
    <2>2. \A x, y \in Int : (\E p \in seen : Covers(p, x, y))
             <=> (\E u \in units : Covers(u, x, y)) /\ \A h \in holes \cup front : ~Covers(h, x, y)
      <3> HIDE DEF seen
      <3>1. \A x, y \in Int : (\E p \in seen : Covers(p, x, y))
              <=> (\E u \in cut : Covers(u, x, y)) /\ \A h \in front : ~Covers(h, x, y)
        BY <1>6 DEF seen
      <3> QED
        BY <1>5, <3>1
    <2> QED
      BY <1>6, <2>1, <2>2 DEF units
  <1> QED
    BY <1>7, <1>8

(* The windows that have a border in the plan for a snapshot.              *)
Bordered(s, models) ==
  {w \in BorderWindows : /\ Paintable(s, w) /\ models[w] # "none"
                         /\ s.state[w] # "maximized" \/ models[w] = "pinned"}

LEMMA StrokesOf ==
    ASSUME NEW s, NEW models, NEW stroke
    PROVE  \A p : p \in PlanBorders(s, models, stroke) <=>
             \E w \in Bordered(s, models) : \E r \in VisibleOf(s, w, stroke) :
               p = [win |-> w, rect |-> r, colour |-> models[w]]
  BY DEF PlanBorders, Bordered

LEMMA PlanTyped ==
    ASSUME NEW s \in Snapshots, NEW models, NEW stroke \in Int
    PROVE  \A p \in PlanBorders(s, models, stroke) :
             /\ p.win \in BorderWindows /\ p.rect \in Proper(Rects)
             /\ p.rect \in VisibleOf(s, p.win, stroke)
  BY StrokesOf, VisibleExact DEF Bordered

(* What the plan paints at a pixel.                                        *)
LEMMA PlanPaints ==
    ASSUME NEW s, NEW models, NEW stroke, NEW x, NEW y
    PROVE  PaintedAt(PlanBorders(s, models, stroke), x, y)
             = {<<w, models[w]>> : w \in {w \in Bordered(s, models) :
                                            \E r \in VisibleOf(s, w, stroke) : Covers(r, x, y)}}
  <1> DEFINE plan == PlanBorders(s, models, stroke)
             seen == {w \in Bordered(s, models) :
                        \E r \in VisibleOf(s, w, stroke) : Covers(r, x, y)}
  <1>1. ASSUME NEW w \in seen
        PROVE  <<w, models[w]>> \in PaintedAt(plan, x, y)
    <2>1. PICK r \in VisibleOf(s, w, stroke) : Covers(r, x, y)
      OBVIOUS
    <2> DEFINE p == [win |-> w, rect |-> r, colour |-> models[w]]
    <2>2. p \in plan
      BY <1>1, <2>1, StrokesOf
    <2>3. p.win = w /\ p.rect = r /\ p.colour = models[w]
      OBVIOUS
    <2> HIDE DEF p, plan
    <2> QED
      BY <2>1, <2>2, <2>3 DEF PaintedAt
  <1>2. ASSUME NEW p \in plan, Covers(p.rect, x, y)
        PROVE  \E w \in seen : <<p.win, p.colour>> = <<w, models[w]>>
    BY <1>2, StrokesOf
  <1>3. \A e \in PaintedAt(plan, x, y) : \E w \in seen : e = <<w, models[w]>>
    <2> HIDE DEF plan, seen
    <2> QED
      BY <1>2 DEF PaintedAt
  <1> HIDE DEF plan, seen
  <1>4. PaintedAt(plan, x, y) = {<<w, models[w]>> : w \in seen}
    BY <1>1, <1>3
  <1> QED
    BY <1>4 DEF plan, seen
(* Two snapshots that differ in the z order only, and cover each border    *)
(* alike, have the same picture.                                           *)
LEMMA SamePlans ==
    ASSUME NEW s \in Snapshots, NEW t \in Snapshots, NEW models, NEW stroke \in Int,
           s.frame = t.frame, s.state = t.state, s.cloaked = t.cloaked,
           s.monitors = t.monitors,
           \A w \in BorderWindows : HolesOf(s, w) = HolesOf(t, w)
    PROVE  \A x, y \in Int : PaintedAt(PlanBorders(s, models, stroke), x, y)
                               = PaintedAt(PlanBorders(t, models, stroke), x, y)
  <1> DEFINE A == PlanBorders(s, models, stroke)
             B == PlanBorders(t, models, stroke)
  <1>1. Bordered(s, models) = Bordered(t, models)
    BY DEF Bordered, Paintable
  <1>2. \A w \in BorderWindows : UnitsOf(s, w, stroke) = UnitsOf(t, w, stroke)
    <2> DEFINE ring(f) == BorderRingSegments(Grown(f, stroke - 1),
                                             RingInner(f, stroke, stroke - 1))
               limits(f, screens) == {ClampBorderToScreen(f, Grown(f, stroke - 1), m.bounds,
                                                          m.work, stroke - 1) : m \in screens}
               units(f, screens) ==
                 IF \E l \in limits(f, screens) : ~IsEmpty(l)
                 THEN ClipToBounds(ring(f), CHOOSE l \in limits(f, screens) : ~IsEmpty(l))
                 ELSE ring(f)
    <2>1. \A w : ScreenOf(s, s.frame[w]) = ScreenOf(t, t.frame[w])
      BY DEF ScreenOf
    <2>2. \A w : /\ UnitsOf(s, w, stroke) = units(s.frame[w], ScreenOf(s, s.frame[w]))
                 /\ UnitsOf(t, w, stroke) = units(t.frame[w], ScreenOf(t, t.frame[w]))
      BY Zenon DEF UnitsOf
    <2> HIDE DEF units
    <2> QED
      BY <2>1, <2>2
  <1>3. \A x, y \in Int : PaintedAt(A, x, y) = PaintedAt(B, x, y)
    <2> SUFFICES ASSUME NEW x \in Int, NEW y \in Int
                 PROVE  PaintedAt(A, x, y) = PaintedAt(B, x, y)
      OBVIOUS
    <2>1. \A w \in Bordered(s, models) :
            (\E r \in VisibleOf(s, w, stroke) : Covers(r, x, y))
              <=> (\E r \in VisibleOf(t, w, stroke) : Covers(r, x, y))
      <3> SUFFICES ASSUME NEW w \in Bordered(s, models)
                   PROVE  (\E r \in VisibleOf(s, w, stroke) : Covers(r, x, y))
                            <=> (\E r \in VisibleOf(t, w, stroke) : Covers(r, x, y))
        OBVIOUS
      <3>1. w \in BorderWindows
        BY DEF Bordered
      <3>2. UnitsOf(s, w, stroke) = UnitsOf(t, w, stroke) /\ HolesOf(s, w) = HolesOf(t, w)
        BY <1>2, <3>1
      <3>3. (\E r \in VisibleOf(s, w, stroke) : Covers(r, x, y))
              <=> /\ \E u \in UnitsOf(s, w, stroke) : Covers(u, x, y)
                  /\ \A h \in HolesOf(s, w) : ~Covers(h, x, y)
        BY <3>1, VisibleExact
      <3>4. (\E r \in VisibleOf(t, w, stroke) : Covers(r, x, y))
              <=> /\ \E u \in UnitsOf(t, w, stroke) : Covers(u, x, y)
                  /\ \A h \in HolesOf(t, w) : ~Covers(h, x, y)
        BY <3>1, VisibleExact
      <3> QED
        BY <3>2, <3>3, <3>4
    <2>2. {w \in Bordered(s, models) : \E r \in VisibleOf(s, w, stroke) : Covers(r, x, y)}
            = {w \in Bordered(t, models) : \E r \in VisibleOf(t, w, stroke) : Covers(r, x, y)}
      BY <1>1, <2>1
    <2> DEFINE seenS == {w \in Bordered(s, models) :
                           \E r \in VisibleOf(s, w, stroke) : Covers(r, x, y)}
               seenT == {w \in Bordered(t, models) :
                           \E r \in VisibleOf(t, w, stroke) : Covers(r, x, y)}
    <2>3. /\ PaintedAt(A, x, y) = {<<w, models[w]>> : w \in seenS}
          /\ PaintedAt(B, x, y) = {<<w, models[w]>> : w \in seenT}
      <3> HIDE DEF A, B
      <3>1. PaintedAt(A, x, y) = {<<w, models[w]>> : w \in seenS}
        BY PlanPaints DEF A
      <3>2. PaintedAt(B, x, y) = {<<w, models[w]>> : w \in seenT}
        BY PlanPaints DEF B
      <3> QED
        BY <3>1, <3>2, Zenon
    <2> HIDE DEF seenS, seenT, A, B
    <2>4. seenS = seenT
      BY <2>2 DEF seenS, seenT
    <2> QED
      BY <2>3, <2>4
  <1> QED
    BY <1>3

(* The window in the foreground covers the same whether the z order tells  *)
(* of it or not; and it is itself covered by windows of its own only.      *)
LEMMA HolesSettled ==
    ASSUME NEW s \in Snapshots, NEW t \in Snapshots,
           s.frame = t.frame, s.state = t.state, s.cloaked = t.cloaked, s.fg = t.fg,
           \A v, w \in BorderWindows \ {s.fg} : v \in s.order[w] <=> v \in t.order[w],
           OrdinaryWindows \/ s.order = t.order,
           NEW w \in BorderWindows
    PROVE  HolesOf(s, w) = HolesOf(t, w)
  <1>1. /\ \A v : Covering(s, v) <=> Covering(t, v)
        /\ ForegroundHole(s) = ForegroundHole(t)
    BY DEF Covering, Paintable, ForegroundHole
  <1>2. s.order \in [BorderWindows -> SUBSET BorderWindows]
        /\ t.order \in [BorderWindows -> SUBSET BorderWindows]
    BY DEF Snapshots, Orders
  <1>3. CASE s.order = t.order
    <2>1. OccludersOf(s, w) = OccludersOf(t, w)
      BY <1>1, <1>3 DEF OccludersOf
    <2> QED
      BY <1>1, <2>1 DEF HolesOf
  <1>4. CASE OrdinaryWindows /\ w = s.fg
    <2>1. \A v \in BorderWindows : v \notin TreatAsTopmost /\ OwnerOf[v] # w
      BY <1>4, BorderAssumption DEF OrdinaryWindows
    <2>2. OccludersOf(s, w) = {} /\ OccludersOf(t, w) = {}
      BY <1>2, <1>4, <2>1 DEF OccludersOf
    <2> QED
      BY <1>1, <2>2 DEF HolesOf
  <1>5. CASE w # s.fg
    <2>1. \A v \in BorderWindows :
            v # s.fg => (v \in OccludersOf(s, w) <=> v \in OccludersOf(t, w))
      BY <1>1, <1>5 DEF OccludersOf
    <2>2. \A v \in OccludersOf(s, w) \cup OccludersOf(t, w) :
            v = s.fg => AsOccluder(s.frame[v]) \in ForegroundHole(s)
      <3> SUFFICES ASSUME s.fg \in OccludersOf(s, w) \cup OccludersOf(t, w)
                   PROVE  AsOccluder(s.frame[s.fg]) \in ForegroundHole(s)
        OBVIOUS
      <3>1. s.fg \in BorderWindows /\ Covering(s, s.fg)
        BY <1>1, <1>2, <1>5 DEF OccludersOf
      <3>2. s.fg # NoBorderWindow
        BY <3>1, BorderAssumption DEF NoBorderWindow
      <3> QED
        BY <3>1, <3>2 DEF ForegroundHole
    <2>3. OccludersOf(s, w) \subseteq BorderWindows /\ OccludersOf(t, w) \subseteq BorderWindows
      BY <1>2 DEF OccludersOf
    <2>4. /\ HolesOf(s, w) = {AsOccluder(s.frame[v]) : v \in OccludersOf(s, w)} \cup ForegroundHole(s)
          /\ HolesOf(t, w) = {AsOccluder(s.frame[v]) : v \in OccludersOf(t, w)} \cup ForegroundHole(s)
      BY <1>1, <1>5 DEF HolesOf
    <2> QED
      BY <2>1, <2>2, <2>3, <2>4
  <1> QED
    BY <1>3, <1>4, <1>5

(* With what is known of the foreground window, the place of every other   *)
(* window settles the z order.                                             *)
LEMMA SettledOrders ==
    ASSUME NEW o \in Orders, NEW q \in Orders, NEW f \in BorderWindows \cup {NoBorderWindow},
           \A v, w \in BorderWindows \ {f} : v \in o[w] <=> v \in q[w]
    PROVE  SettledOrder(o, f) = SettledOrder(q, f)
  <1>1. o \in [BorderWindows -> SUBSET BorderWindows] /\ q \in [BorderWindows -> SUBSET BorderWindows]
    BY DEF Orders
  <1>2. CASE f = NoBorderWindow
    <2>1. f \notin BorderWindows
      BY <1>2, BorderAssumption DEF NoBorderWindow
    <2>2. \A v, w \in BorderWindows : v \in o[w] <=> v \in q[w]
      BY <2>1
    <2>3. \A w \in BorderWindows : o[w] = q[w]
      BY <1>1, <2>2
    <2> QED
      BY <1>1, <1>2, <2>3 DEF SettledOrder
  <1>3. CASE f # NoBorderWindow
    <2>1. \A w \in BorderWindows \ {f} : o[w] \ {f} = q[w] \ {f} /\ o[w] \cup {f} = q[w] \cup {f}
      BY <1>1
    <2>2. ToFront(o, f) = ToFront(q, f)
      BY <1>1, <2>1 DEF ToFront, PutBehind
    <2> QED
      BY <1>3, <2>2 DEF SettledOrder
  <1> QED
    BY <1>2, <1>3

(* The order of the other windows is that of before.                       *)
LEMMA OthersStay ==
    ASSUME NEW o \in Orders, NEW f \in BorderWindows, NEW front
    PROVE  \A v, w \in BorderWindows \ {f} : v \in PutBehind(o, f, front)[w] <=> v \in o[w]
  BY DEF Orders, PutBehind

(* The canvases show the strokes painted last, but for a painting left out. *)
CanvasShows == unpainted \/ canvas = Render(canvas, lastStrokes)

(* On a monitor its part of the strokes looks like all of them.            *)
LEMMA PartLooksAlike ==
    ASSUME NEW m, NEW strokes, NEW x \in Int, NEW y \in Int, Covers(m.bounds, x, y),
           m.bounds \in Rects, \A p \in strokes : p.rect \in Rects
    PROVE  PaintedAt(OnScreen(strokes, m), x, y) = PaintedAt(strokes, x, y)
  <1>1. ASSUME NEW p \in strokes, Covers(p.rect, x, y)
        PROVE  Intersects(p.rect, m.bounds)
    <2>1. \A q \in {p.rect, m.bounds} :
             q.left \in Int /\ q.top \in Int /\ q.right \in Int /\ q.bottom \in Int
      BY DEF Rects
    <2> QED
      BY <1>1, <2>1 DEF Covers, Intersects
  <1>2. \A p : p \in OnScreen(strokes, m) /\ Covers(p.rect, x, y)
                 <=> p \in strokes /\ Covers(p.rect, x, y)
    BY <1>1 DEF OnScreen
  <1> QED
    BY <1>2 DEF PaintedAt

(* Two pictures that are alike at every pixel of a monitor are the same.   *)
LEMMA AlikeIsSame ==
    ASSUME NEW m, NEW A, NEW B, m.bounds \in Rects, \A p \in A \cup B : p.rect \in Rects,
           \A x, y \in Int : Covers(m.bounds, x, y) => PaintedAt(A, x, y) = PaintedAt(B, x, y)
    PROVE  SamePicture(m, A, B)
  <1>1. /\ {m.bounds.left} \cup UNION {{p.rect.left, p.rect.right} : p \in A \cup B} \subseteq Int
        /\ {m.bounds.top} \cup UNION {{p.rect.top, p.rect.bottom} : p \in A \cup B} \subseteq Int
    BY DEF Rects
  <1> QED
    BY <1>1 DEF SamePicture

LEMMA InvMatches == BorderInv /\ CanvasShows => BordersMatchDesktop
  <1> DEFINE borders == PlanBorders(TrueSnapshot, ModelsNow, width)
  <1> SUFFICES ASSUME BorderInv, CanvasShows, borderMail = {}, ~suspended, ~unpainted,
                      snapshot.monitors = monitors, SameLayout,
                      OrdinaryWindows \/ snapshot.order = SettledOrder(snapshot.order, snapshot.fg),
                      NEW m \in monitors
               PROVE  SamePicture(m, canvas[m], borders)
    BY DEF BordersMatchDesktop
  <1> HIDE DEF borders
  <1> DEFINE o == SettledOrder(desktop.order, desktop.fg)
  <1>1. BorderTypeOK /\ snapshot \in Snapshots
    BY DEF BorderInv, BorderTypeOK
  <1>2. /\ snapshotValid /\ lastStrokes = PlanBorders(snapshot, borderModels, width)
        /\ borderModels = ModelsNow
        /\ snapshot.fg = desktop.fg /\ snapshot.state = desktop.state
        /\ snapshot.cloaked = desktop.cloaked
        /\ \A w \in BorderWindows : snapshot.frame[w] = desktop.frame[w]
        /\ \A v, w \in BorderWindows \ {desktop.fg} :
             v \in snapshot.order[w] <=> v \in desktop.order[w]
    BY DEF BorderInv, PlanIsPainted, SnapshotFollows, ModelsFollow
  <1>3. snapshot.frame = desktop.frame
    BY <1>1, <1>2 DEF Snapshots, Desktops, BorderTypeOK
  <1>4. snapshot.order \in Orders /\ desktop.order \in Orders
        /\ desktop.fg \in BorderWindows \cup {NoBorderWindow}
    BY <1>1 DEF Snapshots, Desktops, BorderTypeOK
  <1>5. o \in Orders
    BY <1>4, CaptureOrders DEF SettledOrder
  <1>6. /\ TrueSnapshot = [fg |-> desktop.fg, frame |-> desktop.frame, state |-> desktop.state,
                           cloaked |-> desktop.cloaked, order |-> o, monitors |-> monitors]
        /\ TrueSnapshot \in Snapshots
    <2>1. TrueSnapshot = [fg |-> desktop.fg, frame |-> desktop.frame, state |-> desktop.state,
                          cloaked |-> desktop.cloaked, order |-> o, monitors |-> monitors]
      BY DEF TrueSnapshot, CaptureDesktop
    <2> HIDE DEF o
    <2> QED
      BY <1>1, <1>5, <2>1 DEF Snapshots, Desktops, BorderTypeOK
  <1>7. \A v, w \in BorderWindows \ {desktop.fg} : v \in o[w] <=> v \in desktop.order[w]
    BY <1>4, OthersStay DEF SettledOrder, ToFront
  <1>8. OrdinaryWindows \/ snapshot.order = o
    BY <1>2, <1>4, SettledOrders
  <1> DEFINE t == TrueSnapshot
  <1>9. /\ t.frame = snapshot.frame /\ t.state = snapshot.state /\ t.cloaked = snapshot.cloaked
        /\ t.fg = snapshot.fg
        /\ t.monitors = snapshot.monitors /\ t.order = o
    BY <1>2, <1>3, <1>6
  <1>10. \A v, w \in BorderWindows \ {snapshot.fg} : v \in snapshot.order[w] <=> v \in t.order[w]
    BY <1>2, <1>7, <1>9
  <1>11. t \in Snapshots /\ (OrdinaryWindows \/ snapshot.order = t.order)
    BY <1>6, <1>8, <1>9
  <1> HIDE DEF t, o
  <1>12. \A w \in BorderWindows : HolesOf(snapshot, w) = HolesOf(t, w)
    BY <1>1, <1>9, <1>10, <1>11, HolesSettled
  <1>13. width \in Int
    BY <1>1, BorderAssumption DEF BorderTypeOK
  <1>14. \A x, y \in Int : PaintedAt(lastStrokes, x, y) = PaintedAt(borders, x, y)
    <2>1. \A x, y \in Int : PaintedAt(PlanBorders(snapshot, ModelsNow, width), x, y)
                             = PaintedAt(PlanBorders(t, ModelsNow, width), x, y)
      BY <1>1, <1>9, <1>11, <1>12, <1>13, SamePlans
    <2>2. lastStrokes = PlanBorders(snapshot, ModelsNow, width)
      BY <1>2
    <2> QED
      BY <2>1, <2>2 DEF t, borders
  <1>15. canvas[m] = OnScreen(lastStrokes, m)
    <2>1. canvas = Render(canvas, lastStrokes) /\ m \in DOMAIN canvas
      BY DEF CanvasShows, SameLayout
    <2> QED
      BY <2>1 DEF Render
  <1>16. /\ \A p \in lastStrokes : p.rect \in Rects
         /\ \A p \in borders : p.rect \in Rects
    <2>1. \A p \in lastStrokes : p.rect \in Rects
      BY <1>1 DEF BorderTypeOK, Proper
    <2>2. \A p \in borders : p.rect \in Rects
      BY <1>11, <1>13, PlanTyped DEF borders, t, Proper
    <2> QED
      BY <2>1, <2>2
  <1>17. m.bounds \in Rects
    BY <1>1, BorderAssumption DEF BorderTypeOK
  <1>18. \A x, y \in Int : Covers(m.bounds, x, y) =>
           PaintedAt(canvas[m], x, y) = PaintedAt(borders, x, y)
    BY <1>14, <1>15, <1>16, <1>17, PartLooksAlike
  <1>19. \A p \in canvas[m] \cup borders : p.rect \in Rects
    BY <1>15, <1>16 DEF OnScreen
  <1> QED
    BY <1>17, <1>18, <1>19, AlikeIsSame

LEMMA InvUncrossed == BorderInv => ForegroundUncrossed
  <1> SUFFICES ASSUME BorderInv, NEW s \in lastStrokes, NEW hole \in ForegroundHole(snapshot),
                      s.win # snapshot.fg, Intersects(s.rect, hole)
               PROVE  FALSE
    BY DEF ForegroundUncrossed
  <1> DEFINE x == AtLeast(s.rect.left, hole.left)
             y == AtLeast(s.rect.top, hole.top)
  <1>1. snapshot \in Snapshots /\ width \in Int
    BY BorderAssumption DEF BorderInv, BorderTypeOK
  <1>2. s \in PlanBorders(snapshot, borderModels, width)
    BY DEF BorderInv, PlanIsPainted
  <1>3. /\ s.win \in BorderWindows /\ s.rect \in Proper(Rects)
        /\ s.rect \in VisibleOf(snapshot, s.win, width)
    BY <1>1, <1>2, PlanTyped
  <1>4. hole \in Proper(Rects)
    BY <1>1, <1>3, HolesTyped
  <1>5. x \in Int /\ y \in Int /\ Covers(s.rect, x, y) /\ Covers(hole, x, y)
    BY <1>3, <1>4 DEF Proper, Rects, IsEmpty, Intersects, Covers, AtLeast
  <1>6. hole \in HolesOf(snapshot, s.win)
    BY DEF HolesOf
  <1> HIDE DEF x, y
  <1> QED
    BY <1>1, <1>3, <1>5, <1>6, VisibleExact
LEMMA BorderInvInit == BorderInit => BorderInv
  <1> SUFFICES ASSUME BorderInit PROVE BorderInv
    OBVIOUS
  <1>1. PICK o \in Orders :
          desktop = [frame |-> [w \in BorderWindows |-> CHOOSE f \in FrameChoices : TRUE],
                     state |-> [w \in BorderWindows |-> "normal"], cloaked |-> {},
                     order |-> o, fg |-> NoBorderWindow]
    BY DEF BorderInit
  <1>2. (CHOOSE f \in FrameChoices : TRUE) \in FrameChoices
    BY BorderAssumption
  <1>3. desktop \in Desktops
    BY <1>1, <1>2 DEF Desktops, States
  <1>4. (CHOOSE k \in BorderWidths : TRUE) \in BorderWidths
    BY BorderAssumption
  <1>5. monitors \in Layouts
    BY BorderAssumption DEF BorderInit
  <1>6. snapshot \in Snapshots
    BY <1>3, <1>5 DEF BorderInit, CaptureDesktop, Desktops, Snapshots
  <1>7. DOMAIN canvas = monitors
    BY DEF BorderInit
  <1>8. /\ borderModels \in [BorderWindows -> {"none", "plain", "active", "pinned"}]
        /\ borderPins = {} /\ lastStrokes = {} /\ width \in BorderWidths
    BY <1>4 DEF BorderInit
  <1>9. {locked, snapshotValid, suspended, sunk, unpainted} \subseteq BOOLEAN
    BY DEF BorderInit
  <1>10. BorderTypeOK
    BY <1>3, <1>5, <1>6, <1>7, <1>8, <1>9 DEF BorderTypeOK
  <1>11. <<"changed">> \in borderMail /\ ~snapshotValid /\ ~suspended
    BY DEF BorderInit
  <1> QED
    BY <1>8, <1>10, <1>11 DEF BorderInv, SnapshotFollows, ModelsFollow, PlanIsPainted

(* What painting needs of the snapshot and the models, and leaves behind.  *)
LEMMA RedrawKeeps ==
    ASSUME BorderTypeOK, NEW s \in Snapshots, NEW models, NEW stroke \in BorderWidths, NEW last,
           NEW looked \in BOOLEAN, Redraw(s, models, stroke, last, looked),
           borderModels' = models, width' = stroke, suspended' = FALSE
    PROVE  /\ snapshot' = s /\ snapshotValid' = TRUE
           /\ PlanIsPainted'
           /\ DOMAIN canvas' \in Layouts
           /\ \A p \in lastStrokes' : p.win \in BorderWindows /\ p.rect \in Proper(Rects)
           /\ sunk' \in BOOLEAN /\ unpainted' \in BOOLEAN
  <1>1. /\ snapshot' = s /\ snapshotValid' = TRUE
        /\ lastStrokes' = PlanBorders(s, models, stroke)
        /\ sunk' = (SameLayout /\ sunk /\ ~looked)
    BY DEF Redraw
  <1>2. canvas' = Synced \/ \E strokes : canvas' = Render(Synced, strokes)
    BY DEF Redraw
  <1>3. DOMAIN Synced \in Layouts
    BY DEF Synced, SameLayout, BorderTypeOK
  <1>4. DOMAIN canvas' \in Layouts
    BY <1>2, <1>3 DEF Render
  <1>5. sunk' \in BOOLEAN /\ unpainted' \in BOOLEAN
    <2>1. sunk' \in BOOLEAN
      BY <1>1
    <2>2. unpainted' \in BOOLEAN
      BY DEF Redraw
    <2> QED
      BY <2>1, <2>2
  <1>6. \A p \in lastStrokes' : p.win \in BorderWindows /\ p.rect \in Proper(Rects)
    BY <1>1, BorderAssumption, PlanTyped
  <1>7. PlanIsPainted'
    BY <1>1 DEF PlanIsPainted
  <1> QED
    BY <1>1, <1>4, <1>5, <1>6, <1>7

(* A snapshot that was just taken is the desktop.                          *)
LEMMA CaptureFollows ==
    ASSUME BorderTypeOK, NEW missed \in MayMiss
    PROVE  LET s == CaptureDesktop(missed)
           IN  /\ s.fg = desktop.fg /\ s.state = desktop.state
               /\ s.cloaked = desktop.cloaked /\ s.frame = desktop.frame
               /\ \A v, w \in BorderWindows \ {desktop.fg} :
                    v \in s.order[w] <=> v \in desktop.order[w]
  <1> DEFINE s == CaptureDesktop(missed)
  <1>1. /\ s.fg = desktop.fg /\ s.state = desktop.state
        /\ s.cloaked = desktop.cloaked /\ s.frame = desktop.frame
        /\ s.order = IF missed THEN PutBehind(desktop.order, desktop.fg, Topmost \ {desktop.fg})
                     ELSE desktop.order
    BY DEF CaptureDesktop
  <1>2. missed => desktop.fg \in BorderWindows
    BY DEF MayMiss, BorderTypeOK, Desktops
  <1>3. desktop.order \in Orders
    BY DEF BorderTypeOK, Desktops
  <1> HIDE DEF s
  <1>4. \A v, w \in BorderWindows \ {desktop.fg} : v \in s.order[w] <=> v \in desktop.order[w]
    BY <1>1, <1>2, <1>3, OthersStay
  <1> QED
    BY <1>1, <1>4 DEF s

LEMMA RefreshedTyped ==
    ASSUME BorderTypeOK, NEW w \in BorderWindows
    PROVE  /\ Refreshed(w) \in Snapshots
           /\ Refreshed(w).fg = snapshot.fg /\ Refreshed(w).order = snapshot.order
           /\ Refreshed(w).frame = [snapshot.frame EXCEPT ![w] = desktop.frame[w]]
           /\ Refreshed(w).state = [snapshot.state EXCEPT ![w] = desktop.state[w]]
           /\ Refreshed(w).cloaked = snapshot.cloaked
  <1>1. snapshot \in Snapshots /\ desktop \in Desktops
    BY DEF BorderTypeOK
  <1>2. desktop.frame[w] \in FrameChoices /\ desktop.state[w] \in States
    BY <1>1 DEF Desktops
  <1> DEFINE frames == [snapshot.frame EXCEPT ![w] = desktop.frame[w]]
             states == [snapshot.state EXCEPT ![w] = desktop.state[w]]
             first == [snapshot EXCEPT !.frame = frames]
  <1>3. frames \in [BorderWindows -> FrameChoices] /\ states \in [BorderWindows -> States]
    BY <1>1, <1>2 DEF Snapshots
  <1>4. Refreshed(w) = [first EXCEPT !.state = [first.state EXCEPT ![w] = desktop.state[w]]]
    BY Zenon DEF Refreshed
  <1> HIDE DEF frames
  <1>5. /\ first \in Snapshots /\ first.state = snapshot.state /\ first.frame = frames
        /\ first.order = snapshot.order /\ first.fg = snapshot.fg
        /\ first.cloaked = snapshot.cloaked
    BY <1>1, <1>3 DEF Snapshots
  <1>6. Refreshed(w) = [first EXCEPT !.state = states]
    BY <1>4, <1>5
  <1> HIDE DEF states, first
  <1>7. /\ [first EXCEPT !.state = states] \in Snapshots
        /\ [first EXCEPT !.state = states].state = states
        /\ [first EXCEPT !.state = states].frame = frames
        /\ [first EXCEPT !.state = states].order = snapshot.order
        /\ [first EXCEPT !.state = states].fg = snapshot.fg
        /\ [first EXCEPT !.state = states].cloaked = snapshot.cloaked
    BY <1>3, <1>5 DEF Snapshots
  <1> QED
    BY <1>6, <1>7 DEF frames, states

(* The desktop changes: the program is as it was, and is told.             *)
LEMMA ChangeFollows ==
    ASSUME BorderInv, NEW d \in Desktops, NEW mail, DesktopChanges(d, mail),
           \/ mail = {<<"changed">>}
           \/ /\ d.fg = desktop.fg /\ d.state = desktop.state /\ d.cloaked = desktop.cloaked
              /\ d.order = desktop.order
              /\ \A w \in BorderWindows : <<"moved", w>> \in mail \/ d.frame[w] = desktop.frame[w]
    PROVE  BorderInv'
  <1>1. desktop' = d /\ borderMail' = borderMail \cup mail
        /\ UNCHANGED <<monitors, locked, program, sunk>>
    BY DEF DesktopChanges
  <1>2. UNCHANGED <<borderModels, borderPins, width, snapshot, snapshotValid, suspended,
                    lastStrokes, canvas, unpainted>>
    BY <1>1 DEF program
  <1>3. BorderTypeOK'
    BY <1>1, <1>2 DEF BorderInv, BorderTypeOK
  <1>4. PlanIsPainted'
    BY <1>1, <1>2 DEF BorderInv, PlanIsPainted
  <1>5. ModelsFollow' /\ SnapshotFollows'
    <2>1. CASE mail = {<<"changed">>}
      <3>1. <<"changed">> \in borderMail'
        BY <1>1, <2>1
      <3> QED
        BY <3>1 DEF ModelsFollow, SnapshotFollows
    <2>2. CASE /\ d.fg = desktop.fg /\ d.state = desktop.state /\ d.cloaked = desktop.cloaked
               /\ d.order = desktop.order
               /\ \A w \in BorderWindows :
                    <<"moved", w>> \in mail \/ d.frame[w] = desktop.frame[w]
      <3>1. <<"changed">> \notin borderMail' => <<"changed">> \notin borderMail
        BY <1>1
      <3>2. ModelsNow' = ModelsNow
        BY <1>1, <1>2, <2>2 DEF ModelsNow, Paintable
      <3>3. \A w \in BorderWindows : <<"moved", w>> \notin borderMail' =>
              <<"moved", w>> \notin borderMail /\ desktop'.frame[w] = desktop.frame[w]
        BY <1>1, <2>2
      <3>4. ModelsFollow'
        BY <1>2, <3>1, <3>2 DEF BorderInv, ModelsFollow
      <3>5. SnapshotFollows'
        BY <1>1, <1>2, <2>2, <3>1, <3>3 DEF BorderInv, SnapshotFollows
      <3> QED
        BY <3>4, <3>5
    <2> QED
      BY <2>1, <2>2
  <1> QED
    BY <1>3, <1>4, <1>5 DEF BorderInv
(* A step besides the desktop that takes no event away, nor the program on. *)
LEMMA OutsideKeeps ==
    ASSUME BorderInv, UNCHANGED <<desktop, program>>, borderMail \subseteq borderMail',
           monitors' \in Layouts, locked' \in BOOLEAN, sunk' \in BOOLEAN
    PROVE  BorderInv'
  <1>1. UNCHANGED <<borderModels, borderPins, width, snapshot, snapshotValid, suspended,
                    lastStrokes, canvas, unpainted>>
    BY DEF program
  <1>2. BorderTypeOK'
    BY <1>1 DEF BorderInv, BorderTypeOK
  <1>3. ModelsNow' = ModelsNow
    BY <1>1 DEF ModelsNow
  <1>4. ModelsFollow' /\ SnapshotFollows' /\ PlanIsPainted'
    BY <1>1, <1>3 DEF BorderInv, ModelsFollow, SnapshotFollows, PlanIsPainted
  <1> QED
    BY <1>2, <1>4 DEF BorderInv

(* The z order is put right: only the foreground window moves in it.       *)
LEMMA SettlingKeeps == ASSUME BorderInv, OrderSettles PROVE BorderInv'
  <1> DEFINE o == ToFront(desktop.order, desktop.fg)
  <1>1. /\ desktop' = [desktop EXCEPT !.order = o]
        /\ UNCHANGED <<monitors, locked, borderMail, program, sunk>>
        /\ desktop.fg # NoBorderWindow
    BY DEF OrderSettles, OrderIsSettled
  <1>2. UNCHANGED <<borderModels, borderPins, width, snapshot, snapshotValid, suspended,
                    lastStrokes, canvas, unpainted>>
    BY <1>1 DEF program
  <1>3. desktop \in Desktops /\ desktop.fg \in BorderWindows /\ desktop.order \in Orders
    BY <1>1 DEF BorderInv, BorderTypeOK, Desktops
  <1>4. o \in Orders
    BY <1>3, CaptureOrders
  <1>5. \A v, w \in BorderWindows \ {desktop.fg} : v \in o[w] <=> v \in desktop.order[w]
    BY <1>3, OthersStay DEF ToFront
  <1> HIDE DEF o
  <1>6. /\ desktop' \in Desktops
        /\ desktop'.fg = desktop.fg /\ desktop'.state = desktop.state
        /\ desktop'.cloaked = desktop.cloaked
        /\ desktop'.frame = desktop.frame /\ desktop'.order = o
    BY <1>1, <1>3, <1>4 DEF Desktops
  <1>7. BorderTypeOK'
    BY <1>1, <1>2, <1>6 DEF BorderInv, BorderTypeOK
  <1>8. ModelsNow' = ModelsNow
    BY <1>2, <1>6 DEF ModelsNow, Paintable
  <1>9. SnapshotFollows'
    BY <1>1, <1>2, <1>5, <1>6 DEF BorderInv, SnapshotFollows
  <1>10. ModelsFollow' /\ PlanIsPainted'
    BY <1>1, <1>2, <1>8 DEF BorderInv, ModelsFollow, PlanIsPainted
  <1> QED
    BY <1>7, <1>9, <1>10 DEF BorderInv

(* A handler that ends in painting a snapshot which follows the desktop.   *)
LEMMA PaintingKeeps ==
    ASSUME BorderInv, UNCHANGED <<desktop, monitors, locked, borderPins>>,
           NEW s \in Snapshots,
           NEW models \in [BorderWindows -> {"none", "plain", "active", "pinned"}],
           NEW stroke \in BorderWidths, NEW last, NEW looked \in BOOLEAN,
           Redraw(s, models, stroke, last, looked),
           borderModels' = models, width' = stroke, suspended' = FALSE,
           <<"changed">> \notin borderMail' =>
             /\ models = ModelsNow
             /\ s.fg = desktop.fg /\ s.state = desktop.state
             /\ s.cloaked = desktop.cloaked
             /\ \A w \in BorderWindows :
                  <<"moved", w>> \notin borderMail' => s.frame[w] = desktop.frame[w]
             /\ \A v, w \in BorderWindows \ {desktop.fg} :
                  v \in s.order[w] <=> v \in desktop.order[w]
    PROVE  BorderInv'
  <1>1. BorderTypeOK
    BY DEF BorderInv
  <1>2. /\ snapshot' = s /\ snapshotValid' = TRUE
        /\ PlanIsPainted'
        /\ DOMAIN canvas' \in Layouts
        /\ \A p \in lastStrokes' : p.win \in BorderWindows /\ p.rect \in Proper(Rects)
        /\ sunk' \in BOOLEAN /\ unpainted' \in BOOLEAN
    BY <1>1, RedrawKeeps
  <1>3. {locked', snapshotValid', suspended', sunk', unpainted'} \subseteq BOOLEAN
    <2>1. locked' \in BOOLEAN
      BY <1>1 DEF BorderTypeOK
    <2>2. snapshotValid' \in BOOLEAN
      BY <1>2
    <2>3. suspended' \in BOOLEAN
      OBVIOUS
    <2> QED
      BY <1>2, <2>1, <2>2, <2>3
  <1>4. /\ desktop' \in Desktops /\ snapshot' \in Snapshots
        /\ monitors' \in Layouts /\ width' \in BorderWidths
        /\ borderModels' \in [BorderWindows -> {"none", "plain", "active", "pinned"}]
        /\ borderPins' \subseteq BorderWindows
    BY <1>1, <1>2 DEF BorderTypeOK
  <1>5. BorderTypeOK'
    BY <1>2, <1>3, <1>4 DEF BorderTypeOK
  <1>6. ModelsNow' = ModelsNow
    BY DEF ModelsNow
  <1>7. ModelsFollow'
    BY <1>6 DEF ModelsFollow
  <1>8. SnapshotFollows'
    BY <1>2 DEF SnapshotFollows
  <1> QED
    BY <1>2, <1>5, <1>7, <1>8 DEF BorderInv

LEMMA ChangeKeepsBorders ==
    ASSUME BorderInv, NEW missed \in MayMiss, NEW looked \in BOOLEAN, HandleChange(missed, looked)
    PROVE  BorderInv'
  <1>1. BorderTypeOK /\ UNCHANGED <<desktop, monitors, locked, borderPins, width, suspended>>
        /\ borderModels' = ModelsNow
    BY DEF BorderInv, HandleChange, Apply
  <1>2. CASE suspended
    <2>1. snapshotValid' = FALSE /\ UNCHANGED <<lastStrokes, canvas, sunk, unpainted, snapshot>>
      BY <1>2 DEF HandleChange, Apply, NothingPainted
    <2>2. suspended' /\ ~snapshotValid'
      BY <1>1, <1>2, <2>1
    <2>3. {locked', snapshotValid', suspended', sunk', unpainted'} \subseteq BOOLEAN
      <3>1. /\ locked' \in BOOLEAN /\ suspended' \in BOOLEAN
            /\ sunk' \in BOOLEAN /\ unpainted' \in BOOLEAN
        BY <1>1, <2>1 DEF BorderTypeOK
      <3>2. snapshotValid' \in BOOLEAN
        BY <2>1
      <3> QED
        BY <3>1, <3>2
    <2>4. BorderTypeOK'
      BY <1>1, <2>1, <2>3, ModelsTyped DEF BorderTypeOK
    <2>5. ModelsNow' = ModelsNow
      BY <1>1 DEF ModelsNow
    <2>6. ModelsFollow'
      BY <1>1, <2>5 DEF ModelsFollow
    <2>7. SnapshotFollows'
      BY <2>2 DEF SnapshotFollows
    <2>8. PlanIsPainted'
      BY <1>2, <2>1, <2>2 DEF BorderInv, PlanIsPainted
    <2> QED
      BY <2>4, <2>6, <2>7, <2>8 DEF BorderInv
  <1>3. CASE ~suspended
    <2>1. Redraw(CaptureDesktop(missed), ModelsNow, width, lastStrokes, looked)
          /\ suspended' = FALSE
      <3>1. suspended' = FALSE
        BY <1>1, <1>3 DEF BorderTypeOK
      <3> QED
        BY <1>3, <3>1 DEF HandleChange, Apply
    <2>2. CaptureDesktop(missed) \in Snapshots /\ width \in BorderWidths /\ width' = width
      BY <1>1, CaptureTyped DEF BorderTypeOK
    <2> DEFINE s == CaptureDesktop(missed)
    <2>3. /\ s.fg = desktop.fg /\ s.state = desktop.state
          /\ s.cloaked = desktop.cloaked /\ s.frame = desktop.frame
          /\ \A v, w \in BorderWindows \ {desktop.fg} :
               v \in s.order[w] <=> v \in desktop.order[w]
      BY <1>1, CaptureFollows
    <2> HIDE DEF s
    <2>4. s \in Snapshots /\ Redraw(s, ModelsNow, width, lastStrokes, looked)
      BY <2>1, <2>2 DEF s
    <2> QED
      BY <1>1, <2>1, <2>2, <2>3, <2>4, ModelsTyped, PaintingKeeps
  <1> QED
    BY <1>2, <1>3

(* The snapshot a handler without a change of its own paints: the one at   *)
(* hand, or a new one.                                                     *)
LEMMA AtHand ==
    ASSUME BorderInv, NEW missed \in MayMiss
    PROVE  LET s == IF snapshotValid THEN snapshot ELSE CaptureDesktop(missed)
           IN  /\ s \in Snapshots
               /\ <<"changed">> \notin borderMail =>
                    /\ borderModels = ModelsNow
                    /\ s.fg = desktop.fg /\ s.state = desktop.state
                    /\ s.cloaked = desktop.cloaked
                    /\ \A w \in BorderWindows :
                         <<"moved", w>> \notin borderMail => s.frame[w] = desktop.frame[w]
                    /\ \A v, w \in BorderWindows \ {desktop.fg} :
                         v \in s.order[w] <=> v \in desktop.order[w]
  <1>1. BorderTypeOK
    BY DEF BorderInv
  <1>2. CASE snapshotValid
    BY <1>1, <1>2 DEF BorderInv, BorderTypeOK, ModelsFollow, SnapshotFollows
  <1>3. CASE ~snapshotValid
    <2>1. CaptureDesktop(missed) \in Snapshots
      BY <1>1, CaptureTyped
    <2>2. <<"changed">> \notin borderMail => borderModels = ModelsNow
      BY DEF BorderInv, ModelsFollow
    <2> QED
      BY <1>1, <1>3, <2>1, <2>2, CaptureFollows
  <1> QED
    BY <1>2, <1>3
LEMMA MoveKeepsBorders ==
    ASSUME BorderInv, NEW w \in BorderWindows, NEW missed \in MayMiss, NEW looked \in BOOLEAN,
           MoveBorder(w, missed, looked)
    PROVE  BorderInv'
  <1>1. /\ BorderTypeOK
        /\ UNCHANGED <<desktop, monitors, locked, borderModels, borderPins, width, suspended>>
        /\ borderMail' = borderMail \ {<<"moved", w>>}
    BY DEF BorderInv, MoveBorder
  <1>2. <<"changed">> \notin borderMail' => <<"changed">> \notin borderMail
    BY <1>1
  <1>3. \A v \in BorderWindows : v # w =>
          (<<"moved", v>> \notin borderMail' => <<"moved", v>> \notin borderMail)
    BY <1>1
  <1> DEFINE r == Refreshed(w)
  <1>4. r \in Snapshots
    BY <1>1, RefreshedTyped
  <1>5. snapshotValid /\ <<"changed">> \notin borderMail =>
          /\ r.fg = desktop.fg /\ r.state = desktop.state
          /\ r.cloaked = desktop.cloaked
          /\ \A v \in BorderWindows :
               <<"moved", v>> \notin borderMail' => r.frame[v] = desktop.frame[v]
          /\ \A u, v \in BorderWindows \ {desktop.fg} :
               u \in r.order[v] <=> u \in desktop.order[v]
    <2> SUFFICES ASSUME snapshotValid, <<"changed">> \notin borderMail
                 PROVE  /\ r.fg = desktop.fg /\ r.state = desktop.state
                        /\ r.cloaked = desktop.cloaked
                        /\ \A v \in BorderWindows :
                             <<"moved", v>> \notin borderMail' => r.frame[v] = desktop.frame[v]
                        /\ \A u, v \in BorderWindows \ {desktop.fg} :
                             u \in r.order[v] <=> u \in desktop.order[v]
      OBVIOUS
    <2>1. /\ r.fg = snapshot.fg /\ r.order = snapshot.order
          /\ r.frame = [snapshot.frame EXCEPT ![w] = desktop.frame[w]]
          /\ r.state = [snapshot.state EXCEPT ![w] = desktop.state[w]]
          /\ r.cloaked = snapshot.cloaked
      BY <1>1, RefreshedTyped
    <2>2. /\ snapshot.fg = desktop.fg /\ snapshot.state = desktop.state
          /\ snapshot.cloaked = desktop.cloaked
          /\ \A v \in BorderWindows :
               <<"moved", v>> \notin borderMail => snapshot.frame[v] = desktop.frame[v]
          /\ \A u, v \in BorderWindows \ {desktop.fg} :
               u \in snapshot.order[v] <=> u \in desktop.order[v]
      BY DEF BorderInv, SnapshotFollows
    <2>3. snapshot.frame \in [BorderWindows -> FrameChoices]
          /\ desktop.state \in [BorderWindows -> States]
      BY <1>1 DEF BorderTypeOK, Snapshots, Desktops
    <2> HIDE DEF r
    <2>4. r.state = desktop.state
      BY <2>1, <2>2, <2>3
    <2>5. \A v \in BorderWindows : <<"moved", v>> \notin borderMail' => r.frame[v] = desktop.frame[v]
      BY <1>3, <2>1, <2>2, <2>3
    <2> QED
      BY <2>1, <2>2, <2>4, <2>5
  <1> HIDE DEF r
  <1>6. CASE suspended
    <2>1. /\ snapshot' = IF snapshotValid THEN r ELSE snapshot
          /\ UNCHANGED <<lastStrokes, canvas, sunk, unpainted, snapshotValid>>
      BY <1>6 DEF MoveBorder, NothingPainted, r
    <2>2. snapshot' \in Snapshots
      BY <1>1, <1>4, <2>1 DEF BorderTypeOK
    <2>3. BorderTypeOK'
      BY <1>1, <2>1, <2>2 DEF BorderTypeOK
    <2>4. ModelsNow' = ModelsNow
      BY <1>1 DEF ModelsNow
    <2>5. ModelsFollow'
      BY <1>1, <1>2, <2>4 DEF BorderInv, ModelsFollow
    <2>6. SnapshotFollows'
      BY <1>1, <1>2, <1>5, <2>1 DEF SnapshotFollows
    <2>7. PlanIsPainted'
      BY <1>1, <1>6, <2>1 DEF BorderInv, PlanIsPainted
    <2> QED
      BY <2>3, <2>5, <2>6, <2>7 DEF BorderInv
  <1>7. CASE ~suspended
    <2> DEFINE s == IF snapshotValid THEN r ELSE CaptureDesktop(missed)
               c == CaptureDesktop(missed)
    <2>1. Redraw(s, borderModels, width, lastStrokes, looked)
      BY <1>7 DEF MoveBorder, r
    <2>2. suspended' = FALSE
      BY <1>1, <1>7 DEF BorderTypeOK
    <2>3. s \in Snapshots
      BY <1>1, <1>4, CaptureTyped
    <2>4. /\ c.fg = desktop.fg /\ c.state = desktop.state
          /\ c.cloaked = desktop.cloaked /\ c.frame = desktop.frame
          /\ \A u, v \in BorderWindows \ {desktop.fg} : u \in c.order[v] <=> u \in desktop.order[v]
      BY <1>1, CaptureFollows
    <2> HIDE DEF c
    <2>5. <<"changed">> \notin borderMail' =>
            /\ borderModels = ModelsNow
            /\ s.fg = desktop.fg /\ s.state = desktop.state
            /\ s.cloaked = desktop.cloaked
            /\ \A v \in BorderWindows :
                 <<"moved", v>> \notin borderMail' => s.frame[v] = desktop.frame[v]
            /\ \A u, v \in BorderWindows \ {desktop.fg} :
                 u \in s.order[v] <=> u \in desktop.order[v]
      <3>1. s = IF snapshotValid THEN r ELSE c
        BY DEF c
      <3>2. <<"changed">> \notin borderMail' => borderModels = ModelsNow
        BY <1>2 DEF BorderInv, ModelsFollow
      <3> HIDE DEF s
      <3> QED
        BY <1>2, <1>5, <2>4, <3>1, <3>2
    <2>6. /\ borderModels \in [BorderWindows -> {"none", "plain", "active", "pinned"}]
          /\ width \in BorderWidths
      BY <1>1 DEF BorderTypeOK
    <2> HIDE DEF s
    <2> QED
      BY <1>1, <2>1, <2>2, <2>3, <2>5, <2>6, PaintingKeeps
  <1> QED
    BY <1>6, <1>7

LEMMA SettingsKeepBorders ==
    ASSUME BorderInv, NEW k \in BorderWidths, NEW missed \in MayMiss, NEW looked \in BOOLEAN,
           UpdateBorderSettings(k, missed, looked)
    PROVE  BorderInv'
  <1>1. /\ BorderTypeOK
        /\ UNCHANGED <<desktop, monitors, locked, borderMail, borderModels, borderPins, suspended>>
        /\ width' = k
    BY DEF BorderInv, UpdateBorderSettings
  <1>2. CASE suspended
    <2>1. /\ lastStrokes' = {} /\ snapshotValid' = FALSE
          /\ UNCHANGED <<snapshot, canvas, sunk, unpainted>>
      BY <1>2 DEF UpdateBorderSettings
    <2>2. {locked', snapshotValid', suspended', sunk', unpainted'} \subseteq BOOLEAN
      <3>1. /\ locked' \in BOOLEAN /\ suspended' \in BOOLEAN
            /\ sunk' \in BOOLEAN /\ unpainted' \in BOOLEAN
        BY <1>1, <2>1 DEF BorderTypeOK
      <3>2. snapshotValid' \in BOOLEAN
        BY <2>1
      <3> QED
        BY <3>1, <3>2
    <2>3. BorderTypeOK'
      BY <1>1, <2>1, <2>2 DEF BorderTypeOK
    <2>4. ModelsNow' = ModelsNow
      BY <1>1 DEF ModelsNow
    <2>5. ModelsFollow' /\ SnapshotFollows' /\ PlanIsPainted'
      BY <1>1, <1>2, <2>1, <2>4 DEF BorderInv, ModelsFollow, SnapshotFollows, PlanIsPainted
    <2> QED
      BY <2>3, <2>5 DEF BorderInv
  <1>3. CASE ~suspended
    <2> DEFINE s == CaptureDesktop(missed)
    <2>1. Redraw(s, borderModels, k, {}, looked)
      BY <1>3 DEF UpdateBorderSettings
    <2>2. suspended' = FALSE
      BY <1>1, <1>3 DEF BorderTypeOK
    <2>3. s \in Snapshots
      BY <1>1, CaptureTyped
    <2>4. /\ s.fg = desktop.fg /\ s.state = desktop.state
          /\ s.cloaked = desktop.cloaked /\ s.frame = desktop.frame
          /\ \A v, w \in BorderWindows \ {desktop.fg} :
               v \in s.order[w] <=> v \in desktop.order[w]
      BY <1>1, CaptureFollows
    <2>5. borderModels \in [BorderWindows -> {"none", "plain", "active", "pinned"}]
      BY <1>1 DEF BorderTypeOK
    <2>6. <<"changed">> \notin borderMail' => borderModels = ModelsNow
      BY <1>1 DEF BorderInv, ModelsFollow
    <2> HIDE DEF s
    <2> QED
      BY <1>1, <2>1, <2>2, <2>3, <2>4, <2>5, <2>6, PaintingKeeps
  <1> QED
    BY <1>2, <1>3

(* Painting the snapshot at hand, with the models at hand.                 *)
LEMMA PaintingAtHand ==
    ASSUME BorderInv, NEW missed \in MayMiss, NEW looked \in BOOLEAN, NEW last,
           Redraw(IF snapshotValid THEN snapshot ELSE CaptureDesktop(missed), borderModels, width,
                  last, looked),
           UNCHANGED <<desktop, monitors, locked, borderModels, borderPins, width>>,
           suspended' = FALSE,
           <<"changed">> \notin borderMail' => <<"changed">> \notin borderMail,
           \A w \in BorderWindows :
             <<"moved", w>> \notin borderMail' => <<"moved", w>> \notin borderMail
    PROVE  BorderInv'
  <1> DEFINE s == IF snapshotValid THEN snapshot ELSE CaptureDesktop(missed)
  <1>1. /\ s \in Snapshots
        /\ <<"changed">> \notin borderMail =>
             /\ borderModels = ModelsNow
             /\ s.fg = desktop.fg /\ s.state = desktop.state
             /\ s.cloaked = desktop.cloaked
             /\ \A w \in BorderWindows :
                  <<"moved", w>> \notin borderMail => s.frame[w] = desktop.frame[w]
             /\ \A v, w \in BorderWindows \ {desktop.fg} :
                  v \in s.order[w] <=> v \in desktop.order[w]
    BY AtHand
  <1>2. /\ borderModels \in [BorderWindows -> {"none", "plain", "active", "pinned"}]
        /\ width \in BorderWidths
    BY DEF BorderInv, BorderTypeOK
  <1> HIDE DEF s
  <1>3. Redraw(s, borderModels, width, last, looked)
    BY DEF s
  <1>4. <<"changed">> \notin borderMail' =>
          /\ borderModels = ModelsNow
          /\ s.fg = desktop.fg /\ s.state = desktop.state
          /\ s.cloaked = desktop.cloaked
          /\ \A w \in BorderWindows :
               <<"moved", w>> \notin borderMail' => s.frame[w] = desktop.frame[w]
          /\ \A v, w \in BorderWindows \ {desktop.fg} :
               v \in s.order[w] <=> v \in desktop.order[w]
    BY <1>1
  <1>5. s \in Snapshots /\ borderModels' = borderModels /\ width' = width
        /\ UNCHANGED <<desktop, monitors, locked, borderPins>>
    BY <1>1
  <1> QED
    BY <1>2, <1>3, <1>4, <1>5, PaintingKeeps

LEMMA SessionKeepsBorders ==
    ASSUME BorderInv, NEW msg \in {"lock", "unlock"}, NEW missed \in MayMiss,
           NEW looked \in BOOLEAN, SessionProc(msg, missed, looked)
    PROVE  BorderInv'
  <1>1. /\ BorderTypeOK
        /\ UNCHANGED <<desktop, monitors, locked, borderModels, borderPins, width>>
        /\ borderMail' = borderMail \ {<<msg>>}
    BY DEF BorderInv, SessionProc
  <1>2. /\ <<"changed">> \notin borderMail' => <<"changed">> \notin borderMail
        /\ \A w \in BorderWindows :
             <<"moved", w>> \notin borderMail' => <<"moved", w>> \notin borderMail
    <2>1. <<msg>> # <<"changed">> /\ \A w : <<msg>> # <<"moved", w>>
      OBVIOUS
    <2> QED
      BY <1>1, <2>1
  <1>3. CASE msg = "lock"
    <2>1. /\ suspended' = TRUE /\ lastStrokes' = {} /\ canvas' = Render(canvas, {})
          /\ unpainted' = FALSE
          /\ UNCHANGED <<snapshot, snapshotValid, sunk>>
      BY <1>3 DEF SessionProc
    <2>2. DOMAIN canvas' = DOMAIN canvas
      BY <2>1 DEF Render
    <2>3. {locked', snapshotValid', suspended', sunk', unpainted'} \subseteq BOOLEAN
      <3>1. locked' \in BOOLEAN /\ snapshotValid' \in BOOLEAN /\ sunk' \in BOOLEAN
        BY <1>1, <2>1 DEF BorderTypeOK
      <3>2. suspended' \in BOOLEAN /\ unpainted' \in BOOLEAN
        BY <2>1
      <3> QED
        BY <3>1, <3>2
    <2>4. BorderTypeOK'
      <3>1. lastStrokes' = {}
        BY <2>1
      <3> QED
        BY <1>1, <2>1, <2>2, <2>3, <3>1 DEF BorderTypeOK
    <2>5. ModelsNow' = ModelsNow
      BY <1>1 DEF ModelsNow
    <2>6. ModelsFollow' /\ SnapshotFollows'
      BY <1>1, <1>2, <2>1, <2>5 DEF BorderInv, ModelsFollow, SnapshotFollows
    <2>7. PlanIsPainted'
      BY <2>1 DEF PlanIsPainted
    <2> QED
      BY <2>4, <2>6, <2>7 DEF BorderInv
  <1>4. CASE msg = "unlock"
    <2>1. /\ suspended' = FALSE
          /\ Redraw(IF snapshotValid THEN snapshot ELSE CaptureDesktop(missed),
                    borderModels, width, lastStrokes, looked)
      BY <1>4 DEF SessionProc
    <2> QED
      BY <1>1, <1>2, <2>1, PaintingAtHand
  <1> QED
    BY <1>3, <1>4

LEMMA TickKeepsBorders ==
    ASSUME BorderInv, NEW missed \in MayMiss, NEW looked \in BOOLEAN, HealthTick(missed, looked)
    PROVE  BorderInv'
  <1>1. /\ UNCHANGED <<desktop, monitors, locked, borderMail, borderModels, borderPins, width>>
        /\ suspended' = FALSE
        /\ Redraw(IF snapshotValid THEN snapshot ELSE CaptureDesktop(missed), borderModels, width,
                  IF suspended THEN lastStrokes ELSE {}, looked)
    BY DEF HealthTick
  <1> DEFINE last == IF suspended THEN lastStrokes ELSE {}
  <1> HIDE DEF last
  <1>2. Redraw(IF snapshotValid THEN snapshot ELSE CaptureDesktop(missed), borderModels, width,
               last, looked)
    BY <1>1 DEF last
  <1> QED
    BY <1>1, <1>2, PaintingAtHand

LEMMA PinKeepsBorders ==
    ASSUME BorderInv, NEW w \in BorderWindows, TogglePin(w)
    PROVE  BorderInv'
  <1>1. /\ borderPins' \subseteq BorderWindows
        /\ <<"changed">> \in borderMail'
        /\ UNCHANGED <<desktop, monitors, locked, borderModels, width, snapshot, snapshotValid,
                       suspended, lastStrokes, canvas, sunk, unpainted>>
    BY DEF TogglePin, BorderInv, BorderTypeOK
  <1>2. BorderTypeOK'
    BY <1>1 DEF BorderInv, BorderTypeOK
  <1> QED
    BY <1>1, <1>2 DEF BorderInv, ModelsFollow, SnapshotFollows, PlanIsPainted

LEMMA BorderInvKept == BorderInv /\ [BorderNext]_borderVars => BorderInv'
  <1> SUFFICES ASSUME BorderInv, [BorderNext]_borderVars PROVE BorderInv'
    OBVIOUS
  <1>1. BorderTypeOK /\ desktop \in Desktops
    BY DEF BorderInv, BorderTypeOK
  <1>2. ASSUME NEW w \in BorderWindows, NEW f \in FrameChoices, WindowMoves(w, f)
        PROVE  BorderInv'
    <2> DEFINE d == [desktop EXCEPT !.frame[w] = f]
    <2>1. /\ d \in Desktops
          /\ d.fg = desktop.fg /\ d.state = desktop.state /\ d.cloaked = desktop.cloaked
          /\ d.order = desktop.order
          /\ \A v \in BorderWindows : v = w \/ d.frame[v] = desktop.frame[v]
      BY <1>1 DEF Desktops
    <2> HIDE DEF d
    <2>2. DesktopChanges(d, {<<"moved", w>>})
      BY <1>2 DEF WindowMoves, d
    <2> QED
      BY <2>1, <2>2, ChangeFollows
  <1>3. ASSUME NEW w \in BorderWindows, NEW s \in States, WindowChanges(w, s)
        PROVE  BorderInv'
    <2> DEFINE d == [desktop EXCEPT !.state[w] = s]
    <2>1. d \in Desktops
      BY <1>1 DEF Desktops
    <2> HIDE DEF d
    <2>2. DesktopChanges(d, {<<"changed">>})
      BY <1>3 DEF WindowChanges, d
    <2> QED
      BY <2>1, <2>2, ChangeFollows
  <1>10. ASSUME NEW w \in BorderWindows, CloakChanges(w)
         PROVE  BorderInv'
    <2> DEFINE hid == IF w \in desktop.cloaked THEN desktop.cloaked \ {w}
                      ELSE desktop.cloaked \cup {w}
               d == [desktop EXCEPT !.cloaked = hid]
    <2>1. hid \in SUBSET BorderWindows
      BY <1>1 DEF Desktops
    <2>2. DesktopChanges(d, {<<"changed">>})
      BY <1>10 DEF CloakChanges
    <2> HIDE DEF hid
    <2>3. d \in Desktops
      BY <1>1, <2>1 DEF Desktops
    <2> HIDE DEF d
    <2> QED
      BY <2>2, <2>3, ChangeFollows
  <1>4. ASSUME NEW w \in BorderWindows \cup {NoBorderWindow}, ForegroundChanges(w)
        PROVE  BorderInv'
    <2> DEFINE d == [desktop EXCEPT !.fg = w]
    <2>1. d \in Desktops
      BY <1>1 DEF Desktops
    <2> HIDE DEF d
    <2>2. DesktopChanges(d, {<<"changed">>})
      BY <1>4 DEF ForegroundChanges, d
    <2> QED
      BY <2>1, <2>2, ChangeFollows
  <1>5. ASSUME NEW layout \in Layouts, MonitorsChange(layout)
        PROVE  BorderInv'
    <2>1. /\ UNCHANGED <<desktop, program>> /\ borderMail' = borderMail
          /\ monitors' \in Layouts /\ locked' \in BOOLEAN /\ sunk' \in BOOLEAN
      BY <1>1, <1>5 DEF MonitorsChange, BorderTypeOK
    <2> QED
      BY <2>1, OutsideKeeps
  <1>6. ASSUME CanvasSinks
        PROVE  BorderInv'
    <2>1. /\ UNCHANGED <<desktop, program>> /\ borderMail' = borderMail
          /\ monitors' \in Layouts /\ locked' \in BOOLEAN
      BY <1>1, <1>6 DEF CanvasSinks, BorderTypeOK
    <2>2. sunk' \in BOOLEAN
      BY <1>6 DEF CanvasSinks
    <2> QED
      BY <2>1, <2>2, OutsideKeeps
  <1>7. ASSUME NEW told \in BOOLEAN, SessionChanges(told)
        PROVE  BorderInv'
    <2>1. /\ UNCHANGED <<desktop, program>> /\ borderMail \subseteq borderMail'
          /\ monitors' \in Layouts /\ sunk' \in BOOLEAN
      BY <1>1, <1>7 DEF SessionChanges, BorderTypeOK
    <2>2. locked' \in BOOLEAN
      BY <1>7 DEF SessionChanges
    <2> QED
      BY <2>1, <2>2, OutsideKeeps
  <1>8. ASSUME NEW missed \in MayMiss, NEW looked \in BOOLEAN, Handles(missed, looked)
        PROVE  BorderInv'
    BY <1>8, ChangeKeepsBorders, MoveKeepsBorders, SettingsKeepBorders, SessionKeepsBorders
       DEF Handles
  <1>9. CASE UNCHANGED borderVars
    <2>1. UNCHANGED <<desktop, program>> /\ borderMail' = borderMail
          /\ monitors' \in Layouts /\ locked' \in BOOLEAN /\ sunk' \in BOOLEAN
      BY <1>1, <1>9 DEF borderVars, program, BorderTypeOK
    <2> QED
      BY <2>1, OutsideKeeps
  <1> QED
    BY <1>2, <1>3, <1>4, <1>5, <1>6, <1>7, <1>8, <1>9, <1>10, SettlingKeeps,
       PinKeepsBorders, TickKeepsBorders DEF BorderNext

LEMMA BorderInvAlways == BorderSpec => []BorderInv
  <1>1. BorderInit => BorderInv
    BY BorderInvInit
  <1>2. BorderInv /\ [BorderNext]_borderVars => BorderInv'
    BY BorderInvKept
  <1> QED
    BY <1>1, <1>2, PTL DEF BorderSpec

(* After Redraw the canvases show the plan, or the painting was left out.  *)
LEMMA RedrawShows ==
    ASSUME NEW s, NEW models, NEW stroke, NEW last, NEW looked,
           Redraw(s, models, stroke, last, looked), CanvasShows
    PROVE  CanvasShows'
  <1> DEFINE strokes == PlanBorders(s, models, stroke)
             known == IF SameLayout /\ sunk /\ looked THEN {} ELSE last
  <1> HIDE DEF strokes, known
  <1>1. /\ lastStrokes' = strokes
        /\ canvas' = IF strokes = known THEN Synced ELSE Render(Synced, strokes)
        /\ unpainted' = (/\ strokes = known
                         /\ IF SameLayout THEN unpainted \/ known # lastStrokes
                            ELSE strokes # {})
    BY DEF Redraw, strokes, known
  <1>2. CASE strokes # known
    BY <1>1, <1>2 DEF CanvasShows, Render
  <1>3. CASE strokes = known /\ SameLayout
    BY <1>1, <1>3 DEF CanvasShows, Synced
  <1>4. CASE strokes = known /\ ~SameLayout
    <2>1. canvas' = [m \in monitors |-> {}]
      BY <1>1, <1>4 DEF Synced
    <2>2. CASE strokes = {}
      <3>1. Render([m \in monitors |-> {}], {}) = [m \in monitors |-> {}]
        BY DEF Render, OnScreen
      <3> QED
        BY <1>1, <2>1, <2>2, <3>1 DEF CanvasShows, Render, OnScreen
    <2>3. CASE strokes # {}
      BY <1>1, <1>4, <2>3 DEF CanvasShows
    <2> QED
      BY <2>2, <2>3
  <1> QED
    BY <1>2, <1>3, <1>4

LEMMA CanvasKept == BorderInv /\ CanvasShows /\ [BorderNext]_borderVars => CanvasShows'
  <1> SUFFICES ASSUME BorderInv, CanvasShows, [BorderNext]_borderVars PROVE CanvasShows'
    OBVIOUS
  <1>1. ASSUME UNCHANGED <<unpainted, canvas, lastStrokes>>
        PROVE  CanvasShows'
    BY <1>1 DEF CanvasShows
  <1>2. ASSUME NEW d, NEW mail, DesktopChanges(d, mail)
        PROVE  CanvasShows'
    BY <1>1, <1>2 DEF DesktopChanges, program
  <1>3. ASSUME NEW missed, NEW looked, HandleChange(missed, looked)
        PROVE  CanvasShows'
    BY <1>1, <1>3, RedrawShows DEF HandleChange, Apply, NothingPainted
  <1>4. ASSUME NEW w \in BorderWindows, NEW missed, NEW looked, MoveBorder(w, missed, looked)
        PROVE  CanvasShows'
    BY <1>1, <1>4, RedrawShows DEF MoveBorder, NothingPainted
  <1>5. ASSUME NEW k, NEW missed, NEW looked, UpdateBorderSettings(k, missed, looked)
        PROVE  CanvasShows'
    <2>1. CASE suspended
      <3>1. lastStrokes = {}
        BY <2>1 DEF BorderInv, PlanIsPainted
      <3> QED
        BY <1>1, <1>5, <2>1, <3>1 DEF UpdateBorderSettings
    <2>2. CASE ~suspended
      BY <1>5, <2>2, RedrawShows DEF UpdateBorderSettings
    <2> QED
      BY <2>1, <2>2
  <1>6. ASSUME NEW msg, NEW missed, NEW looked, SessionProc(msg, missed, looked)
        PROVE  CanvasShows'
    <2>1. CASE msg = "lock"
      <3>1. canvas' = Render(canvas, {}) /\ lastStrokes' = {}
        BY <1>6, <2>1 DEF SessionProc
      <3> QED
        BY <3>1 DEF CanvasShows, Render
    <2>2. CASE msg # "lock"
      BY <1>6, <2>2, RedrawShows DEF SessionProc
    <2> QED
      BY <2>1, <2>2
  <1>7. ASSUME NEW missed, NEW looked, HealthTick(missed, looked)
        PROVE  CanvasShows'
    BY <1>7, RedrawShows DEF HealthTick
  <1>8. ASSUME NEW missed, NEW looked, Handles(missed, looked)
        PROVE  CanvasShows'
    BY <1>3, <1>4, <1>5, <1>6, <1>8 DEF Handles
  <1>9. ASSUME \/ OrderSettles \/ CanvasSinks \/ UNCHANGED borderVars
               \/ \E layout \in Layouts : MonitorsChange(layout)
               \/ \E told \in BOOLEAN : SessionChanges(told)
               \/ \E w \in BorderWindows : TogglePin(w)
        PROVE  CanvasShows'
    <2>1. UNCHANGED <<unpainted, canvas, lastStrokes>>
      BY <1>9 DEF OrderSettles, CanvasSinks, MonitorsChange, SessionChanges, TogglePin, program,
         borderVars
    <2> QED
      BY <1>1, <2>1
  <1>10. ASSUME \/ \E w \in BorderWindows, f \in FrameChoices : WindowMoves(w, f)
                \/ \E w \in BorderWindows, s \in States : WindowChanges(w, s)
                \/ \E w \in BorderWindows : CloakChanges(w)
                \/ \E w \in BorderWindows \cup {NoBorderWindow} : ForegroundChanges(w)
         PROVE  CanvasShows'
    BY <1>2, <1>10 DEF WindowMoves, WindowChanges, CloakChanges, ForegroundChanges
  <1> QED
    BY <1>7, <1>8, <1>9, <1>10 DEF BorderNext

(* Once the events are handled the canvases show the borders of the        *)
(* desktop as it is, wherever the snapshot has the foreground window,      *)
(* unless a painting was left out (Redraw, Apply, MoveBorder, SessionProc, *)
(* HealthTick of WinBorderBackend.cpp).                                    *)
THEOREM BordersMatch == BorderSpec => []BordersMatchDesktop
  <1>1. BorderInit => CanvasShows
    BY DEF BorderInit, CanvasShows, Render, OnScreen
  <1>2. BorderInv /\ CanvasShows /\ [BorderNext]_borderVars => CanvasShows'
    BY CanvasKept
  <1>3. BorderInv /\ CanvasShows => BordersMatchDesktop
    BY InvMatches
  <1> QED
    BY <1>1, <1>2, <1>3, BorderInvAlways, PTL DEF BorderSpec

(* No border of another window crosses the one in the foreground, however  *)
(* old the snapshot is and wherever it has that window (PlanBorders).      *)
THEOREM ForegroundIsUncrossed == BorderSpec => []ForegroundUncrossed
  <1>1. BorderInv => ForegroundUncrossed
    BY InvUncrossed
  <1> QED
    BY <1>1, BorderInvAlways, PTL
-----------------------------------------------------------------------------
(***************************************************************************)
(* The bookmark strips.                                                    *)
(***************************************************************************)
PreviewState == [by : StripHosts \cup {NoHost}, thumbnail : BOOLEAN]
Pairs == [s : StripState, p : PreviewState]

(* The timer runs unless the strip is at rest.                             *)
Animated(s) == Settled(s) \/ s.timer

(* What the functions that pass on a strip and the preview have in common: *)
(* a preview that is there afterwards is the strip's own, or that of       *)
(* another strip and was there before; and they do not touch a drag.       *)
Owns(x, y) ==
  /\ y \in Pairs /\ y.s.there = x.s.there
  /\ \/ y.p.by = NoHost \/ y.s.shown
     \/ y.p = x.p /\ ~x.s.shown
KeepsDrag(x, y) ==
  /\ y.s.drag = x.s.drag /\ y.s.dragWindow = x.s.dragWindow
  /\ y.s.dropTarget = x.s.dropTarget
Passes(x, y) == Owns(x, y) /\ KeepsDrag(x, y)

LEMMA PassesOn ==
    ASSUME NEW x, NEW y, NEW z, Passes(x, y), Passes(y, z)
    PROVE  Passes(x, z)
  BY DEF Passes, Owns, KeepsDrag

LEMMA HidePasses ==
    ASSUME NEW x \in Pairs
    PROVE  /\ Passes(x, HidePreview(x))
           /\ Animated(x.s) => Animated(HidePreview(x).s)
           /\ ~HidePreview(x).s.shown
           /\ HidePreview(x).s.strength = x.s.strength
           /\ HidePreview(x).s.hovering = x.s.hovering /\ HidePreview(x).s.timer = x.s.timer
  <1>1. CASE x.s.shown
    <2> DEFINE y == [s |-> [x.s EXCEPT !.shown = FALSE], p |-> NoPreview]
    <2>1. HidePreview(x) = y
      BY <1>1 DEF HidePreview
    <2>2. y.s \in StripState /\ y.p \in PreviewState
      BY DEF Pairs, StripState, PreviewState, NoPreview
    <2>3. y \in Pairs
      BY <2>2 DEF Pairs
    <2>4. /\ y.s.there = x.s.there /\ y.s.drag = x.s.drag /\ y.s.dragWindow = x.s.dragWindow
          /\ y.s.dropTarget = x.s.dropTarget /\ ~y.s.shown /\ y.s.strength = x.s.strength
          /\ y.s.hovering = x.s.hovering /\ y.s.timer = x.s.timer /\ y.p.by = NoHost
      BY DEF Pairs, StripState, NoPreview
    <2> HIDE DEF y
    <2> QED
      BY <2>1, <2>3, <2>4 DEF Passes, Owns, KeepsDrag, Animated, Settled
  <1>2. CASE ~x.s.shown
    BY <1>2 DEF HidePreview, Passes, Owns, KeepsDrag
  <1> QED
    BY <1>1, <1>2

LEMMA RecordsKept ==
    ASSUME NEW s \in StripState, NEW n \in Strengths, NEW titled \in BOOLEAN
    PROVE  /\ [s EXCEPT !.strength = n, !.titled = titled] \in StripState
           /\ [s EXCEPT !.timer = FALSE, !.grace = FALSE, !.delay = FALSE,
                        !.hovering = FALSE, !.armed = FALSE,
                        !.strength = n, !.titled = FALSE] \in StripState
           /\ LET t == [s EXCEPT !.strength = n, !.titled = titled]
              IN  /\ t.there = s.there /\ t.drag = s.drag /\ t.dragWindow = s.dragWindow
                  /\ t.dropTarget = s.dropTarget /\ t.shown = s.shown
  BY DEF StripState

LEMMA ResetPasses ==
    ASSUME NEW x \in Pairs
    PROVE  Passes(x, ResetInteraction(x)) /\ Animated(ResetInteraction(x).s)
  <1> DEFINE s == [x.s EXCEPT !.timer = FALSE, !.grace = FALSE, !.delay = FALSE,
                              !.hovering = FALSE, !.armed = FALSE,
                              !.strength = 0, !.titled = FALSE]
             y == [x EXCEPT !.s = s]
  <1>1. s \in StripState
    <2>1. x.s \in StripState /\ 0 \in Strengths
      BY DEF Pairs, Strengths
    <2> QED
      BY <2>1, RecordsKept
  <1>2. y \in Pairs /\ y.s = s /\ y.p = x.p
    BY <1>1 DEF Pairs
  <1>3. /\ s.there = x.s.there /\ s.drag = x.s.drag /\ s.dragWindow = x.s.dragWindow
        /\ s.dropTarget = x.s.dropTarget /\ s.shown = x.s.shown
        /\ s.strength = 0 /\ s.hovering = FALSE
    BY DEF Pairs, StripState
  <1>4. ResetInteraction(x) = HidePreview(y)
    BY DEF ResetInteraction
  <1> HIDE DEF s, y
  <1>5. Passes(x, y) /\ Animated(y.s)
    BY <1>2, <1>3 DEF Passes, Owns, KeepsDrag, Animated, Settled
  <1> QED
    BY <1>2, <1>4, <1>5, HidePasses, PassesOn

LEMMA EmitPasses ==
    ASSUME NEW h \in StripHosts, NEW x \in Pairs
    PROVE  /\ Passes(x, EmitPreview(h, x))
           /\ Animated(x.s) => Animated(EmitPreview(h, x).s)
  <1>1. CASE x.s.menuOpen
    BY <1>1 DEF EmitPreview, Passes, Owns, KeepsDrag
  <1>2. CASE ~x.s.menuOpen /\ ~x.s.hovering /\ x.s.strength = 0
    <2> DEFINE s == [x.s EXCEPT !.titled = FALSE]
               y == [x EXCEPT !.s.titled = FALSE]
    <2>1. s \in StripState
      BY DEF Pairs, StripState
    <2>2. y \in Pairs /\ y.s = s /\ y.p = x.p
      BY <2>1 DEF Pairs
    <2>3. /\ s.there = x.s.there /\ s.drag = x.s.drag /\ s.dragWindow = x.s.dragWindow
          /\ s.dropTarget = x.s.dropTarget /\ s.shown = x.s.shown
          /\ s.strength = x.s.strength /\ s.hovering = x.s.hovering /\ s.timer = x.s.timer
      BY DEF Pairs, StripState
    <2>4. EmitPreview(h, x) = HidePreview(y)
      BY <1>2 DEF EmitPreview
    <2> HIDE DEF s, y
    <2>5. Passes(x, y) /\ (Animated(x.s) => Animated(y.s))
      BY <2>2, <2>3 DEF Passes, Owns, KeepsDrag, Animated, Settled
    <2> QED
      BY <2>2, <2>4, <2>5, HidePasses, PassesOn
  <1>3. CASE /\ ~x.s.menuOpen /\ ~(~x.s.hovering /\ x.s.strength = 0)
             /\ ~x.s.titled \/ ~x.s.visible
    BY <1>3, HidePasses DEF EmitPreview
  <1>4. CASE /\ ~x.s.menuOpen /\ ~(~x.s.hovering /\ x.s.strength = 0)
             /\ ~(~x.s.titled \/ ~x.s.visible)
    <2> DEFINE s == [x.s EXCEPT !.shown = TRUE]
               y == [s |-> s, p |-> [by |-> h, thumbnail |-> x.s.armed]]
    <2>1. s \in StripState /\ x.s.armed \in BOOLEAN
      BY DEF Pairs, StripState
    <2>2. y \in Pairs /\ y.s = s
      BY <2>1 DEF Pairs, PreviewState
    <2>3. /\ s.there = x.s.there /\ s.drag = x.s.drag /\ s.dragWindow = x.s.dragWindow
          /\ s.dropTarget = x.s.dropTarget /\ s.shown
          /\ s.strength = x.s.strength /\ s.hovering = x.s.hovering /\ s.timer = x.s.timer
      BY DEF Pairs, StripState
    <2>4. EmitPreview(h, x) = y
      BY <1>4 DEF EmitPreview
    <2> HIDE DEF s, y
    <2> QED
      BY <2>2, <2>3, <2>4 DEF Passes, Owns, KeepsDrag, Animated, Settled
  <1> QED
    BY <1>1, <1>2, <1>3, <1>4

(* A frame leaves the timer running exactly until the strip is at rest.    *)
LEMMA FramePasses ==
    ASSUME NEW h \in StripHosts, NEW x \in Pairs
    PROVE  Passes(x, Frame(h, x)) /\ Animated(Frame(h, x).s)
  <1> DEFINE s == StepStrip(x.s)
             moved == [x EXCEPT !.s = StepStrip(@)]
             y == EmitPreview(h, moved)
             t == [y.s EXCEPT !.timer = ~Settled(y.s)]
             z == [y EXCEPT !.s.timer = ~Settled(y.s)]
  <1>1. /\ s \in StripState
        /\ s.there = x.s.there /\ s.drag = x.s.drag /\ s.dragWindow = x.s.dragWindow
        /\ s.dropTarget = x.s.dropTarget /\ s.shown = x.s.shown
    <2> DEFINE strength == IF x.s.hovering THEN IF x.s.strength = 2 THEN 2 ELSE x.s.strength + 1
                           ELSE IF x.s.strength = 0 THEN 0 ELSE x.s.strength - 1
               titled == x.s.titled \/ strength > 0
    <2>1. strength \in Strengths
      BY DEF Pairs, StripState, Strengths
    <2>2. titled \in BOOLEAN
      BY DEF Pairs, StripState
    <2>3. s = [x.s EXCEPT !.strength = strength, !.titled = titled]
      BY DEF StepStrip
    <2>4. x.s \in StripState
      BY DEF Pairs
    <2> HIDE DEF strength, titled, s
    <2> DEFINE t2 == [x.s EXCEPT !.strength = strength, !.titled = titled]
    <2>5. /\ t2 \in StripState
          /\ t2.there = x.s.there /\ t2.drag = x.s.drag /\ t2.dragWindow = x.s.dragWindow
          /\ t2.dropTarget = x.s.dropTarget /\ t2.shown = x.s.shown
      BY <2>1, <2>2, <2>4 DEF StripState
    <2> HIDE DEF t2
    <2> QED
      BY <2>3, <2>5 DEF t2
  <1>2. moved \in Pairs /\ moved.s = s /\ moved.p = x.p
    BY <1>1 DEF Pairs
  <1> HIDE DEF s, moved
  <1>3. Passes(x, moved)
    BY <1>1, <1>2 DEF Passes, Owns, KeepsDrag
  <1>4. Passes(moved, y)
    BY <1>2, EmitPasses
  <1>5. y \in Pairs /\ Frame(h, x) = z
    BY <1>4 DEF Passes, Owns, KeepsDrag, Frame, moved
  <1> HIDE DEF y
  <1>6. Settled(y.s) \in BOOLEAN
    BY DEF Settled
  <1>7. /\ t \in StripState
        /\ t.there = y.s.there /\ t.drag = y.s.drag /\ t.dragWindow = y.s.dragWindow
        /\ t.dropTarget = y.s.dropTarget /\ t.shown = y.s.shown
        /\ t.strength = y.s.strength /\ t.hovering = y.s.hovering
        /\ t.timer = ~Settled(y.s)
    BY <1>5, <1>6 DEF Pairs, StripState
  <1>8. z \in Pairs /\ z.s = t /\ z.p = y.p
    BY <1>5, <1>7 DEF Pairs
  <1> HIDE DEF t, z
  <1>9. Passes(y, z)
    BY <1>7, <1>8 DEF Passes, Owns, KeepsDrag
  <1>10. Animated(z.s)
    BY <1>7, <1>8 DEF Animated, Settled
  <1> QED
    BY <1>3, <1>4, <1>5, <1>9, <1>10, PassesOn

LEMMA EndHoverPasses ==
    ASSUME NEW h \in StripHosts, NEW x \in Pairs
    PROVE  Passes(x, EndHover(h, x)) /\ Animated(EndHover(h, x).s)
  <1> DEFINE s == [x.s EXCEPT !.grace = FALSE, !.delay = FALSE, !.hovering = FALSE,
                              !.armed = FALSE]
             y == [x EXCEPT !.s = s]
  <1>1. /\ s \in StripState
        /\ s.there = x.s.there /\ s.drag = x.s.drag /\ s.dragWindow = x.s.dragWindow
        /\ s.dropTarget = x.s.dropTarget /\ s.shown = x.s.shown
    BY DEF Pairs, StripState
  <1>2. y \in Pairs /\ y.s = s /\ y.p = x.p
    BY <1>1 DEF Pairs
  <1>3. EndHover(h, x) = Frame(h, y)
    BY DEF EndHover
  <1> HIDE DEF s, y
  <1>4. Passes(x, y)
    BY <1>1, <1>2 DEF Passes, Owns, KeepsDrag
  <1> QED
    BY <1>2, <1>3, <1>4, FramePasses, PassesOn

LEMMA UpdatePasses ==
    ASSUME NEW h \in StripHosts, NEW x \in Pairs, NEW change \in Changes
    PROVE  /\ Passes(x, Updated(h, x, change))
           /\ Animated(x.s) => Animated(Updated(h, x, change).s)
  <1> DEFINE reset == IF change = "count" \/ (change = "gone" /\ x.s.visible)
                      THEN ResetInteraction(x) ELSE x
             visible == change # "gone"
             s == [reset.s EXCEPT !.visible = visible]
             y == [reset EXCEPT !.s.visible = visible]
             engaged == y.s.hovering \/ y.s.strength > 0
             z == IF change = "active" /\ engaged THEN Frame(h, y) ELSE y
  <1>1. Passes(x, reset) /\ (Animated(x.s) => Animated(reset.s))
    BY ResetPasses DEF Passes, Owns, KeepsDrag
  <1>2. reset \in Pairs
    BY <1>1 DEF Passes, Owns, KeepsDrag
  <1>3. Updated(h, x, change) = IF z.s.shown THEN EmitPreview(h, z) ELSE z
    BY DEF Updated
  <1> HIDE DEF reset
  <1>4. /\ s \in StripState
        /\ s.there = reset.s.there /\ s.drag = reset.s.drag /\ s.dragWindow = reset.s.dragWindow
        /\ s.dropTarget = reset.s.dropTarget /\ s.shown = reset.s.shown
        /\ s.strength = reset.s.strength /\ s.hovering = reset.s.hovering
        /\ s.timer = reset.s.timer
    BY <1>2 DEF Pairs, StripState
  <1>5. y \in Pairs /\ y.s = s /\ y.p = reset.p
    BY <1>2, <1>4 DEF Pairs
  <1> HIDE DEF s, y
  <1>6. Passes(reset, y) /\ (Animated(reset.s) => Animated(y.s))
    BY <1>4, <1>5 DEF Passes, Owns, KeepsDrag, Animated, Settled
  <1>7. Passes(x, y) /\ (Animated(x.s) => Animated(y.s))
    BY <1>1, <1>6, PassesOn
  <1>8. Passes(y, z) /\ (Animated(y.s) => Animated(z.s))
    BY <1>5, FramePasses DEF Passes, Owns, KeepsDrag
  <1>9. z \in Pairs
    BY <1>8 DEF Passes, Owns, KeepsDrag
  <1> HIDE DEF z
  <1>10. /\ Passes(z, Updated(h, x, change))
         /\ Animated(z.s) => Animated(Updated(h, x, change).s)
    BY <1>3, <1>9, EmitPasses DEF Passes, Owns, KeepsDrag
  <1> QED
    BY <1>7, <1>8, <1>10, PassesOn
-----------------------------------------------------------------------------
(***************************************************************************)
(* The invariant.                                                          *)
(***************************************************************************)
StripTypes == strips \in [StripHosts -> StripState] /\ preview \in PreviewState

(* What was destroyed has no timer and no drag left.                       *)
GoneIsGone == \A h \in StripHosts : ~strips[h].there => strips[h] = NoStrip

(* One mouse, one drag, of a bookmark; a target only past the threshold.   *)
OneDrag == \A g, h \in StripHosts : HasDrag(strips[g]) /\ HasDrag(strips[h]) => g = h
TargetOfDrag == \A h \in StripHosts : strips[h].drag # "dragging" => strips[h].dropTarget = NoHost

DragHasWindow == \A h \in StripHosts : HasDrag(strips[h]) => strips[h].dragWindow \in StripHosts

(* Whether Windows tells a window that it loses the capture by being       *)
(* destroyed bears on the preview and the outline, not on the rest.        *)
Untold == "told" \notin DestroyNotices
PreviewOwnedIfUntold == Untold => PreviewIsOwned
HonestIfUntold == Untold => HighlightIsHonest

ShowInv == StripTypes /\ GoneIsGone /\ PreviewOwnedIfUntold /\ AnimationRuns
DragInv == OneDrag /\ TargetOfDrag /\ DragHasWindow /\ HonestIfUntold
StripInv == ShowInv /\ DragInv

LEMMA NoStripIsState == NoStrip \in StripState /\ FreshStrip \in StripState
  <1>1. 0 \in Strengths
    BY DEF Strengths
  <1>2. NoStrip \in StripState
    BY <1>1, Zenon DEF NoStrip, StripState
  <1>3. FreshStrip \in StripState
    BY <1>2 DEF FreshStrip, StripState
  <1> QED
    BY <1>2, <1>3

LEMMA StripInvInit == StripInit => StripInv
  <1> SUFFICES ASSUME StripInit PROVE StripInv
    OBVIOUS
  <1>1. StripTypes
    BY NoStripIsState DEF StripInit, StripTypes, PreviewState, NoPreview
  <1>2. \A h \in StripHosts : strips[h] = NoStrip
    BY DEF StripInit
  <1>3. NoPreview.by = NoHost /\ ~NoStrip.there /\ NoStrip.drag = "none" /\ NoStrip.dropTarget = NoHost
    BY DEF NoPreview, NoStrip
  <1> QED
    BY <1>1, <1>2, <1>3 DEF StripInit, StripInv, ShowInv, DragInv, GoneIsGone, PreviewIsOwned,
       AnimationRuns, OneDrag, TargetOfDrag, DragHasWindow, HighlightIsHonest, HasDrag,
       PreviewOwnedIfUntold, HonestIfUntold

(* A strip that is there is at rest or has its timer.                      *)
LEMMA NowIsAnimated ==
    ASSUME ShowInv, NEW h \in StripHosts
    PROVE  /\ Now(h) \in Pairs /\ Now(h).s = strips[h] /\ Now(h).p = preview
           /\ strips[h] \in StripState
           /\ strips[h].there => Animated(strips[h])
  BY DEF ShowInv, StripTypes, Now, Pairs, AnimationRuns, Animated

(* What one strip passes on keeps the previews owned and the timers        *)
(* running.                                                                *)
LEMMA ShowKept ==
    ASSUME ShowInv, NEW h \in StripHosts, strips[h].there, NEW y,
           Owns(Now(h), y), Animated(y.s), Becomes(h, y)
    PROVE  ShowInv'
  <1>1. /\ y \in Pairs /\ y.s \in StripState /\ y.p \in PreviewState /\ y.s.there
    BY NowIsAnimated DEF Owns, Pairs
  <1>2. /\ \A g \in StripHosts : strips'[g] = IF g = h THEN y.s ELSE strips[g]
        /\ preview' = y.p /\ strips' \in [StripHosts -> StripState]
    BY <1>1 DEF Becomes, ShowInv, StripTypes
  <1>3. (StripTypes /\ GoneIsGone /\ AnimationRuns)'
    BY <1>1, <1>2 DEF StripTypes, GoneIsGone, AnimationRuns, Animated, ShowInv
  <1>4. PreviewOwnedIfUntold'
    <2>1. CASE y.p.by = NoHost
      BY <1>2, <2>1 DEF PreviewIsOwned, PreviewOwnedIfUntold
    <2>2. CASE y.s.shown
      BY <1>1, <1>2, <2>2 DEF PreviewIsOwned, PreviewOwnedIfUntold
    <2>3. CASE y.p = preview /\ ~strips[h].shown
      BY <1>2, <2>3 DEF PreviewIsOwned, PreviewOwnedIfUntold, ShowInv
    <2> QED
      BY <2>1, <2>2, <2>3, NowIsAnimated DEF Owns
  <1> QED
    BY <1>3, <1>4 DEF ShowInv

(* What leaves the drag alone leaves the outline right.                    *)
LEMMA DragKept ==
    ASSUME ShowInv, DragInv, NEW h \in StripHosts, NEW y,
           KeepsDrag(Now(h), y), Becomes(h, y), UNCHANGED highlight
    PROVE  DragInv'
  <1>1. \A g \in StripHosts : strips'[g] = IF g = h THEN y.s ELSE strips[g]
    BY DEF Becomes, ShowInv, StripTypes
  <1>2. /\ y.s.drag = strips[h].drag /\ y.s.dropTarget = strips[h].dropTarget
        /\ y.s.dragWindow = strips[h].dragWindow
    BY NowIsAnimated DEF KeepsDrag
  <1>3. \A g \in StripHosts :
          /\ strips'[g].drag = strips[g].drag /\ strips'[g].dropTarget = strips[g].dropTarget
          /\ strips'[g].dragWindow = strips[g].dragWindow
    BY <1>1, <1>2
  <1> QED
    BY <1>3 DEF DragInv, OneDrag, TargetOfDrag, DragHasWindow, HighlightIsHonest, HonestIfUntold,
       HasDrag

LEMMA StepOfOneStrip ==
    ASSUME StripInv, NEW h \in StripHosts, strips[h].there, NEW y,
           Passes(Now(h), y), Animated(y.s), Becomes(h, y), UNCHANGED highlight
    PROVE  StripInv'
  BY ShowKept, DragKept DEF StripInv, Passes

(* Timers belong to strips that are there.                                 *)
LEMMA TimersAreThere ==
    ASSUME ShowInv, NEW h \in StripHosts,
           strips[h].timer \/ strips[h].grace \/ strips[h].delay
    PROVE  strips[h].there
  BY DEF ShowInv, GoneIsGone, NoStrip
-----------------------------------------------------------------------------
(***************************************************************************)
(* The actions.                                                            *)
(***************************************************************************)
(* What changes nothing but what hovering consists of.                     *)
Hovers(s, t) ==
  /\ t \in StripState
  /\ t.there = s.there /\ t.drag = s.drag /\ t.dragWindow = s.dragWindow
  /\ t.dropTarget = s.dropTarget /\ t.shown = s.shown

LEMMA HoverPasses ==
    ASSUME StripTypes, NEW h \in StripHosts, NEW x \in Pairs, Hovers(strips[h], x.s), x.p = preview
    PROVE  Passes(Now(h), x)
  BY DEF StripTypes, Now, Pairs, Passes, Owns, KeepsDrag, Hovers

(* The records the handlers pass on, field by field.                       *)
LEMMA HoverRecords ==
    ASSUME NEW s \in StripState
    PROVE  /\ Hovers(s, [s EXCEPT !.tracking = FALSE])
           /\ LET t == [s EXCEPT !.grace = TRUE]
              IN  Hovers(s, t) /\ (Animated(s) => Animated(t))
           /\ LET t == [s EXCEPT !.delay = FALSE]
              IN  Hovers(s, t) /\ (Animated(s) => Animated(t))
           /\ LET t == [s EXCEPT !.tracking = FALSE]
              IN  Animated(s) => Animated(t)
           /\ Hovers(s, [s EXCEPT !.armed = TRUE])
  BY DEF Hovers, StripState, Animated, Settled

LEMMA HoversOn ==
    ASSUME NEW s, NEW t, NEW u, Hovers(s, t), Hovers(t, u)
    PROVE  Hovers(s, u)
  BY DEF Hovers

LEMMA HoverMoveKeeps ==
    ASSUME StripInv, NEW h \in StripHosts, HoverMove(h)
    PROVE  StripInv'
  <1>1. strips[h].there /\ UNCHANGED highlight
    BY DEF HoverMove, MouseReaches
  <1>2. PICK instant \in BOOLEAN :
          LET s == strips[h]
              starts == ~s.hovering /\ ~s.armed
          IN Becomes(h, Frame(h, [s |-> [s EXCEPT
               !.tracking = TRUE, !.grace = FALSE, !.hovering = TRUE,
               !.armed = @ \/ (starts /\ instant),
               !.delay = @ \/ (starts /\ ~instant)], p |-> preview]))
    BY DEF HoverMove
  <1> DEFINE s == strips[h]
             armed == s.armed \/ (~s.hovering /\ ~s.armed /\ instant)
             delay == s.delay \/ (~s.hovering /\ ~s.armed /\ ~instant)
             t == [s EXCEPT !.tracking = TRUE, !.grace = FALSE, !.hovering = TRUE,
                            !.armed = armed, !.delay = delay]
             x == [s |-> t, p |-> preview]
  <1>3. Becomes(h, Frame(h, x))
    BY <1>2
  <1>4. armed \in BOOLEAN /\ delay \in BOOLEAN /\ s \in StripState
    BY NowIsAnimated DEF StripInv, StripState
  <1>5. Hovers(s, t)
    <2> HIDE DEF armed, delay, s
    <2> QED
      BY <1>4 DEF Hovers, StripState
  <1> HIDE DEF t
  <1>6. x \in Pairs /\ x.s = t /\ x.p = preview
    BY <1>5 DEF Hovers, Pairs, StripInv, ShowInv, StripTypes
  <1>7. Passes(Now(h), x)
    BY <1>5, <1>6, HoverPasses DEF StripInv, ShowInv
  <1> QED
    BY <1>1, <1>3, <1>6, <1>7, FramePasses, PassesOn, StepOfOneStrip

LEMMA MouseLeaveKeeps ==
    ASSUME StripInv, NEW h \in StripHosts, MouseLeave(h)
    PROVE  StripInv'
  <1> DEFINE n == Now(h)
             t == [n.s EXCEPT !.tracking = FALSE]
             x == [n EXCEPT !.s.tracking = FALSE]
             u == [x.s EXCEPT !.grace = TRUE]
             y == [x EXCEPT !.s.grace = TRUE]
  <1>1. /\ strips[h].there /\ UNCHANGED highlight
        /\ Becomes(h, y) \/ Becomes(h, EndHover(h, x))
    BY DEF MouseLeave
  <1>2. n \in Pairs /\ n.s \in StripState /\ n.s = strips[h] /\ n.p = preview /\ Animated(n.s)
    BY <1>1, NowIsAnimated DEF StripInv
  <1>3. Hovers(n.s, t) /\ Animated(t)
    BY <1>2, HoverRecords
  <1>4. x \in Pairs /\ x.s = t /\ x.p = preview
    BY <1>2, <1>3 DEF Pairs, Hovers
  <1> HIDE DEF n, t, x
  <1>5. Passes(Now(h), x)
    BY <1>2, <1>3, <1>4, HoverPasses DEF StripInv, ShowInv
  <1>6. Hovers(t, u) /\ Animated(u)
    BY <1>3, <1>4, HoverRecords DEF Hovers
  <1>7. y \in Pairs /\ y.s = u /\ y.p = preview
    BY <1>4, <1>6 DEF Pairs, Hovers
  <1> HIDE DEF u, y
  <1>8. Passes(Now(h), y)
    BY <1>2, <1>3, <1>6, <1>7, HoversOn, HoverPasses DEF StripInv, ShowInv
  <1>9. CASE Becomes(h, y)
    BY <1>1, <1>6, <1>7, <1>8, <1>9, StepOfOneStrip
  <1>10. CASE Becomes(h, EndHover(h, x))
    BY <1>1, <1>4, <1>5, <1>10, EndHoverPasses, PassesOn, StepOfOneStrip
  <1> QED
    BY <1>1, <1>9, <1>10

LEMMA TimersKeep ==
    ASSUME StripInv, NEW h \in StripHosts, GraceTimer(h) \/ PreviewTimer(h) \/ AnimationTimer(h)
    PROVE  StripInv'
  <1>1. strips[h].there /\ UNCHANGED highlight
    BY TimersAreThere DEF GraceTimer, PreviewTimer, AnimationTimer, StripInv
  <1>2. Now(h) \in Pairs /\ Now(h).s = strips[h] /\ Animated(strips[h])
    BY <1>1, NowIsAnimated DEF StripInv
  <1>3. CASE GraceTimer(h)
    BY <1>1, <1>2, <1>3, EndHoverPasses, StepOfOneStrip DEF GraceTimer
  <1>4. CASE PreviewTimer(h)
    <2> DEFINE n == Now(h)
               t == [n.s EXCEPT !.delay = FALSE]
               x == [n EXCEPT !.s.delay = FALSE]
               u == [x.s EXCEPT !.armed = TRUE]
               y == [x EXCEPT !.s.armed = TRUE]
    <2>1. Becomes(h, IF x.s.hovering THEN Frame(h, y) ELSE x)
      BY <1>4 DEF PreviewTimer
    <2>2. n \in Pairs /\ n.s \in StripState /\ n.s = strips[h] /\ n.p = preview
      BY NowIsAnimated DEF StripInv
    <2>3. Hovers(n.s, t) /\ (Animated(n.s) => Animated(t))
      BY <2>2, HoverRecords
    <2>4. x \in Pairs /\ x.s = t /\ x.p = preview
      BY <2>2, <2>3 DEF Pairs, Hovers
    <2> HIDE DEF n, t, x
    <2>5. Hovers(t, u)
      BY <2>3, <2>4, HoverRecords DEF Hovers
    <2>6. y \in Pairs /\ y.s = u /\ y.p = preview
      BY <2>4, <2>5 DEF Pairs, Hovers
    <2> HIDE DEF u, y
    <2>7. Passes(Now(h), x) /\ Passes(Now(h), y)
      BY <2>2, <2>3, <2>4, <2>5, <2>6, HoversOn, HoverPasses DEF StripInv, ShowInv
    <2>8. CASE x.s.hovering
      BY <1>1, <2>1, <2>8, <2>6, <2>7, FramePasses, PassesOn, StepOfOneStrip
    <2>9. CASE ~x.s.hovering
      BY <1>1, <1>2, <2>1, <2>2, <2>3, <2>4, <2>9, <2>7, StepOfOneStrip
    <2> QED
      BY <2>8, <2>9
  <1>5. CASE AnimationTimer(h)
    BY <1>1, <1>2, <1>5, FramePasses, StepOfOneStrip DEF AnimationTimer
  <1> QED
    BY <1>3, <1>4, <1>5
-----------------------------------------------------------------------------
(* A drag changes in the strip that has the mouse.                         *)
LEMMA DragChanged ==
    ASSUME ShowInv, DragInv, NEW h \in StripHosts, Capturing \subseteq {h}, NEW t,
           strips' = [strips EXCEPT ![h] = t],
           t.drag # "dragging" => t.dropTarget = NoHost,
           t.drag # "none" => t.dragWindow \in StripHosts,
           Untold /\ t.drag = "dragging" /\ t.dropTarget # NoHost => highlight' = t.dropTarget
    PROVE  DragInv'
  <1>1. \A g \in StripHosts : strips'[g] = IF g = h THEN t ELSE strips[g]
    BY DEF ShowInv, StripTypes
  <1>2. \A g \in StripHosts : g # h => ~HasDrag(strips[g])
    BY DEF Capturing
  <1>3. \A g \in StripHosts : g # h => strips'[g].drag = "none"
    BY <1>1, <1>2 DEF HasDrag
  <1>4. OneDrag'
    BY <1>3 DEF OneDrag, HasDrag
  <1>5. TargetOfDrag'
    BY <1>1 DEF DragInv, TargetOfDrag
  <1>6. HonestIfUntold'
    BY <1>1, <1>3 DEF HighlightIsHonest, HonestIfUntold
  <1>7. DragHasWindow'
    BY <1>1, <1>3 DEF DragHasWindow, HasDrag
  <1> QED
    BY <1>4, <1>5, <1>6, <1>7 DEF DragInv

(* The records a drag passes on.                                           *)
Pressing(s, w) == [s EXCEPT !.drag = "pressed", !.dragWindow = w, !.dropTarget = NoHost]
Aiming(s, w) == [s EXCEPT !.drag = "dragging", !.dropTarget = w]
Quiet(s) == [s EXCEPT !.delay = FALSE, !.grace = FALSE, !.armed = FALSE]

(* What of a strip a drag does not change.                                 *)
Drags(s, t) ==
  /\ t \in StripState /\ t.there = s.there /\ t.shown = s.shown
  /\ Animated(s) => Animated(t)

LEMMA PressRecord ==
    ASSUME NEW s \in StripState, NEW w \in StripHosts
    PROVE  /\ Drags(s, Pressing(s, w))
           /\ Pressing(s, w).drag = "pressed" /\ Pressing(s, w).dropTarget = NoHost
           /\ Pressing(s, w).dragWindow = w
  BY DEF Pressing, Drags, StripState, Animated, Settled

LEMMA AimRecord ==
    ASSUME NEW s \in StripState, NEW w \in StripHosts \cup {NoHost}
    PROVE  /\ Drags(s, Aiming(s, w))
           /\ Aiming(s, w).drag = "dragging" /\ Aiming(s, w).dropTarget = w
           /\ Aiming(s, w).dragWindow = s.dragWindow
  BY DEF Aiming, Drags, StripState, Animated, Settled

LEMMA QuietRecord ==
    ASSUME NEW s \in StripState
    PROVE  Hovers(s, Quiet(s)) /\ (Animated(s) => Animated(Quiet(s)))
  BY DEF Quiet, StripState, Hovers, Animated, Settled

LEMMA DroppedRecord ==
    ASSUME NEW s \in StripState
    PROVE  /\ Drags(s, WithoutDrag(s))
           /\ WithoutDrag(s).drag = "none" /\ WithoutDrag(s).dropTarget = NoHost
  BY DEF WithoutDrag, Drags, StripState, Animated, Settled

(* Passing on is owning, and the owners add up.                            *)
LEMMA OwnsOn ==
    ASSUME NEW x, NEW y, NEW z, Owns(x, y), Owns(y, z)
    PROVE  Owns(x, z)
  BY DEF Owns

LEMMA PressKeeps ==
    ASSUME StripInv, NEW h \in StripHosts, NEW w \in StripHosts, Press(h, w)
    PROVE  StripInv'
  <1> DEFINE s == strips[h]
             t == Pressing(s, w)
             y == [s |-> t, p |-> preview]
  <1>1. /\ s.there /\ Capturing \subseteq {h} /\ UNCHANGED <<preview, highlight>>
        /\ strips' = [strips EXCEPT ![h].drag = "pressed", ![h].dragWindow = w,
                                    ![h].dropTarget = NoHost]
    BY DEF Press, MouseReaches
  <1>2. s \in StripState /\ Animated(s) /\ preview \in PreviewState /\ strips \in [StripHosts -> StripState]
    BY <1>1, NowIsAnimated DEF StripInv, ShowInv, StripTypes
  <1>3. strips' = [strips EXCEPT ![h] = t]
    BY <1>1, <1>2 DEF Pressing
  <1>4. /\ t \in StripState /\ t.there = s.there /\ t.shown = s.shown
        /\ t.drag = "pressed" /\ t.dropTarget = NoHost /\ t.dragWindow = w /\ Animated(t)
    BY <1>2, PressRecord DEF Drags
  <1> HIDE DEF t
  <1>5. y \in Pairs /\ y.s = t /\ y.p = preview
    BY <1>2, <1>4 DEF Pairs
  <1> HIDE DEF y, s
  <1>6. Becomes(h, y)
    BY <1>1, <1>3, <1>5 DEF Becomes
  <1>7. Owns(Now(h), y)
    BY <1>4, <1>5 DEF Owns, Now, s
  <1>8. ShowInv'
    BY <1>1, <1>4, <1>5, <1>6, <1>7, ShowKept DEF StripInv, s
  <1>9. DragInv'
    BY <1>1, <1>3, <1>4, DragChanged DEF StripInv
  <1> QED
    BY <1>8, <1>9 DEF StripInv

LEMMA UpdateDragKeeps ==
    ASSUME StripInv, NEW h \in StripHosts, NEW candidate \in StripHosts \cup {NoHost},
           UpdateDrag(h, candidate)
    PROVE  StripInv'
  <1> DEFINE n == Now(h)
             r == Quiet(n.s)
             q == [n EXCEPT !.s = r]
             x == HidePreview(q)
             y == IF strips[h].drag = "dragging" THEN n ELSE x
             t == Aiming(y.s, candidate)
             z == [y EXCEPT !.s.drag = "dragging", !.s.dropTarget = candidate]
  <1>1. /\ strips[h].there /\ Capturing \subseteq {h}
        /\ highlight' = IF candidate # strips[h].dropTarget THEN candidate ELSE highlight
        /\ Becomes(h, z)
    BY DEF UpdateDrag, MouseReaches, Quiet
  <1>2. n \in Pairs /\ n.s \in StripState /\ n.s = strips[h] /\ n.p = preview /\ Animated(n.s)
    BY <1>1, NowIsAnimated DEF StripInv
  <1> HIDE DEF n
  <1>3. Hovers(n.s, r) /\ Animated(r)
    BY <1>2, QuietRecord
  <1> HIDE DEF r
  <1>4. q \in Pairs /\ q.s = r /\ q.p = n.p
    BY <1>2, <1>3 DEF Pairs, Hovers
  <1> HIDE DEF q
  <1>5. Passes(n, q)
    BY <1>3, <1>4 DEF Passes, Owns, KeepsDrag, Hovers
  <1>6. Passes(n, x) /\ Animated(x.s)
    BY <1>3, <1>4, <1>5, HidePasses, PassesOn
  <1>7. Passes(n, y) /\ Animated(y.s)
    BY <1>2, <1>6 DEF Passes, Owns, KeepsDrag
  <1> HIDE DEF x, y
  <1>8. y \in Pairs /\ y.s \in StripState
    BY <1>7 DEF Passes, Owns, Pairs
  <1>9. /\ t \in StripState /\ t.there = y.s.there /\ t.shown = y.s.shown
        /\ t.drag = "dragging" /\ t.dropTarget = candidate /\ Animated(t)
        /\ t.dragWindow = y.s.dragWindow
    BY <1>7, <1>8, AimRecord DEF Drags
  <1> HIDE DEF t
  <1>10. z \in Pairs /\ z.s = t /\ z.p = y.p
    BY <1>8, <1>9 DEF Pairs, t, Aiming
  <1> HIDE DEF z
  <1>11. Owns(y, z)
    BY <1>9, <1>10 DEF Owns
  <1>12. ShowInv'
    BY <1>1, <1>7, <1>9, <1>10, <1>11, OwnsOn, ShowKept DEF StripInv, Passes, n
  <1>13. Untold /\ candidate # NoHost => highlight' = candidate
    BY <1>1 DEF StripInv, DragInv, TargetOfDrag, HighlightIsHonest, HonestIfUntold
  <1>14. t.dragWindow \in StripHosts
    BY <1>1, <1>2, <1>7, <1>9 DEF StripInv, DragInv, DragHasWindow, Passes, KeepsDrag, UpdateDrag
  <1>15. DragInv'
    BY <1>1, <1>9, <1>10, <1>13, <1>14, DragChanged DEF StripInv, Becomes
  <1> QED
    BY <1>12, <1>15 DEF StripInv

LEMMA ReleaseKeeps ==
    ASSUME StripInv, NEW h \in StripHosts, Release(h)
    PROVE  StripInv'
  <1> DEFINE s == strips[h]
             t == WithoutDrag(s)
             x == [s |-> t, p |-> preview]
             y == HidePreview(x)
             z == [y EXCEPT !.p = NoPreview]
  <1>1. /\ s.there /\ Capturing \subseteq {h} /\ highlight' = NoHost
        /\ Becomes(h, x) \/ Becomes(h, z) \/ Becomes(h, y)
    BY DEF Release, MouseReaches
  <1>2. s \in StripState /\ Animated(s) /\ preview \in PreviewState
    BY <1>1, NowIsAnimated DEF StripInv, ShowInv, StripTypes
  <1>3. /\ t \in StripState /\ t.there = s.there /\ t.shown = s.shown
        /\ t.drag = "none" /\ t.dropTarget = NoHost /\ Animated(t)
    BY <1>2, DroppedRecord DEF Drags
  <1> HIDE DEF t, s
  <1>4. x \in Pairs /\ x.s = t /\ x.p = preview
    BY <1>2, <1>3 DEF Pairs
  <1>5. Owns(Now(h), x)
    BY <1>3, <1>4 DEF Owns, Now, s
  <1> HIDE DEF x
  <1>6. Passes(x, y) /\ Animated(y.s)
    BY <1>3, <1>4, HidePasses
  <1> HIDE DEF y
  <1>7. /\ Owns(Now(h), y) /\ y.s.drag = "none" /\ y.s.dropTarget = NoHost /\ y \in Pairs
    BY <1>3, <1>4, <1>5, <1>6, OwnsOn DEF Passes, Owns, KeepsDrag
  <1>8. z \in Pairs /\ z.s = y.s /\ z.p.by = NoHost
    BY <1>7 DEF Pairs, NoPreview, PreviewState
  <1> HIDE DEF z
  <1>9. Owns(Now(h), z)
    BY <1>7, <1>8 DEF Owns
  <1>10. PICK o : /\ Becomes(h, o) /\ Owns(Now(h), o) /\ Animated(o.s)
                  /\ o.s.drag = "none" /\ o.s.dropTarget = NoHost
    BY <1>1, <1>3, <1>4, <1>5, <1>6, <1>7, <1>8, <1>9
  <1>11. ShowInv'
    BY <1>1, <1>10, ShowKept DEF StripInv, s
  <1>12. DragInv'
    BY <1>1, <1>10, DragChanged DEF StripInv, Becomes
  <1> QED
    BY <1>11, <1>12 DEF StripInv

LEMMA CancelDragKeeps ==
    ASSUME StripInv, NEW h \in StripHosts, CancelDrag(h)
    PROVE  StripInv'
  <1> DEFINE s == strips[h]
             t == WithoutDrag(s)
             x == [s |-> t, p |-> preview]
             y == Frame(h, x)
  <1>1. s.there /\ HasDrag(s) /\ highlight' = NoHost /\ Becomes(h, y)
    BY DEF CancelDrag
  <1>2. s \in StripState /\ Animated(s) /\ preview \in PreviewState
    BY <1>1, NowIsAnimated DEF StripInv, ShowInv, StripTypes
  <1>3. Capturing \subseteq {h}
    BY <1>1 DEF Capturing, StripInv, DragInv, OneDrag
  <1>4. /\ t \in StripState /\ t.there = s.there /\ t.shown = s.shown
        /\ t.drag = "none" /\ t.dropTarget = NoHost
    BY <1>2, DroppedRecord DEF Drags
  <1> HIDE DEF t, s
  <1>5. x \in Pairs /\ x.s = t /\ x.p = preview
    BY <1>2, <1>4 DEF Pairs
  <1>6. Owns(Now(h), x)
    BY <1>4, <1>5 DEF Owns, Now, s
  <1> HIDE DEF x
  <1>7. Passes(x, y) /\ Animated(y.s)
    BY <1>5, FramePasses
  <1> HIDE DEF y
  <1>8. Owns(Now(h), y) /\ y.s.drag = "none" /\ y.s.dropTarget = NoHost
    BY <1>4, <1>5, <1>6, <1>7, OwnsOn DEF Passes, KeepsDrag
  <1>9. ShowInv'
    BY <1>1, <1>7, <1>8, ShowKept DEF StripInv, s
  <1>10. DragInv'
    BY <1>1, <1>3, <1>8, DragChanged DEF StripInv, Becomes
  <1> QED
    BY <1>9, <1>10 DEF StripInv

(* The menu's records.                                                     *)
OpenedMenu(s) == [s EXCEPT !.menuOpen = TRUE, !.grace = FALSE, !.delay = FALSE,
                           !.hovering = FALSE, !.armed = FALSE]
ClosedMenu(s) == [s EXCEPT !.menuOpen = FALSE]

LEMMA MenuRecords ==
    ASSUME NEW s \in StripState
    PROVE  /\ Hovers(s, OpenedMenu(s)) /\ Hovers(s, ClosedMenu(s))
           /\ Animated(s) => Animated(ClosedMenu(s))
  BY DEF OpenedMenu, ClosedMenu, StripState, Hovers, Animated, Settled

LEMMA ClosedAlready ==
    ASSUME NEW s \in StripState, s.menuOpen = FALSE
    PROVE  [s EXCEPT !.menuOpen = FALSE] = s
  BY DEF StripState

LEMMA OpenMenuKeeps ==
    ASSUME StripInv, NEW h \in StripHosts, NEW w \in StripHosts, OpenMenu(h, w)
    PROVE  StripInv'
  <1> DEFINE n == Now(h)
             r == OpenedMenu(n.s)
             q == [n EXCEPT !.s = r]
             x == HidePreview(q)
             c == ClosedMenu(x.s)
             y == [x EXCEPT !.s.menuOpen = FALSE]
  <1>1. /\ strips[h].there /\ UNCHANGED highlight
        /\ Becomes(h, Frame(h, x)) \/ Becomes(h, Frame(h, y))
    BY DEF OpenMenu, MouseReaches, OpenedMenu
  <1>2. n \in Pairs /\ n.s \in StripState
    BY NowIsAnimated DEF StripInv
  <1> HIDE DEF n
  <1>3. Hovers(n.s, r)
    BY <1>2, MenuRecords
  <1> HIDE DEF r
  <1>4. q \in Pairs /\ q.s = r /\ q.p = n.p
    BY <1>2, <1>3 DEF Pairs, Hovers
  <1> HIDE DEF q
  <1>5. Passes(n, q)
    BY <1>3, <1>4 DEF Passes, Owns, KeepsDrag, Hovers
  <1>6. Passes(n, x) /\ x \in Pairs
    BY <1>4, <1>5, HidePasses, PassesOn DEF Passes, Owns
  <1> HIDE DEF x
  <1>7. x.s \in StripState
    BY <1>6 DEF Pairs
  <1>8. Hovers(x.s, c)
    BY <1>7, MenuRecords
  <1> HIDE DEF c
  <1>9. y \in Pairs /\ y.s = c /\ y.p = x.p
    BY <1>6, <1>8 DEF Pairs, Hovers, c, ClosedMenu
  <1> HIDE DEF y
  <1>10. Passes(n, y)
    <2>1. Passes(x, y)
      BY <1>8, <1>9 DEF Passes, Owns, KeepsDrag, Hovers
    <2> QED
      BY <1>6, <2>1, PassesOn
  <1> QED
    BY <1>1, <1>6, <1>9, <1>10, FramePasses, PassesOn, StepOfOneStrip DEF n

LEMMA CloseMenuKeeps ==
    ASSUME StripInv, CloseMenu
    PROVE  StripInv'
  <1> DEFINE h == menu.host
             t == ClosedMenu(strips[h])
             x == [s |-> t, p |-> preview]
  <1>1. strips' = [strips EXCEPT ![h].menuOpen = FALSE] /\ UNCHANGED <<preview, highlight>>
    BY DEF CloseMenu
  <1>2. strips \in [StripHosts -> StripState]
    BY DEF StripInv, ShowInv, StripTypes
  <1>3. CASE h \in StripHosts /\ strips[h].there
    <2>1. Hovers(strips[h], t) /\ Animated(t)
      BY <1>3, NowIsAnimated, MenuRecords DEF StripInv
    <2>2. strips' = [strips EXCEPT ![h] = t]
      BY <1>1, <1>2, <1>3 DEF ClosedMenu
    <2> HIDE DEF t, h
    <2>3. x \in Pairs /\ x.s = t /\ x.p = preview
      BY <2>1 DEF Pairs, Hovers, StripInv, ShowInv, StripTypes
    <2> HIDE DEF x
    <2>4. Passes(Now(h), x)
      BY <1>3, <2>1, <2>3, HoverPasses DEF StripInv, ShowInv
    <2>5. Becomes(h, x)
      BY <1>1, <2>2, <2>3 DEF Becomes
    <2> QED
      BY <1>1, <1>3, <2>1, <2>3, <2>4, <2>5, StepOfOneStrip
  <1>4. CASE ~(h \in StripHosts /\ strips[h].there)
    <2>1. strips' = strips
      <3>1. CASE h \notin StripHosts
        BY <1>1, <1>2, <3>1
      <3>2. CASE h \in StripHosts
        <4>1. strips[h] = NoStrip
          BY <1>4, <3>2 DEF StripInv, ShowInv, GoneIsGone
        <4>2. [strips[h] EXCEPT !.menuOpen = FALSE] = strips[h]
          <5>1. NoStrip.menuOpen = FALSE
            BY DEF NoStrip
          <5> QED
            BY <4>1, <5>1, NoStripIsState, ClosedAlready
        <4> QED
          BY <1>1, <1>2, <3>2, <4>2
      <3> QED
        BY <3>1, <3>2
    <2> QED
      BY <1>1, <2>1 DEF StripInv, ShowInv, DragInv, StripTypes, GoneIsGone, PreviewIsOwned,
         AnimationRuns, OneDrag, TargetOfDrag, DragHasWindow, HighlightIsHonest,
         PreviewOwnedIfUntold, HonestIfUntold
  <1> QED
    BY <1>3, <1>4

LEMMA ApplyModelKeeps ==
    ASSUME StripInv, NEW h \in StripHosts, NEW wanted \in BOOLEAN,
           ApplyModel(h, wanted)
    PROVE  StripInv'
  <1>1. CASE wanted /\ strips[h].there
    <2>1. PICK change \in Changes : Becomes(h, Updated(h, Now(h), change))
      BY <1>1 DEF ApplyModel
    <2>2. UNCHANGED highlight
      BY <1>1 DEF ApplyModel
    <2> QED
      BY <1>1, <2>1, <2>2, NowIsAnimated, UpdatePasses, StepOfOneStrip DEF StripInv
  <1>2. CASE wanted /\ ~strips[h].there
    <2>1. /\ strips' = [strips EXCEPT ![h] = FreshStrip]
          /\ UNCHANGED <<preview, highlight>>
      BY <1>2 DEF ApplyModel
    <2>2. \A g \in StripHosts : strips'[g] = IF g = h THEN FreshStrip ELSE strips[g]
      BY <2>1 DEF StripInv, ShowInv, StripTypes
    <2>3. /\ FreshStrip.there /\ FreshStrip.drag = "none" /\ FreshStrip.dropTarget = NoHost
          /\ Settled(FreshStrip)
      BY DEF FreshStrip, NoStrip, Settled
    <2>4. StripTypes'
      BY <2>1, NoStripIsState DEF StripInv, ShowInv, StripTypes
    <2>5. (GoneIsGone /\ AnimationRuns /\ DragInv)'
      BY <2>1, <2>2, <2>3 DEF StripInv, ShowInv, DragInv, GoneIsGone, AnimationRuns, OneDrag,
         TargetOfDrag, DragHasWindow, HighlightIsHonest, HonestIfUntold, HasDrag
    <2>6. PreviewOwnedIfUntold'
      BY <1>2, <2>1, <2>2 DEF StripInv, ShowInv, PreviewIsOwned, PreviewOwnedIfUntold
    <2> QED
      BY <2>4, <2>5, <2>6 DEF StripInv, ShowInv
  <1>3. CASE ~wanted
    <2> DEFINE y == HidePreview(Now(h))
               t == WithoutDrag(y.s)
               x == [y EXCEPT !.s = t]
    <2>1. PICK notice \in DestroyNotices :
            /\ preview' = Destroyed(h, Now(h), notice)
            /\ highlight' = IF HasDrag(strips[h]) /\ notice = "told" THEN NoHost ELSE highlight
      BY <1>3 DEF ApplyModel
    <2>2. strips[h].there /\ strips' = [strips EXCEPT ![h] = NoStrip]
      BY <1>3 DEF ApplyModel
    <2>3. \A g \in StripHosts : strips'[g] = IF g = h THEN NoStrip ELSE strips[g]
      BY <2>2 DEF StripInv, ShowInv, StripTypes
    <2>4. NoStrip.drag = "none" /\ NoStrip.dropTarget = NoHost /\ Settled(NoStrip)
      BY DEF NoStrip, Settled
    <2>5. Now(h) \in Pairs /\ Now(h).s = strips[h] /\ Now(h).p = preview
      BY NowIsAnimated DEF StripInv
    <2>6. Passes(Now(h), y) /\ ~y.s.shown
      BY <2>5, HidePasses
    <2>7. preview' = y.p \/ preview' = Frame(h, x).p
      BY <2>1 DEF Destroyed
    <2> HIDE DEF y
    <2>8. y \in Pairs /\ y.s \in StripState
      BY <2>6 DEF Passes, Owns, Pairs
    <2>9. t \in StripState
      BY <2>8, DroppedRecord DEF Drags
    <2> HIDE DEF t
    <2>10. x \in Pairs
      BY <2>8, <2>9 DEF Pairs
    <2> HIDE DEF x
    <2>11. Frame(h, x) \in Pairs
      BY <2>10, FramePasses DEF Passes, Owns
    <2>12. preview' \in PreviewState
      BY <2>7, <2>8, <2>11 DEF Pairs
    <2>13. ASSUME Untold
           PROVE  /\ highlight' = highlight
                  /\ preview'.by = NoHost \/ (preview' = preview /\ ~strips[h].shown)
      <3>1. preview' = y.p /\ highlight' = highlight
        BY <2>1, <2>13, StripAssumption DEF Untold, Destroyed, y
      <3> QED
        BY <2>5, <2>6, <3>1 DEF Passes, Owns
    <2>14. StripTypes'
      BY <2>2, <2>12, NoStripIsState DEF StripInv, ShowInv, StripTypes
    <2>15. (GoneIsGone /\ AnimationRuns /\ DragInv)'
      BY <2>3, <2>4, <2>13 DEF StripInv, ShowInv, DragInv, GoneIsGone, AnimationRuns, OneDrag,
         TargetOfDrag, DragHasWindow, HighlightIsHonest, HonestIfUntold, HasDrag
    <2>16. PreviewOwnedIfUntold'
      BY <2>3, <2>13 DEF StripInv, ShowInv, PreviewIsOwned, PreviewOwnedIfUntold
    <2> QED
      BY <2>14, <2>15, <2>16 DEF StripInv, ShowInv
  <1> QED
    BY <1>1, <1>2, <1>3

LEMMA StripInvKept ==
    ASSUME StripInv, [StripNext]_stripVars
    PROVE  StripInv'
  <1>1. ASSUME NEW h \in StripHosts,
               \/ HoverMove(h) \/ MouseLeave(h) \/ GraceTimer(h) \/ PreviewTimer(h)
               \/ AnimationTimer(h) \/ Release(h) \/ CancelDrag(h)
        PROVE  StripInv'
    BY <1>1, HoverMoveKeeps, MouseLeaveKeeps, TimersKeep, ReleaseKeeps, CancelDragKeeps
  <1>2. ASSUME NEW h \in StripHosts, MoveStrip(h) PROVE StripInv'
    BY <1>2, NowIsAnimated, EmitPasses, StepOfOneStrip DEF MoveStrip, StripInv
  <1>3. ASSUME NEW h \in StripHosts, NEW w \in StripHosts,
               Press(h, w) \/ UpdateDrag(h, w) \/ OpenMenu(h, w)
        PROVE  StripInv'
    BY <1>3, PressKeeps, UpdateDragKeeps, OpenMenuKeeps
  <1>4. ASSUME NEW h \in StripHosts, UpdateDrag(h, NoHost) PROVE StripInv'
    BY <1>4, UpdateDragKeeps
  <1>5. ASSUME NEW h \in StripHosts, NEW wanted \in BOOLEAN, ApplyModel(h, wanted) PROVE StripInv'
    BY <1>5, ApplyModelKeeps
  <1>6. CASE CloseMenu
    BY <1>6, CloseMenuKeeps
  <1>7. CASE UNCHANGED <<strips, highlight>> /\ preview' \in {preview, NoPreview}
    <2>1. NoPreview \in PreviewState /\ NoPreview.by = NoHost
      BY DEF NoPreview, PreviewState
    <2>2. preview' \in PreviewState /\ (preview' = preview \/ preview'.by = NoHost)
      BY <1>7, <2>1 DEF StripInv, ShowInv, StripTypes
    <2>3. ShowInv'
      BY <1>7, <2>2 DEF StripInv, ShowInv, StripTypes, GoneIsGone, PreviewIsOwned, AnimationRuns,
         PreviewOwnedIfUntold
    <2>4. DragInv'
      BY <1>7 DEF StripInv, DragInv, OneDrag, TargetOfDrag, DragHasWindow, HighlightIsHonest,
         HonestIfUntold
    <2> QED
      BY <2>3, <2>4 DEF StripInv
  <1>8. CASE RunCommand \/ HidePreviewFromOutside \/ UNCHANGED stripVars
    BY <1>7, <1>8 DEF RunCommand, HidePreviewFromOutside, stripVars
  <1> QED
    BY <1>1, <1>2, <1>3, <1>4, <1>5, <1>6, <1>8 DEF StripNext
-----------------------------------------------------------------------------
(* When Windows sends a window that is being destroyed no message about    *)
(* the capture it loses, a drag outlines its drop target, whatever strips  *)
(* were destroyed before.  Were it told, Destroy of WinOverlayBackend.cpp  *)
(* would end the drag from the strip's own handler (README, section 7).    *)
THEOREM HighlightHonest ==
    ASSUME "told" \notin DestroyNotices
    PROVE  StripSpec => []HighlightIsHonest
  <1>1. StripInv => HighlightIsHonest
    BY DEF StripInv, DragInv, HonestIfUntold, Untold
  <1>2. StripInv /\ [StripNext]_stripVars => StripInv'
    BY StripInvKept
  <1> QED
    BY StripInvInit, <1>1, <1>2, PTL DEF StripSpec

(* Under the same condition every preview has a strip that will hide it.   *)
THEOREM PreviewOwned ==
    ASSUME "told" \notin DestroyNotices
    PROVE  StripSpec => []PreviewIsOwned
  <1>1. StripInv => PreviewIsOwned
    BY DEF StripInv, ShowInv, PreviewOwnedIfUntold, Untold
  <1>2. StripInv /\ [StripNext]_stripVars => StripInv'
    BY StripInvKept
  <1> QED
    BY StripInvInit, <1>1, <1>2, PTL DEF StripSpec

(* Told or not, a strip that is not at rest has its timer running, which   *)
(* with the timer's fairness is why strips come to rest (StepStrip, Frame).*)
THEOREM StripsKeepMoving == StripSpec => []AnimationRuns
  <1>1. StripInv => AnimationRuns
    BY DEF StripInv, ShowInv
  <1>2. StripInv /\ [StripNext]_stripVars => StripInv'
    BY StripInvKept
  <1> QED
    BY StripInvInit, <1>1, <1>2, PTL DEF StripSpec

-----------------------------------------------------------------------------
(* The messages posted by a drop or the menu: one at a time, because input *)
(* waits for it, and the menu is opened by input.                          *)
Posts == [kind : {"drop", "menu"}, window : StripHosts, onto : StripHosts \cup {NoHost}]
PostsInv ==
  /\ highlight \in StripHosts \cup {NoHost}
  /\ commands \in Seq(Posts) /\ Len(commands) <= 1
  /\ (menu = NoMenu \/ (menu \in [host : StripHosts, target : StripHosts] /\ commands = <<>>))

LEMMA OnePost ==
    ASSUME NEW one \in Posts
    PROVE  Append(<<>>, one) \in Seq(Posts) /\ Len(Append(<<>>, one)) = 1
  OBVIOUS

LEMMA PostsKept == StripInv /\ PostsInv /\ [StripNext]_stripVars => PostsInv'
  <1> SUFFICES ASSUME StripInv, PostsInv, [StripNext]_stripVars PROVE PostsInv'
    OBVIOUS
  <1>1. NoHost \in StripHosts \cup {NoHost}
    OBVIOUS
  <1>2. ASSUME UNCHANGED <<commands, menu>>, highlight' \in StripHosts \cup {NoHost}
        PROVE  PostsInv'
    BY <1>2 DEF PostsInv
  <1>3. ASSUME NEW h \in StripHosts,
               \/ HoverMove(h) \/ MouseLeave(h) \/ GraceTimer(h) \/ PreviewTimer(h)
               \/ AnimationTimer(h) \/ MoveStrip(h) \/ CancelDrag(h)
        PROVE  PostsInv'
    <2>1. UNCHANGED <<commands, menu>> /\ highlight' \in {highlight, NoHost}
      BY <1>3 DEF HoverMove, MouseLeave, GraceTimer, PreviewTimer, AnimationTimer, MoveStrip,
         CancelDrag
    <2> QED
      BY <1>2, <2>1 DEF PostsInv
  <1>4. ASSUME NEW h \in StripHosts, Release(h)
        PROVE  PostsInv'
    <2> DEFINE s == strips[h]
               one == [kind |-> "drop", window |-> s.dragWindow, onto |-> s.dropTarget]
    <2>1. /\ HasDrag(s) /\ commands = <<>> /\ highlight' = NoHost /\ menu' = menu /\ menu = NoMenu
          /\ (commands' = Append(commands, one) \/ commands' = commands)
      BY <1>4 DEF Release, MouseReaches
    <2>2. s.dragWindow \in StripHosts /\ s.dropTarget \in StripHosts \cup {NoHost}
      BY <2>1 DEF StripInv, ShowInv, DragInv, DragHasWindow, StripTypes, StripState
    <2>3. one \in Posts
      BY <2>2 DEF Posts
    <2> HIDE DEF one, s
    <2>4. Append(<<>>, one) \in Seq(Posts) /\ Len(Append(<<>>, one)) = 1
      BY <2>3, OnePost
    <2>5. commands' = Append(<<>>, one) \/ commands' = commands
      BY <2>1
    <2>6. commands' \in Seq(Posts) /\ Len(commands') <= 1
      <3>0. commands \in Seq(Posts) /\ Len(commands) <= 1
        BY DEF PostsInv
      <3>1. CASE commands' = commands
        BY <3>0, <3>1
      <3>2. CASE commands' = Append(<<>>, one)
        <4>1. commands' \in Seq(Posts)
          BY <2>4, <3>2
        <4>2. Len(commands') = 1
          BY <2>4, <3>2
        <4> QED
          BY <4>1, <4>2
      <3> QED
        BY <2>5, <3>1, <3>2
    <2> QED
      BY <2>1, <2>6 DEF PostsInv
  <1>5. ASSUME NEW h \in StripHosts, NEW w \in StripHosts \cup {NoHost}, UpdateDrag(h, w)
        PROVE  PostsInv'
    <2>1. UNCHANGED <<commands, menu>> /\ highlight' \in {w, highlight}
      BY <1>5 DEF UpdateDrag
    <2> QED
      BY <1>2, <2>1 DEF PostsInv
  <1>6. ASSUME NEW h \in StripHosts, NEW w \in StripHosts, Press(h, w)
        PROVE  PostsInv'
    BY <1>2, <1>6 DEF Press, PostsInv
  <1>7. ASSUME NEW h \in StripHosts, NEW w \in StripHosts, OpenMenu(h, w)
        PROVE  PostsInv'
    <2>1. /\ commands = <<>> /\ UNCHANGED <<highlight, commands>> /\ menu = NoMenu
          /\ (menu' = [host |-> h, target |-> w] \/ menu' = menu)
      BY <1>7 DEF OpenMenu, MouseReaches
    <2>2. [host |-> h, target |-> w] \in [host : StripHosts, target : StripHosts]
      OBVIOUS
    <2> QED
      BY <2>1, <2>2 DEF PostsInv
  <1>8. ASSUME NEW h \in StripHosts, NEW wanted \in BOOLEAN, ApplyModel(h, wanted)
        PROVE  PostsInv'
    <2>1. UNCHANGED <<commands, menu>> /\ highlight' \in {highlight, NoHost}
      BY <1>8 DEF ApplyModel
    <2> QED
      BY <1>2, <2>1 DEF PostsInv
  <1>9. ASSUME CloseMenu
        PROVE  PostsInv'
    <2> DEFINE one == [kind |-> "menu", window |-> menu.target, onto |-> NoHost]
    <2>1. /\ menu # NoMenu /\ menu' = NoMenu /\ highlight' = highlight
          /\ (commands' = Append(commands, one) \/ commands' = commands)
      BY <1>9 DEF CloseMenu
    <2>2. menu.target \in StripHosts /\ commands = <<>>
      BY <2>1 DEF PostsInv
    <2>3. one \in Posts
      BY <2>2 DEF Posts
    <2> HIDE DEF one
    <2>4. Append(<<>>, one) \in Seq(Posts) /\ Len(Append(<<>>, one)) = 1
      BY <2>3, OnePost
    <2>5. commands' = Append(<<>>, one) \/ commands' = commands
      BY <2>1, <2>2
    <2>6. commands' \in Seq(Posts) /\ Len(commands') <= 1
      <3>0. commands \in Seq(Posts) /\ Len(commands) <= 1
        BY DEF PostsInv
      <3>1. CASE commands' = commands
        BY <3>0, <3>1
      <3>2. CASE commands' = Append(<<>>, one)
        <4>1. commands' \in Seq(Posts)
          BY <2>4, <3>2
        <4>2. Len(commands') = 1
          BY <2>4, <3>2
        <4> QED
          BY <4>1, <4>2
      <3> QED
        BY <2>5, <3>1, <3>2
    <2> QED
      BY <2>1, <2>6 DEF PostsInv
  <1>10. ASSUME RunCommand
         PROVE  PostsInv'
    <2>1. /\ commands # <<>> /\ commands' = Tail(commands) /\ UNCHANGED <<highlight, menu>>
      BY <1>10 DEF RunCommand
    <2>2. Tail(commands) \in Seq(Posts) /\ Len(Tail(commands)) <= 1
      BY <2>1 DEF PostsInv
    <2> QED
      BY <2>1, <2>2 DEF PostsInv
  <1>11. CASE HidePreviewFromOutside \/ UNCHANGED stripVars
    BY <1>11 DEF HidePreviewFromOutside, stripVars, PostsInv
  <1> QED
    BY <1>3, <1>4, <1>5, <1>6, <1>7, <1>8, <1>9, <1>10, <1>11 DEF StripNext

LEMMA PostsInit == StripInit => PostsInv
  BY DEF StripInit, PostsInv

LEMMA PostsTypes == StripInv /\ PostsInv => StripTypeOK
  <1> SUFFICES ASSUME StripInv, PostsInv PROVE StripTypeOK
    OBVIOUS
  <1>1. menu \in [host : StripHosts \cup {NoHost}, target : StripHosts \cup {NoHost}]
    BY DEF PostsInv, NoMenu
  <1> QED
    BY <1>1 DEF StripInv, ShowInv, StripTypes, PreviewState, PostsInv, Posts, StripTypeOK

LEMMA StripInvAlways == StripSpec => [](StripInv /\ PostsInv)
  <1>1. StripInv /\ [StripNext]_stripVars => StripInv'
    BY StripInvKept
  <1>2. StripInv /\ PostsInv /\ [StripNext]_stripVars => PostsInv'
    BY PostsKept
  <1> QED
    BY StripInvInit, PostsInit, <1>1, <1>2, PTL DEF StripSpec

(* The strips, the preview, the outline, the posted commands and the menu  *)
(* are what their types say, told or not (MenuHostProc, Apply).            *)
THEOREM StripTyping == StripSpec => []StripTypeOK
  <1>1. StripInv /\ PostsInv => StripTypeOK
    BY PostsTypes
  <1> QED
    BY <1>1, StripInvAlways, PTL

-----------------------------------------------------------------------------
(* What is painted has its types, however the borders and the strip step   *)
(* (WinBorderBackend.cpp and WinOverlayBackend.cpp share no state).        *)
THEOREM ScreenTyping == ScreenSpec => []ScreenTypeOK
  <1>1. ScreenInit => BorderInv /\ StripInv /\ PostsInv
    BY BorderInvInit, StripInvInit, PostsInit DEF ScreenInit
  <1>2. ASSUME BorderInv, StripInv, PostsInv,
               [ScreenNext]_<<shows, borderVars, stripVars>>
        PROVE  BorderInv' /\ StripInv' /\ PostsInv'
    <2>1. [BorderNext]_borderVars /\ [StripNext]_stripVars
      BY <1>2 DEF ScreenNext
    <2> QED
      BY <1>2, <2>1, BorderInvKept, StripInvKept, PostsKept
  <1>3. BorderInv /\ StripInv /\ PostsInv => ScreenTypeOK
    BY PostsTypes DEF BorderInv, ScreenTypeOK
  <1> QED
    BY <1>1, <1>2, <1>3, PTL DEF ScreenSpec
=============================================================================
