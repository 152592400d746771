----------------------------- MODULE Rectangles -----------------------------
(***************************************************************************)
(* The rectangles of the program (Types.h): left and top belong to it,     *)
(* right and bottom do not.                                                *)
(***************************************************************************)
EXTENDS Integers

Rect(l, t, r, b) == [left |-> l, top |-> t, right |-> r, bottom |-> b]
Rects == [left : Int, top : Int, right : Int, bottom : Int]
Width(r) == r.right - r.left
Height(r) == r.bottom - r.top
IsEmpty(r) == r.right <= r.left \/ r.bottom <= r.top

AtLeast(a, b) == IF a >= b THEN a ELSE b
AtMost(a, b) == IF a <= b THEN a ELSE b
\* Integer division in C++ rounds towards zero.
Half(n) == IF n >= 0 THEN n \div 2 ELSE -((-n) \div 2)

Covers(r, x, y) == r.left <= x /\ x < r.right /\ r.top <= y /\ y < r.bottom
=============================================================================
