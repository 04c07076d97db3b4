---------------------------- MODULE DrawingAreas ----------------------------
(***************************************************************************)
(* gfx::drawing_area: rectangles, the clipping of one by a chain of others *)
(* and the difference of two, which is a set of rectangles.  The lists of  *)
(* parts are sets here: nothing depends on the order of the parts.         *)
(***************************************************************************)
EXTENDS Integers, Sequences, SequencesExt, FiniteSetsExt

drawing_area(x, y, w, h) == [x |-> x, y |-> y, w |-> w, h |-> h]

XL(da) == da.x
XR(da) == da.x + da.w
YT(da) == da.y
YB(da) == da.y + da.h

Pixels(da) == (XL(da) .. XR(da) - 1) \X (YT(da) .. YB(da) - 1)

(* setup_rects: the area within the areas it is assigned to. *)
Positive(n) == IF n > 0 THEN n ELSE 0
Intersection(a, b) ==
    LET x == Max({a.x, b.x})
        y == Max({a.y, b.y})
    IN  drawing_area(x, y, Positive(Min({XR(a), XR(b)}) - x),
                           Positive(Min({YB(a), YB(b)}) - y))
setup_rects(da, assigned) == FoldLeft(Intersection, da, assigned)

(* compare: where b lies relative to a, on one axis.                       *)
Side(amin, amax, bmin, bmax) ==
    CASE bmin <= amin /\ bmax < amin                  -> "before"
      [] bmin <= amin /\ bmax >= amin /\ bmax < amax  -> "first"
      [] bmin <= amin /\ bmax >= amax                 -> "all"
      [] bmin > amin /\ bmin <= amax /\ bmax < amax   -> "middle"
      [] bmin > amin /\ bmin <= amax /\ bmax >= amax  -> "last"
      [] OTHER                                        -> "after"
SideX(a, b) == Side(XL(a), XR(a) - 1, XL(b), XR(b) - 1)
SideY(a, b) == Side(YT(a), YB(a) - 1, YT(b), YB(b) - 1)

(* Mutation: what is left beside b, in columns, is forgotten. *)
RowsOnly(a, b) ==
    IF {SideX(a, b), SideY(a, b)} \cap {"before", "after"} # {} THEN {a}
    ELSE {drawing_area(XL(a), YT(a), a.w, YT(b) - YT(a)) : p \in {SideY(a, b)} \cap {"middle", "last"}}
         \cup {drawing_area(XL(a), YB(b), a.w, YB(a) - YB(b)) : p \in {SideY(a, b)} \cap {"first", "middle"}}
(* subtract_area: a is cut in rows around b; in columns if b sticks out of *)
(* the top or the bottom only.                                             *)
subtract_area(a, b) ==
    LET sx == SideX(a, b)
        sy == SideY(a, b)
        columns == sx = "middle" /\ sy \in {"first", "last"}
        top == Max({YT(a), YT(b)})
        bottom == Min({YB(a), YB(b)})
        y == IF columns THEN YT(a) ELSE top
        h == IF columns THEN a.h ELSE bottom - top
        x == IF columns THEN XL(b) ELSE XL(a)
        w == IF columns THEN b.w ELSE a.w
    IN  IF sx \in {"before", "after"} \/ sy \in {"before", "after"} THEN {a}
        ELSE {drawing_area(x, YT(a), w, YT(b) - YT(a)) : p \in {sy} \cap {"middle", "last"}}
             \cup {drawing_area(x, YB(b), w, YB(a) - YB(b)) : p \in {sy} \cap {"first", "middle"}}
             \cup {drawing_area(XL(a), y, XL(b) - XL(a), h) : p \in {sx} \cap {"middle", "last"}}
             \cup {drawing_area(XR(b), y, XR(a) - XR(b), h) : p \in {sx} \cap {"first", "middle"}}
subtract_from(b, parts) == UNION {subtract_area(a, b) : a \in parts}
=============================================================================
