----------------------------- MODULE Rendering ------------------------------
(***************************************************************************)
(* default_renderer and hw_renderer: the order in which the objects in     *)
(* view are painted.  An object is painted when no object that is below it *)
(* remains in the queue; the default renderer goes through the queue from  *)
(* the back and also drops objects that are hidden behind opaque ones.     *)
(* When a pass paints nothing, the first in the queue is painted anyway.   *)
(*                                                                         *)
(* Objects are boxes; their sprites cover the projection of the box: y - z *)
(* from the top of its back to the bottom of its front.                    *)
(***************************************************************************)
EXTENDS DrawingAreas

CONSTANTS
    Boxes,          \* boxes the objects in view are taken from
    InView          \* number of objects in view

RenderingAssumption ==
    /\ InView \in Nat
    /\ Boxes \subseteq [x : Int, y : Int, z : Int, length : Nat, width : Nat, height : Nat,
                        flat : BOOLEAN, opaque : BOOLEAN]

VARIABLES
    renderer,       \* "default" or "hw"
    objects,        \* the boxes in view
    queue,          \* render_queue: objects still to be painted
    it,             \* the place in the queue that is looked at, 0 between passes
    size,           \* length of the queue when the pass began
    drawn,          \* history: objects painted, in order
    forced          \* history: objects painted to end a deadlock

renderVars == <<renderer, objects, queue, it, size, drawn, forced>>

(* render_info: the projection on the screen. *)
Projection(o) == drawing_area(o.x, o.y - o.z - o.height, o.length, o.width + o.height)
Overlap(a, b) ==
    /\ XL(Projection(a)) < XR(Projection(b)) /\ YT(Projection(a)) < YB(Projection(b))
    /\ XL(Projection(b)) < XR(Projection(a)) /\ YT(Projection(b)) < YB(Projection(a))

(* is_object_below: whether o is below p; first by their position on the   *)
(* y and z axis, then, when they intersect, by what they are.              *)
Where(min, max, omin, omax) ==
    CASE omin >= min /\ omin <= max /\ omax >= max                               -> "top"
      [] ~(omin >= min /\ omin <= max /\ omax >= max)
         /\ omax <= max /\ omax >= min /\ omin <= min                            -> "bottom"
      [] OTHER                                                                   -> "none"
Intersecting(o, p) ==
    LET behind == Where(p.y, p.y + p.width, o.y, o.y + o.width)
        under == Where(p.z, p.z + p.height, o.z, o.z + o.height)
    IN  CASE o.flat /\ p.flat ->
               IF o.z + o.height # p.z + p.height THEN o.z + o.height < p.z + p.height
               ELSE o.height > p.height
          [] ~o.flat /\ ~p.flat ->
               IF o.y + o.width # p.y + p.width THEN o.y + o.width < p.y + p.width
               ELSE o.width > p.width
          [] OTHER ->
               IF under # "none" THEN under = "bottom"
               ELSE IF behind # "none" THEN behind = "bottom"
               ELSE p.flat
is_object_below(o, p) ==
    IF o.y + o.width <= p.y THEN ~(o.z + o.height > p.z /\ o.z >= p.z + p.height)
    ELSE IF o.y >= p.y + p.width \/ o.z >= p.z + p.height THEN FALSE
    ELSE IF o.z + o.height <= p.z THEN TRUE
    ELSE Intersecting(o, p)

Others(i) == {j \in ToSet(queue) \ {i} : Overlap(objects[i], objects[j])}
InTheWay(i) == {j \in Others(i) : is_object_below(objects[j], objects[i])}

(* What remains to be seen of an object behind the opaque ones.            *)
Visible(i) ==
    LET hiding == {j \in Others(i) \ InTheWay(i) : objects[j].opaque}
    IN  FoldLeft(LAMBDA parts, j : subtract_from(Projection(objects[j]), parts),
                 {Projection(objects[i])}, SelectSeq(queue, LAMBDA j : j \in hiding))

(* can_draw_object of the two renderers. *)
can_draw_object(i) ==
    CASE renderer = "default" /\ Visible(i) = {} -> "drop"
      [] ~(renderer = "default" /\ Visible(i) = {}) /\ InTheWay(i) # {} -> "skip"
      [] OTHER -> "draw"

-----------------------------------------------------------------------------
Init ==
    /\ renderer \in {"default", "hw"}
    /\ objects \in [1..InView -> Boxes]
    /\ queue = [i \in 1..InView |-> i]
    /\ it = 0 /\ size = 0
    /\ drawn = <<>> /\ forced = {}

(* while (!render_queue.empty()): another pass. *)
Pass ==
    /\ it = 0
    /\ queue # <<>>
    /\ size' = Len(queue)
    /\ it' = IF renderer = "default" THEN Len(queue) ELSE 1
    /\ UNCHANGED <<renderer, objects, queue, drawn, forced>>

InPass == it > 0 /\ it <= Len(queue)
Advanced == IF renderer = "default" THEN it - 1 ELSE it + 1
AfterErase == IF renderer = "default" THEN it - 1 ELSE it
PassEnds(i, n) == IF i > n THEN -1 ELSE IF i = 0 THEN -1 ELSE i

Examine ==
    /\ InPass
    /\ LET i == queue[it]
           verdict == can_draw_object(i)
       IN  /\ drawn' = IF verdict = "draw" THEN Append(drawn, i) ELSE drawn
           /\ queue' = IF verdict = "skip" THEN queue ELSE RemoveAt(queue, it)
           /\ it' = IF verdict = "skip" THEN PassEnds(Advanced, Len(queue))
                    ELSE PassEnds(AfterErase, Len(queue) - 1)
    /\ UNCHANGED <<renderer, objects, size, forced>>

(* A pass that painted nothing: paint the front of the queue. *)
EndOfPass ==
    /\ it = -1
    /\ IF size = Len(queue)
       THEN /\ drawn' = Append(drawn, Head(queue))
            /\ forced' = forced \cup {Head(queue)}
            /\ queue' = Tail(queue)
       ELSE UNCHANGED <<drawn, forced, queue>>
    /\ it' = 0
    /\ UNCHANGED <<renderer, objects, size>>

Next == Pass \/ Examine \/ EndOfPass

Spec == Init /\ [][Next]_renderVars

-----------------------------------------------------------------------------
(* An object that is not painted, as others hide it, would not have been   *)
(* seen: wherever it is, an opaque object that is not below it is painted. *)
HiddenIsHidden ==
    queue = <<>> =>
        \A i \in 1..InView \ ToSet(drawn) : \A p \in Pixels(Projection(objects[i])) :
            \E j \in ToSet(drawn) :
                /\ objects[j].opaque /\ p \in Pixels(Projection(objects[j]))
                /\ ~is_object_below(objects[j], objects[i])

(* Every object is painted once at most, and after those that are below    *)
(* it, unless it was painted to get out of a deadlock.                     *)
PaintedFromBelow ==
    \A k, l \in 1..Len(drawn) : k < l =>
        /\ drawn[k] # drawn[l]
        /\ LET a == objects[drawn[k]]
               b == objects[drawn[l]]
           IN  Overlap(a, b) /\ is_object_below(b, a) => drawn[k] \in forced
=============================================================================
