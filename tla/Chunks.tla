------------------------------- MODULE Chunks -------------------------------
(***************************************************************************)
(* The spatial index of a map (src/world/chunk.cc): a tree of boxes, each  *)
(* with up to eight parts, that tells which objects are in view and which  *)
(* ones are close enough to collide.                                       *)
(*                                                                         *)
(* A leaf is split when it holds too many objects; those that lie across   *)
(* the plane stay in the node. Parts that are empty are deleted again, but *)
(* boxes never shrink. The tree is meant to be a set of placed objects.    *)
(***************************************************************************)
EXTENDS Integers, Sequences, FiniteSets, SequencesExt, FiniteSetsExt

CONSTANTS
  Object,      \* entities
  Size,        \* extent of each in the three dimensions (entire_max)
  Where,       \* positions objects are placed at
  MaxObjects,  \* MAX_OBJECTS
  MinSize,     \* MIN_SIZE
  MaxPlaced,   \* bound on the objects that are placed
  Probes       \* boxes the map is searched for

Dim == {"x", "y", "z"}
Point == [Dim -> Int]

ChunksAssumption ==
  /\ Where \subseteq Point /\ Size \in [Object -> Point]
  /\ MinSize \in Nat \ {0} /\ MaxObjects \in Nat \ {0}
  /\ \A b \in Probes : b.min \in Point /\ b.max \in Point

VARIABLES
  tree,        \* the area
  placed       \* history: what has been placed and not been removed, and how often

vars == <<tree, placed>>

Zero == [d \in Dim |-> 0]
Plus (p, q) == [d \in Dim |-> p[d] + q[d]]
Lower (p, q) == [d \in Dim |-> IF p[d] < q[d] THEN p[d] ELSE q[d]]
Upper (p, q) == [d \in Dim |-> IF p[d] > q[d] THEN p[d] ELSE q[d]]

\* chunk_info
Info (o, pos) == [object |-> o, min |-> pos, max |-> Plus (pos, Size[o])]

Infos == {Info (o, pos) : o \in Object, pos \in Where}

-----------------------------------------------------------------------------
(* A node; children are named by the dimensions in which they are beyond   *)
(* the plane.                                                              *)

Chunk (min) == [min |-> min, max |-> Zero, split |-> Zero, objects |-> <<>>, children |-> <<>>]

IsLeaf (n) == DOMAIN n.children = {}

WithChild (n, S, c) ==
  [n EXCEPT !.children = [R \in DOMAIN @ \cup {S} |-> IF R = S THEN c ELSE @[R]]]

WithoutChild (n, S) == [n EXCEPT !.children = [R \in DOMAIN @ \ {S} |-> @[R]]]

ChildAt (n, S, min) == IF S \in DOMAIN n.children THEN n.children[S] ELSE Chunk (min)

\* The parts a box touches.
FindChunks (n, min, max) ==
  {S \in SUBSET Dim : \A d \in Dim :
     IF d \in S THEN min[d] >= n.split[d] \/ max[d] > n.split[d] ELSE min[d] < n.split[d]}

CanSplit (n) == \E d \in Dim : n.max[d] - n.min[d] >= 2 * MinSize

\* Towards zero to a multiple of the size of a tile.
Aligned (x) == IF x >= 0 THEN x - (x % MinSize) ELSE x + ((-x) % MinSize)

SplitPoint (n) ==
  [d \in Dim |-> LET half == (n.max[d] - n.min[d]) \div 2
                 IN Aligned (n.min[d] + IF half > MinSize THEN half ELSE MinSize)]

-----------------------------------------------------------------------------
RECURSIVE Add (_, _)

\* Into the part the object is in, or the node itself if there are several.
Place (n, i) ==
  LET parts == FindChunks (n, i.min, i.max)
      S == CHOOSE part \in parts : TRUE
  IN IF Cardinality (parts) = 1 THEN WithChild (n, S, Add (ChildAt (n, S, i.min), i))
     ELSE [n EXCEPT !.objects = Append (@, i)]

Split (n) == FoldLeft (Place, [n EXCEPT !.split = SplitPoint (n), !.objects = <<>>], n.objects)

Add (n, i) ==
  LET grown == [n EXCEPT !.min = Lower (@, i.min), !.max = Upper (@, i.max)]
      room == Len (n.objects) < MaxObjects \/ ~ CanSplit (grown)
  IN IF ~ IsLeaf (n) THEN Place (grown, i)
     ELSE IF room THEN [grown EXCEPT !.objects = Append (@, i)]
     ELSE Place (Split (grown), i)

\* The first object that equals, without it.
Without (s, i) ==
  IF i \in Range (s) THEN RemoveAt (s, CHOOSE k \in DOMAIN s : s[k] = i /\ \A l \in 1 .. k - 1 : s[l] # i) ELSE s

\* Mutation: a part is deleted that has parts of its own.
Useless (c) == c.objects = <<>>

\* Parts that hold nothing any more.
Deletable (c) == c.objects = <<>> /\ IsLeaf (c)

RECURSIVE RemoveFrom (_, _)

\* chunk::remove
RemoveFrom (n, i) ==
  LET parts == FindChunks (n, i.min, i.max)
      S == CHOOSE part \in parts : TRUE
  IN IF ~ IsLeaf (n) /\ Cardinality (parts) = 1 /\ S \in DOMAIN n.children
     THEN LET c == RemoveFrom (n.children[S], i)
          IN IF Deletable (c) THEN WithoutChild (n, S) ELSE WithChild (n, S, c)
     ELSE [n EXCEPT !.objects = Without (@, i)]

RECURSIVE Exists (_, _)

\* chunk::exists
Exists (n, i) ==
  LET parts == FindChunks (n, i.min, i.max)
      S == CHOOSE part \in parts : TRUE
  IN \/ ~ IsLeaf (n) /\ Cardinality (parts) = 1 /\ S \in DOMAIN n.children /\ Exists (n.children[S], i)
     \/ i \in Range (n.objects)

RECURSIVE Collected (_, _)

\* chunk::put_state, which collects all objects: how often one of them.
Collected (n, i) ==
  Cardinality ({k \in DOMAIN n.objects : n.objects[k] = i})
    + MapThenSumSet (LAMBDA S : Collected (n.children[S], i), DOMAIN n.children)

-----------------------------------------------------------------------------
(* Searching *)

\* in_view: what is further back is drawn higher up.
InView (view, min, max) ==
  /\ view.max["x"] >= min["x"] /\ view.min["x"] <= max["x"]
  /\ view.max["y"] - view.min["z"] >= min["y"] - max["z"]
  /\ view.min["y"] - view.max["z"] <= max["y"] - min["z"]

RECURSIVE ObjectsInView (_, _)

ObjectsInView (n, view) ==
  {i \in Range (n.objects) : InView (view, i.min, i.max)}
    \cup UNION {ObjectsInView (n.children[S], view) :
                  S \in {R \in DOMAIN n.children : InView (view, n.children[R].min, n.children[R].max)}}

\* in_bbox: boxes that touch do overlap.
InBBox (box, i) == \A d \in Dim : box.max[d] >= i.min[d] /\ box.min[d] <= i.max[d]

Inside (box, i) == \A d \in Dim : box.max[d] > i.min[d] /\ box.min[d] < i.max[d]

RECURSIVE ObjectsInBBox (_, _)

\* The parts are those of the split plane, wherever the box is.
ObjectsInBBox (n, box) ==
  {i \in Range (n.objects) : InBBox (box, i)}
    \cup UNION {ObjectsInBBox (n.children[S], box) :
                  S \in DOMAIN n.children \cap FindChunks (n, box.min, box.max)}

-----------------------------------------------------------------------------
Init == tree = Chunk (Zero) /\ placed = [i \in Infos |-> 0]

PlacedCount == MapThenSumSet (LAMBDA i : placed[i], Infos)

AddObject (i) ==
  /\ PlacedCount < MaxPlaced
  /\ tree' = Add (tree, i) /\ placed' = [placed EXCEPT ![i] = @ + 1]

RemoveObject (i) ==
  /\ placed[i] > 0
  /\ tree' = RemoveFrom (tree, i) /\ placed' = [placed EXCEPT ![i] = @ - 1]

Clear == tree' = Chunk (Zero) /\ placed' = [i \in Infos |-> 0]

Next == (\E i \in Infos : AddObject (i) \/ RemoveObject (i)) \/ Clear

Spec == Init /\ [][Next]_vars

-----------------------------------------------------------------------------
(* Properties. *)

\* However often nodes are split and deleted, the tree holds what has been
\* placed, each as often as it has, nothing else, and it is found by exists.
TreeHolds ==
  \A i \in Infos :
    /\ Collected (tree, i) = placed[i]
    /\ placed[i] > 0 <=> Exists (tree, i)

\* Searching the tree finds what searching all objects would: exactly what is
\* in view, and of a box all that is inside and nothing that does not touch it.
SearchAgrees ==
  \A b \in Probes :
    LET there == {i \in Infos : placed[i] > 0}
        found == ObjectsInBBox (tree, b)
    IN /\ ObjectsInView (tree, b) = {i \in there : InView (b, i.min, i.max)}
       /\ {i \in there : Inside (b, i)} \subseteq found
       /\ found \subseteq {i \in there : InBBox (b, i)}
=============================================================================
