----------------------------- MODULE Placeables -----------------------------
(***************************************************************************)
(* What objects on the map are made of: a placeable has one or several     *)
(* models, a model a shape for each state, a shape parts (src/world/       *)
(* placeable.cc, placeable_model.cc, placeable_shape.cc, cube3.cc).        *)
(*                                                                         *)
(* Bounding boxes are kept at every level: of the parts of a shape, of all *)
(* shapes of all models, and of the shapes of the current state, whether   *)
(* solid or not. The models are sorted by height when the state changes.   *)
(*                                                                         *)
(* Boxes have two dimensions here; the third is treated like "x".          *)
(***************************************************************************)
EXTENDS Integers, Sequences, FiniteSets, SequencesExt

CONSTANTS
  Model,       \* placeable_model
  NameOrder,   \* names of states, in order
  Shapes,      \* the states each model has a shape for
  Solid,       \* those in which it is solid
  Cubes,       \* parts shapes are made of
  MaxParts,    \* bound on the parts of a shape
  None

Dim == {"x", "z"}
Name == Range (NameOrder)

PlaceablesAssumption ==
  /\ Shapes \in [Model -> SUBSET Name] /\ \A m \in Model : Shapes[m] # {} /\ Solid[m] \subseteq Shapes[m]
  /\ \A c \in Cubes : \A d \in Dim : c.min[d] <= c.max[d]

VARIABLES
  parts,       \* the parts of each shape
  box,         \* Min and Max of each shape
  object       \* see Placeable

vars == <<parts, box, object>>
shapeVars == <<parts, box>>

AnyBox == [min : [Dim -> Int], max : [Dim -> Int]]

ZeroBox == [min |-> [d \in Dim |-> 0], max |-> [d \in Dim |-> 0]]

\* models: Model; shape: CurrentShape of each; solidCur, entireCur, solidMax and
\* entireMax: boxes, given by position and size in the code; state, solid.
Placeable == [models : Seq (Model), shape : [Model -> Name \cup {None}], state : Name \cup {None},
              solid : BOOLEAN, solidCur : AnyBox, entireCur : AnyBox,
              solidMax : AnyBox \cup {None}, entireMax : AnyBox \cup {None}]

Merge (a, b) ==
  [min |-> [d \in Dim |-> IF b.min[d] < a.min[d] THEN b.min[d] ELSE a.min[d]],
   max |-> [d \in Dim |-> IF b.max[d] > a.max[d] THEN b.max[d] ELSE a.max[d]]]

MergeAll (start, boxes) == FoldLeft (Merge, start, boxes)

\* What a box should be: the smallest around all of a set.
Hull (S) ==
  [min |-> [d \in Dim |-> CHOOSE v \in {b.min[d] : b \in S} : \A b \in S : v <= b.min[d]],
   max |-> [d \in Dim |-> CHOOSE v \in {b.max[d] : b \in S} : \A b \in S : v >= b.max[d]]]

-----------------------------------------------------------------------------
(* Shapes *)

ShapeOf == UNION {{m} \X Shapes[m] : m \in Model}

Used (m) == m \in Range (object.models)

\* placeable_shape::add_part; models are complete before objects use them.
AddPart (s, c) ==
  /\ ~ Used (s[1]) /\ c \notin Range (parts[s]) /\ Len (parts[s]) < MaxParts
  /\ parts' = [parts EXCEPT ![s] = Append (@, c)]
  /\ box' = [box EXCEPT ![s] = IF parts[s] = <<>> THEN c ELSE Merge (@, c)]
  /\ UNCHANGED object

\* The box is turned inside out and grows from there.
Shrunk (old, left) ==
  IF left = <<>> THEN ZeroBox ELSE MergeAll ([min |-> old.max, max |-> old.min], left)

\* placeable_shape::remove_part
RemovePart (s, c) ==
  /\ ~ Used (s[1]) /\ c \in Range (parts[s])
  /\ parts' = [parts EXCEPT ![s] = SelectSeq (@, LAMBDA p : p # c)]
  /\ box' = [box EXCEPT ![s] = Shrunk (@, parts'[s])]
  /\ UNCHANGED object

\* placeable_shape::bottom: the lowest part above or below an area.
Bottom (s, x1, x2) ==
  LET below == {p \in Range (parts[s]) :
                  p.max["x"] >= x1 /\ p.min["x"] <= x2 /\ p.min["z"] < box[s].max["z"]}
  IN IF below = {} THEN box[s].min["z"] ELSE Hull (below).min["z"]

-----------------------------------------------------------------------------
(* The placeable *)

Init ==
  /\ parts = [s \in ShapeOf |-> <<>>] /\ box = [s \in ShapeOf |-> ZeroBox]
  /\ object = [models |-> <<>>, shape |-> [m \in Model |-> None], state |-> None, solid |-> TRUE,
               solidCur |-> ZeroBox, entireCur |-> ZeroBox, solidMax |-> None, entireMax |-> None]

Grown (max, boxes) ==
  IF boxes = <<>> THEN max ELSE MergeAll (IF max = None THEN Head (boxes) ELSE max, boxes)

InOrder (S) == SelectSeq (NameOrder, LAMBDA n : n \in S)

BoxesOf (m, S) == [i \in DOMAIN InOrder (S) |-> box[<<m, InOrder (S)[i]>>]]

\* placeable::add_model, with all shapes of the model; then the first state is set.
AddModel (m) ==
  /\ ~ Used (m) /\ \A n \in Shapes[m] : parts[<<m, n>>] # <<>>
  /\ object.models # <<>> => object.state = None
  /\ object' = [object EXCEPT !.models = Append (@, m),
                              !.solidMax = Grown (@, BoxesOf (m, Solid[m])),
                              !.entireMax = Grown (@, BoxesOf (m, Shapes[m]))]
  /\ UNCHANGED shapeVars

\* placeable_model::set_shape
SetShape (m, name) ==
  IF name = None THEN Head (InOrder (Shapes[m]))
  ELSE IF name \in Shapes[m] THEN name ELSE object.shape[m]

\* Whether a model comes before another one: its top is higher, or it is flat.
Before (shape, a, b) ==
  LET s == box[<<a, shape[a]>>]
      t == box[<<b, shape[b]>>]
  IN s.max["z"] > t.max["z"] \/ (s.max["z"] = t.max["z"] /\ s.min["z"] < t.min["z"])

\* std::sort: models that are equal come in any order.
Sorted (shape, models) ==
  {s \in SetToSeqs (Range (models)) : \A i, k \in DOMAIN s : i < k => ~ Before (shape, s[k], s[i])}

\* Mutation: the box of the state before is kept.
EntireKept (boxes) == MergeAll (object.entireCur, boxes)

Entire (boxes) == MergeAll (Head (boxes), Tail (boxes))

\* placeable::set_state. The solid box starts anew if the first model is solid.
\* A model that has neither the new shape nor an old one is undefined behaviour.
SetState (name) ==
  /\ object.models # <<>>
  /\ object.state = None => name = None /\ Len (object.models) = Cardinality (Model)
  /\ LET M == object.models
         state == SetShape (Head (M), name)
         shape == [m \in Model |-> IF m = Head (M) THEN state ELSE IF Used (m) THEN SetShape (m, state) ELSE None]
         boxes == [i \in DOMAIN M |-> box[<<M[i], shape[M[i]]>>]]
         solid == {i \in DOMAIN M : shape[M[i]] \in Solid[M[i]]}
         start == IF 1 \in solid THEN boxes[1] ELSE object.solidCur
     IN /\ \A i \in DOMAIN M : shape[M[i]] # None
        /\ \E sorted \in Sorted (shape, M) :
          object' = [object EXCEPT
            !.models = sorted, !.state = state, !.shape = shape, !.solid = solid # {},
            !.solidCur = FoldLeft (LAMBDA b, i : IF i \in solid THEN Merge (b, boxes[i]) ELSE b,
                                   start, [i \in DOMAIN M |-> i]),
            !.entireCur = Entire (boxes)]
  /\ UNCHANGED shapeVars

Current == {m \in Range (object.models) : object.shape[m] # None}
CurrentBox (m) == box[<<m, object.shape[m]>>]
CurrentSolid == {m \in Current : object.shape[m] \in Solid[m]}

\* placeable::get_surface_pos at a place: the first model that is there.
GetSurfacePos (x) ==
  LET there == {i \in DOMAIN object.models :
                  /\ object.models[i] \in CurrentSolid
                  /\ CurrentBox (object.models[i]).min["x"] <= x /\ x <= CurrentBox (object.models[i]).max["x"]}
  IN IF there = {} THEN object.solidCur.max["z"]
     ELSE CurrentBox (object.models[CHOOSE i \in there : \A k \in there : i <= k]).max["z"]

\* placeable::get_ceiling_pos
GetCeilingPos (x1, x2) ==
  LET all == {object.solidCur.max["z"]} \cup {Bottom (<<m, object.shape[m]>>, x1, x2) : m \in CurrentSolid}
  IN CHOOSE v \in all : \A w \in all : v <= w

Next ==
  \/ \E s \in ShapeOf, c \in Cubes : AddPart (s, c) \/ RemovePart (s, c)
  \/ \E m \in Model : AddModel (m)
  \/ \E name \in Name \cup {None} : SetState (name)

Spec == Init /\ [][Next]_vars

-----------------------------------------------------------------------------
(* Properties. *)

\* The state is well typed.
TypeOK ==
  /\ parts \in [ShapeOf -> Seq (Cubes)] /\ box \in [ShapeOf -> AnyBox]
  /\ object \in Placeable

\* The boxes of shapes are those around their parts, whatever has been added
\* and removed; that of the object is the one around the shapes of its state,
\* and lies within the one the map has filed the object under.
BoxesFit ==
  /\ \A s \in ShapeOf : parts[s] # <<>> => box[s] = Hull (Range (parts[s]))
  /\ object.state # None =>
       /\ object.entireCur = Hull ({CurrentBox (m) : m \in Current})
       /\ Merge (object.entireMax, object.entireCur) = object.entireMax
       /\ object.solid <=> CurrentSolid # {}

\* Whoever stands somewhere on the object stands on the highest of its solid
\* models there, and whoever is below bumps against the lowest of their parts.
HeightsAgree ==
  object.state # None =>
    \A x \in -1 .. 4 :
      LET there == {m \in CurrentSolid : CurrentBox (m).min["x"] <= x /\ x <= CurrentBox (m).max["x"]}
      IN /\ there # {} => GetSurfacePos (x) = Hull ({CurrentBox (m) : m \in there}).max["z"]
         /\ \A m \in there : \A p \in Range (parts[<<m, object.shape[m]>>]) :
              p.min["x"] <= x /\ x <= p.max["x"] /\ p.min["z"] < p.max["z"]
                => GetCeilingPos (x, x) <= p.min["z"]
=============================================================================
