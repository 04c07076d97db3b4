---------------------------- MODULE MCStructures -----------------------------
(***************************************************************************)
(* An instance of the structures the engine computes with: maps and what   *)
(* is on them, the tree of chunks, boxes, the search for a path, the order *)
(* of drawing, shadows, the layout of widgets, and files. Each is run by   *)
(* itself, on variables of its own; Scenes says which are.                 *)
(***************************************************************************)
EXTENDS Integers, Sequences, SequencesExt

CONSTANTS
  Scenes,      \* the components to be run
  None

-----------------------------------------------------------------------------
(* Areas: two objects that are placed with and without a name.               *)

HashOrder == <<"door", "knight">>
Name == {"gate", "jim"}
Position == {1, 2}
Action == {"enter"}
ZoneName == {"inn"}
MaxEntities == 3
MaxInfos == 2

-----------------------------------------------------------------------------
(* Chunks: objects small and large on both sides of the planes that divide   *)
(* the map, and boxes to search for that begin and end at them.              *)

Object == {"crate", "wall"}
Point (x, y, z) == [d \in {"x", "y", "z"} |-> IF d = "x" THEN x ELSE IF d = "y" THEN y ELSE z]
Where == {Point (0, 0, 0), Point (2, 0, 0), Point (3, 0, 1), Point (-3, 2, 0), Point (5, 3, 0)}
Size == [o \in Object |-> IF o = "crate" THEN Point (1, 1, 1) ELSE Point (2, 0, 3)]
MaxObjects == 1
MinSize == 2
MaxPlaced == 3
Probes == {[min |-> Point (x, y, 0), max |-> Point (x + 1, y + w, 1)] : x \in {-4, 0, 2, 4}, y \in {0, 2}, w \in {1, 2}}

-----------------------------------------------------------------------------
(* Placeables: a frame, and a door that is open or closed.                   *)

Model == {"frame", "door"}
NameOrder == <<"closed", "open">>
Shapes == [m \in Model |-> IF m = "door" THEN {"closed", "open"} ELSE {"closed"}]
Solid == [m \in Model |-> {"closed"}]
PartBox (x1, z1, x2, z2) == [min |-> [d \in {"x", "z"} |-> IF d = "x" THEN x1 ELSE z1],
                             max |-> [d \in {"x", "z"} |-> IF d = "x" THEN x2 ELSE z2]]
Cubes == {PartBox (0, 0, 2, 1), PartBox (1, 1, 3, 3), PartBox (3, 0, 4, 1)}
MaxParts == 2

-----------------------------------------------------------------------------
(* Search: all maps of two levels that are too far apart, and maps with a    *)
(* row that may be a step or a hole.                                         *)

Tile == (0 .. 3) \X (0 .. 2)
Maps == [Tile -> {0, 30}]
          \cup {[t \in Tile |-> IF t[1] = 1 THEN f[t[2]] ELSE 0] : f \in [0 .. 2 -> {0, 8, None}]}
Impassable == {}
Bonus == [t \in Tile |-> IF t = <<1, 1>> THEN 10 ELSE 0]
StartTile == <<0, 0>>
Goal1 == <<65, 25, 0>>
Goal2 == <<75, 35, 10>>
Height == 40
MaxRev == 14

-----------------------------------------------------------------------------
(* Rendering: three of a few floor tiles and walls.                          *)

ViewBox (x, y, z, l, w, h, opaque) ==
  [x |-> x, y |-> y, z |-> z, length |-> l, width |-> w, height |-> h, flat |-> w > h, opaque |-> opaque]
Boxes ==
  {ViewBox (x, y, 0, 2, 2, 1, TRUE) : x \in 0 .. 1, y \in 0 .. 1}
    \cup {ViewBox (x, y, 1, 1, 1, 2, TRUE) : x \in 0 .. 1, y \in 0 .. 1}
    \cup {ViewBox (x, 1, 0, 1, 1, 2, o) : x \in 0 .. 1, o \in BOOLEAN}
    \cup {ViewBox (0, 2, z, 2, 1, 3, TRUE) : z \in 0 .. 1}
InView == 3

-----------------------------------------------------------------------------
(* Shadows: on two tiles, or on a step and a tile.                           *)

Surface (x, y, w, h) == [x |-> x, y |-> y, w |-> w, h |-> h]
Surfaces == {Surface (x, y, w, h) : x \in 0 .. 2, y \in 0 .. 2, w \in 1 .. 3, h \in {1, 3}}
Grounds ==
  {<< <<a>>, <<b>> >> : a \in Surfaces, b \in Surfaces}
    \cup {<< <<Surface (2, 1, 2, 1), Surface (3, 2, 1, 3)>>, <<a>> >> : a \in Surfaces}
ImageLength == 3
ImageWidth == 2
Places == {<<1, 1>>, <<2, 1>>}

-----------------------------------------------------------------------------
(* A scrollview of a list with a label, a button, a row with a button and a  *)
(* text box, a row in which only one of two children accepts the focus, a    *)
(* list with another text box, and an option.                                *)

Widget == {"S", "L", "H", "K", "V", "label", "m", "b1", "b2", "t", "u", "o", "x"}
WidgetType == [w \in Widget |->
  CASE w = "S" -> "scrollview" [] w \in {"L", "V"} -> "list_y" [] w \in {"H", "K"} -> "list_x"
    [] w \in {"label", "m"} -> "label" [] w \in {"t", "u"} -> "textbox" [] w = "o" -> "option" [] OTHER -> "button"]
Root == "S"
Extra == "x"
Extended == "L"
Tree == [c \in {"S", "L", "H", "K", "V"} |->
  CASE c = "S" -> <<"L">> [] c = "L" -> <<"label", "b1", "H", "K", "o">> [] c = "H" -> <<"b2", "t">>
    [] c = "K" -> <<"m", "V">> [] c = "V" -> <<"u">>]
WidgetHeight == [w \in Widget |-> IF w = "H" THEN 8 ELSE 5]
Spacing == 2
View == 16
TypedText == {<<0>>, <<2, 1>>, <<3, 1, 1>>}
MaxText == [w \in {"t", "u"} |-> IF w = "t" THEN 4 ELSE 0]

-----------------------------------------------------------------------------
(* Files: flats of up to two fields whose names repeat, with a negative      *)
(* number, an empty text and a list, and a file of a machine with the other  *)
(* byte order.                                                               *)

F == INSTANCE Flat
FlatFiles == {"one"}
Fields == {<<"a", "s_int8", 255>>, <<"a", "string", 0>>}
Lists == {<<"", << <<"a", "s_int16", 65280>> >> >>}
Optional == {"b"}
Foreign ==
  {[F!NewFlat EXCEPT !.order = "B",
     !.buffer = <<F!Field ("a", "u_int16", 513, F!Native, <<>>),
                  F!Field ("a", "list", 0, "B", <<F!Field ("", "s_int16", 65280, F!Native, <<>>)>>),
                  F!Field ("a", "bool", 1, F!Native, <<>>)>>]}
MaxFields == 2
MaxStack == 2
MaxTorn == 1

VARIABLES
  area,
  tree, placed,
  parts, box, object,
  surface, nodes, open, cache, result, path, rev,
  renderer, objects, render_queue, it, size, drawn, forced,
  Tiles, Pos, Remaining, TilesWithShadow, Shadow,
  children, gui, scroll, text, cursor,
  record, Writer, phase, Stack, flats, found, broken, written, asked, got,
  scene        \* the component that is run

A == INSTANCE Areas WITH Zone <- ZoneName
C == INSTANCE Chunks
P == INSTANCE Placeables
S == INSTANCE PathSearch WITH Hole <- None, Start <- StartTile
R == INSTANCE Rendering WITH queue <- render_queue
D == INSTANCE Shadows WITH Length <- ImageLength, Width <- ImageWidth
G == INSTANCE Widgets WITH Type <- WidgetType, Height <- WidgetHeight
X == INSTANCE DiskFiles WITH Files <- FlatFiles, disk <- flats, torn <-
       broken, result <- found

areasVars == <<area>>
chunksVars == <<tree, placed>>
placeablesVars == <<parts, box, object>>
pathSearchVars == <<surface, nodes, open, cache, result, path, rev>>
renderingVars == <<renderer, objects, render_queue, it, size, drawn, forced>>
shadowsVars == <<Tiles, Pos, Remaining, TilesWithShadow, Shadow>>
widgetsVars == <<children, gui, scroll, text, cursor>>
diskFilesVars == <<record, Writer, phase, Stack, flats, found, broken,
  written, asked, got>>
vars == <<scene, areasVars, chunksVars, placeablesVars, pathSearchVars,
  renderingVars, shadowsVars, widgetsVars, diskFilesVars>>

ASSUME A!AreasAssumption
ASSUME C!ChunksAssumption
ASSUME P!PlaceablesAssumption
ASSUME S!PathSearchAssumption
ASSUME R!RenderingAssumption
ASSUME D!ShadowsAssumption
ASSUME G!WidgetsAssumption

-----------------------------------------------------------------------------
\* The variables of a component that is not run have no value.
NoAreas == area = None
NoChunks == tree = None /\ placed = None
NoPlaceables == parts = None /\ box = None /\ object = None
NoPathSearch == surface = None /\ nodes = None /\ open = None /\ cache = None
  /\ result = None /\ path = None /\ rev = None
NoRendering == renderer = None /\ objects = None /\ render_queue = None
  /\ it = None /\ size = None /\ drawn = None /\ forced = None
NoShadows == Tiles = None /\ Pos = None /\ Remaining = None
  /\ TilesWithShadow = None /\ Shadow = None
NoWidgets == children = None /\ gui = None /\ scroll = None /\ text = None
  /\ cursor = None
NoDiskFiles == record = None /\ Writer = None /\ phase = None /\ Stack = None
  /\ flats = None /\ found = None /\ broken = None /\ written = None
  /\ asked = None /\ got = None

Init ==
  /\ scene \in Scenes
  /\ IF scene = "areas" THEN A!Init ELSE NoAreas
  /\ IF scene = "chunks" THEN C!Init ELSE NoChunks
  /\ IF scene = "placeables" THEN P!Init ELSE NoPlaceables
  /\ IF scene = "search" THEN S!Init ELSE NoPathSearch
  /\ IF scene = "rendering" THEN R!Init ELSE NoRendering
  /\ IF scene = "shadows" THEN D!Init ELSE NoShadows
  /\ IF scene = "widgets" THEN G!Init ELSE NoWidgets
  /\ IF scene = "files" THEN X!Init ELSE NoDiskFiles

AreasStep == scene = "areas" /\ A!Next
  /\ UNCHANGED <<scene, chunksVars, placeablesVars, pathSearchVars,
       renderingVars, shadowsVars, widgetsVars, diskFilesVars>>
ChunksStep == scene = "chunks" /\ C!Next
  /\ UNCHANGED <<scene, areasVars, placeablesVars, pathSearchVars,
       renderingVars, shadowsVars, widgetsVars, diskFilesVars>>
PlaceablesStep == scene = "placeables" /\ P!Next
  /\ UNCHANGED <<scene, areasVars, chunksVars, pathSearchVars, renderingVars,
       shadowsVars, widgetsVars, diskFilesVars>>
PathSearchStep == scene = "search" /\ S!Next
  /\ UNCHANGED <<scene, areasVars, chunksVars, placeablesVars, renderingVars,
       shadowsVars, widgetsVars, diskFilesVars>>
RenderingStep == scene = "rendering" /\ R!Next
  /\ UNCHANGED <<scene, areasVars, chunksVars, placeablesVars, pathSearchVars,
       shadowsVars, widgetsVars, diskFilesVars>>
ShadowsStep == scene = "shadows" /\ D!Next
  /\ UNCHANGED <<scene, areasVars, chunksVars, placeablesVars, pathSearchVars,
       renderingVars, widgetsVars, diskFilesVars>>
WidgetsStep == scene = "widgets" /\ G!Next
  /\ UNCHANGED <<scene, areasVars, chunksVars, placeablesVars, pathSearchVars,
       renderingVars, shadowsVars, diskFilesVars>>
DiskFilesStep == scene = "files" /\ X!Next
  /\ UNCHANGED <<scene, areasVars, chunksVars, placeablesVars, pathSearchVars,
       renderingVars, shadowsVars, widgetsVars>>

Next == AreasStep \/ ChunksStep \/ PlaceablesStep \/ PathSearchStep
  \/ RenderingStep \/ ShadowsStep \/ WidgetsStep \/ DiskFilesStep

Spec == Init /\ [][Next]_vars

-----------------------------------------------------------------------------
(* Properties. *)

\* However a map was built, changed and saved, loading gives the entities
\* with their objects, places and names that were saved, and each object is
\* owned once: it is deleted with its entity and with no other.
LoadShowsSaved ==
  scene = "areas" =>
    /\ A!TypeOK
    /\ A!LoadShowsSaved
    /\ A!OwnedOnce

\* However objects are placed and removed, and the map is divided and parts of
\* it dropped, the tree holds just what is placed, in boxes that enclose it,
\* and searching the tree finds what a look at all objects would find.
TreeAgrees ==
  scene = "chunks" =>
    /\ C!TreeHolds
    /\ C!SearchAgrees

\* The boxes kept for shapes, for all shapes of a model and for an object
\* agree with the parts they are of, whatever is added and whichever state is
\* set, and so do the heights and the order by which models are drawn.
BoxesFit ==
  scene = "placeables" =>
    /\ P!TypeOK
    /\ P!BoxesFit
    /\ P!HeightsAgree

\* A path that is found can be walked tile by tile from the start to the goal,
\* and if the search fails then there is none, although it never looks back
\* and prunes the tiles beside a straight line.
SearchFindsWays ==
  scene = "search" =>
    /\ S!PathIsWalkable
    /\ S!NoWayLeft

\* Nothing that could be seen is left out: what is not painted is hidden by
\* what is, and objects are painted from below, but to end a deadlock.
HiddenIsHidden ==
  scene = "rendering" =>
    /\ R!HiddenIsHidden
    /\ R!PaintedFromBelow

\* The parts of a shadow that were cast make up the whole, but for what lies
\* on nothing, none twice, and when the character moves none is left behind.
ShadowIsWhole ==
  scene = "shadows" =>
    /\ D!ShadowIsWhole
    /\ D!NoShadowLeftBehind

\* The focus runs from the window down to one widget: keys go there, nobody
\* else has it, and the keyboard types text for a text box only. The widget
\* loses it but by being selected once more, the keyboard stops typing but
\* between two text boxes, and what a key selects is in view.
FocusFollowsSelection ==
  /\ [](scene = "widgets" => G!KeysFollowSelection)
  /\ G!FocusIsKept
  /\ G!SelectionShown

\* The cursor of a text box never is inside the bytes of a character,
\* whatever is typed and removed in the middle.
CursorBetweenCharacters ==
  scene = "widgets" =>
    /\ G!TypeOK
    /\ G!CursorBetweenCharacters

\* What is read from a file is what was put into it, field by field and in
\* order though names repeat, in both formats and from machines of the other
\* byte order; a file that broke off is never taken for a good one.
ReadAsWritten ==
  scene = "files" =>
    /\ X!ReadAsWritten
    /\ X!TakenInOrder
    /\ X!TornIsRefused

-----------------------------------------------------------------------------
(* What texts of the repository say and the code does not do: violated by the *)
(* runs the README names.                                                     *)

\* "true on successful loading, false otherwise" (diskio.h).
MissingIsRefused == scene = "files" => X!MissingIsRefused

\* "Notification that the object will no longer receive keyboard events"
\* (textbox.h).
SelectedHasFocus == scene = "widgets" => G!SelectedHasFocus

\* "Called when object is offered the keyboard focus" (textbox.h).
CursorMeansText == scene = "widgets" => G!CursorMeansText

\* "It will ensure that the focused child of the contained element will be
\* visible" (scrollview.h).
FocusIsShown == G!FocusIsShown
=============================================================================
