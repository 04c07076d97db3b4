------------------------------- MODULE Widgets -------------------------------
(***************************************************************************)
(* The widgets of a window (src/gui/layout.cc, listlayout.cc,              *)
(* scrollview.cc, button.cc, option.cc, textbox.cc). Layouts are nested;   *)
(* each selects one of its children. A key goes down the selection to the  *)
(* innermost widget; what that does not want the layouts above it may use  *)
(* to select another child.                                                *)
(*                                                                         *)
(* Each widget keeps its own idea of having the focus, told by calls of    *)
(* focus and unfocus; the keyboard is switched to text by them as well.    *)
(***************************************************************************)
EXTENDS Integers, Sequences, SequencesExt

CONSTANTS
  Widget,      \* all widgets
  Type,        \* "layout", "list_x", "list_y", "scrollview", "button",
               \* "option", "textbox" or "label"
  Root,        \* the content of the window
  Tree,        \* the children of each layout, at first
  Extra,       \* a widget that scripts append to a list, and remove
  Extended,    \* that list
  Height,      \* of each widget in pixels
  Spacing,     \* between the elements of a list (SPACING)
  View,        \* height of the visible part of a scrollview
  TypedText,   \* what a key can type: sequences of bytes
  MaxText,     \* for each text box, bound on the length of its text
  None

Layouts == DOMAIN Tree
Textboxes == DOMAIN MaxText
Buttons == {w \in Widget : Type[w] \in {"button", "option"}}

WidgetsAssumption ==
  /\ Root \in Layouts /\ Extended \in Layouts /\ Extra \in Widget
  /\ Layouts = {w \in Widget : Type[w] \in {"layout", "list_x", "list_y", "scrollview"}}
  /\ Textboxes = {w \in Widget : Type[w] = "textbox"}
  /\ Tree \in [Layouts -> Seq (Widget)] /\ MaxText \in [Textboxes -> Nat]

VARIABLES
  children,    \* the widgets in each layout (Children)
  gui,         \* what the widgets know of the focus, see below
  scroll,      \* Oy of each scrollview
  text, cursor \* Text and InsertPos of each text box

layoutVars == <<children, scroll>>
vars == <<layoutVars, gui, text, cursor>>

\* selected and focused of each layout, the text boxes that have the focus,
\* whether the keyboard is used for text, the key each button is held with.
Gui == [selected : [Layouts -> Nat], focused : SUBSET Layouts, typing : SUBSET Textboxes,
        unicode : BOOLEAN, held : [Buttons -> {"space", "return", None}]]

Selected (g, c) == children[c][g.selected[c] + 1]

Container (c) == children[c][1]

-----------------------------------------------------------------------------
(* widget::focus and unfocus *)

\* Mutation: layouts do not pass it on.
UnfocusOne (g, w) ==
  CASE Type[w] = "textbox" -> [g EXCEPT !.typing = @ \ {w}, !.unicode = FALSE]
    [] Type[w] = "button" -> [g EXCEPT !.held[w] = None]
    [] w \in Layouts -> [g EXCEPT !.focused = @ \ {w}]
    [] OTHER -> g

RECURSIVE Unfocus (_, _)

Unfocus (g, w) ==
  CASE Type[w] = "textbox" -> [g EXCEPT !.typing = @ \ {w}, !.unicode = FALSE]
    [] Type[w] = "button" -> [g EXCEPT !.held[w] = None]
    [] w \in Layouts ->
         [(IF children[w] = <<>> THEN g ELSE Unfocus (g, Selected (g, w)))
           EXCEPT !.focused = @ \ {w}]
    [] OTHER -> g

\* Whether it accepts the focus, and what has changed then. A layout offers it
\* to its children in turn, starting with the one that is selected.
RECURSIVE Focus (_, _), Offer (_, _, _)

Focus (g, w) ==
  CASE Type[w] = "textbox" -> <<TRUE, [g EXCEPT !.typing = @ \cup {w}, !.unicode = TRUE]>>
    [] w \in Buttons -> <<TRUE, g>>
    [] w \in Layouts -> Offer (g, w, Len (children[w]))
    [] OTHER -> <<FALSE, g>>

Offer (g, c, left) ==
  IF left = 0 THEN <<FALSE, [g EXCEPT !.focused = @ \ {c}]>>
  ELSE LET f == Focus (g, Selected (g, c))
       IN IF f[1] THEN <<TRUE, [f[2] EXCEPT !.focused = @ \cup {c}]>>
          ELSE Offer ([f[2] EXCEPT !.selected[c] = (@ + 1) % Len (children[c])], c, left - 1)

\* layout::select_child: the next child that accepts the focus gets it, then
\* the old one is told that it has lost it: it may be the same one, and if both
\* are text boxes the keyboard is not used for text afterwards.
RECURSIVE SelectFrom (_, _, _, _)

SelectFrom (g, c, by, old) ==
  LET n == Len (children[c])
      moved == [g EXCEPT !.selected[c] = (@ + by + n) % n]
      f == Focus (moved, Selected (moved, c))
  IN IF f[1] THEN <<TRUE, Unfocus (f[2], children[c][old + 1])>>
     ELSE IF moved.selected[c] = old THEN <<FALSE, f[2]>>
     ELSE SelectFrom (f[2], c, by, old)

SelectChild (g, c, by) ==
  IF Len (children[c]) < 2 THEN <<FALSE, g>> ELSE SelectFrom (g, c, by, g.selected[c])

\* Lists move in one direction only.
Moves (c, key) ==
  \/ Type[c] \in {"layout", "scrollview"}
  \/ Type[c] = "list_y" /\ key \in {"up", "down"}
  \/ Type[c] = "list_x" /\ key \in {"left", "right", "tab"}

Move (g, c, key) ==
  IF Moves (c, key) THEN SelectChild (g, c, IF key \in {"left", "up"} THEN -1 ELSE 1)
  ELSE <<FALSE, g>>

-----------------------------------------------------------------------------
(* The positions in a list, and how far it is scrolled. *)

\* list_layout::resize
Position (c, w) ==
  LET Top[i \in 1 .. Len (children[c])] ==
        IF i = 1 THEN Spacing ELSE Top[i - 1] + Height[children[c][i - 1]] + Spacing
  IN Top[CHOOSE i \in DOMAIN children[c] : children[c][i] = w]

\* scrollview::show: just enough to bring the widget into view.
Show (oy, c, w) ==
  LET y == Position (c, w)
  IN IF y < oy THEN y
     ELSE IF y + Height[w] > oy + View THEN y + Height[w] - View
     ELSE oy

\* scrollview::center
Center (c, w) == Position (c, w) + (Height[w] - View) \div 2

-----------------------------------------------------------------------------
(* Text is a sequence of bytes. Each byte stands for the number of bits set *)
(* at its start: 0 for a character of one byte, 2 to 6 for the first byte   *)
(* of a longer one, 1 for those that follow.                                *)

Smaller (a, b) == IF a < b THEN a ELSE b

\* Mutation: the bytes of a character are counted from the wrong end.
LeftWrong (s, pos) ==
  LET lengths == {n \in 2 .. 6 : pos > n /\ s[pos - n] = n}
  IN IF (pos > 0 /\ s[pos] = 0) \/ lengths = {} THEN Smaller (1, pos)
     ELSE CHOOSE n \in lengths : \A k \in lengths : n <= k

\* utf8::left: bytes to go back from pos to the start of a character.
LeftBytes (s, pos) ==
  LET lengths == {n \in 2 .. 6 : pos >= n /\ s[pos - n + 1] = n}
  IN IF (pos > 0 /\ s[pos] = 0) \/ lengths = {} THEN Smaller (1, pos)
     ELSE CHOOSE n \in lengths : \A k \in lengths : n <= k

\* utf8::right; the byte after the last is 0.
RightBytes (s, pos) ==
  LET first == IF pos = Len (s) THEN 0 ELSE s[pos + 1]
      count == CASE first = 0 -> 1 [] first = 1 -> 0 [] OTHER -> first
  IN Smaller (count, Len (s) - pos)

Erased (s, pos, n) == SubSeq (s, 1, pos) \o SubSeq (s, pos + n + 1, Len (s))

\* textbox::keydown: whether the key is consumed, text and cursor then.
TextKey (string, pos, key) ==
  LET left == LeftBytes (string, pos)
      right == RightBytes (string, pos)
  IN CASE key = "left" -> IF pos = 0 THEN <<FALSE, string, 0>> ELSE <<TRUE, string, pos - left>>
       [] key = "right" -> IF pos > Len (string) THEN <<FALSE, string, Len (string)>>
                           ELSE <<TRUE, string, pos + right>>
       [] key = "backspace" /\ pos > 0 -> <<TRUE, Erased (string, pos - left, left), pos - left>>
       [] key = "delete" /\ pos < Len (string) -> <<TRUE, Erased (string, pos, right), pos>>
       [] key = "end" -> <<TRUE, string, Len (string)>>
       [] key = "home" -> <<TRUE, string, 0>>
       [] OTHER -> <<FALSE, string, pos>>

-----------------------------------------------------------------------------
(* Keys. *)

\* The selection from the root to the innermost widget.
RECURSIVE Path (_)

Path (w) ==
  IF w \in Layouts /\ children[w] # <<>> THEN <<w>> \o Path (Selected (gui, w)) ELSE <<w>>

Leaf == Last (Path (Root))

\* A text box takes the key.
Edits (key) == Leaf \in Textboxes /\ TextKey (text[Leaf], cursor[Leaf], key)[1]

\* scrollview::keydown, after a key that moves has been used below it: those
\* among the layouts of ws show what their container has selected.
ShowIn (ws) ==
  scroll' = [c \in DOMAIN scroll |->
               IF Contains (ws, c) THEN Show (scroll[c], Container (c), Selected (gui', Container (c)))
               ELSE scroll[c]]

Init ==
  /\ children = Tree
  /\ gui = [selected |-> [c \in Layouts |-> 0], focused |-> {}, typing |-> {},
            unicode |-> FALSE, held |-> [b \in Buttons |-> None]]
  /\ scroll = [c \in {w \in Widget : Type[w] = "scrollview"} |-> 0]
  /\ text = [w \in Textboxes |-> <<>>] /\ cursor = [w \in Textboxes |-> 0]

\* The window gets the focus, or loses it.
FocusRoot == gui' = Focus (gui, Root)[2] /\ UNCHANGED <<children, scroll, text, cursor>>

UnfocusRoot == gui' = Unfocus (gui, Root) /\ UNCHANGED <<children, scroll, text, cursor>>

\* A button is held down, once.
PressButton (key) ==
  /\ key \in {"space", "return"} /\ Leaf \in Buttons /\ gui.held[Leaf] = None
  /\ gui' = [gui EXCEPT !.held[Leaf] = key]
  /\ UNCHANGED <<children, scroll, text, cursor>>

\* button::keyup and option::keyup: the key it is held with activates it.
ReleaseButton (key) ==
  /\ Leaf \in Buttons /\ gui.held[Leaf] = key
  /\ gui' = [gui EXCEPT !.held[Leaf] = None]
  /\ UNCHANGED <<children, scroll, text, cursor>>

Edit (key) ==
  /\ Edits (key)
  /\ LET edited == TextKey (text[Leaf], cursor[Leaf], key)
     IN text' = [text EXCEPT ![Leaf] = edited[2]] /\ cursor' = [cursor EXCEPT ![Leaf] = edited[3]]
  /\ UNCHANGED <<children, gui>>
  /\ IF key \in {"left", "right"} THEN ShowIn (Path (Root)) ELSE UNCHANGED scroll

\* layout::keydown: the innermost layout that can move does.
Arrow (key) ==
  /\ ~ Edits (key)
  /\ LET path == SelectSeq (Path (Root), LAMBDA w : w \in Layouts)
         Able (i) == Move (gui, path[i], key)[1]
     IN \E i \in DOMAIN path :
          /\ Able (i) /\ \A j \in DOMAIN path : j > i => ~ Able (j)
          /\ gui' = Move (gui, path[i], key)[2]
          /\ ShowIn (SubSeq (path, 1, i))
  /\ UNCHANGED <<children, text, cursor>>

\* textbox::input, with characters the keyboard can produce.
TypeText (bytes) ==
  /\ Leaf \in Textboxes /\ gui.unicode
  /\ Len (text[Leaf]) + Len (bytes) <= MaxText[Leaf]
  /\ text' = [text EXCEPT ![Leaf] = SubSeq (@, 1, cursor[Leaf]) \o bytes \o SubSeq (@, cursor[Leaf] + 1, Len (@))]
  /\ cursor' = [cursor EXCEPT ![Leaf] = @ + Len (bytes)]
  /\ UNCHANGED <<children, gui, scroll>>

\* list_layout::add_child; the layout does not change what it has selected.
AddChild ==
  /\ ~ Contains (children[Extended], Extra)
  /\ children' = [children EXCEPT ![Extended] = Append (@, Extra)]
  /\ UNCHANGED <<gui, scroll, text, cursor>>

\* layout::remove_child of the last one: if it is selected the layout selects
\* the first instead, which is offered the focus. (One that has not got the
\* focus would take it then; scripts must not.)
RemoveChild ==
  /\ Contains (children[Extended], Extra)
  /\ Selected (gui, Extended) = Extra => Extended \in gui.focused
  /\ children' = [children EXCEPT ![Extended] = Front (@)]
  /\ gui' = IF Selected (gui, Extended) = Extra
            THEN LET first == [gui EXCEPT !.selected[Extended] = 0, !.held[Extra] = None]
                     offered == Offer (first, Extended, Len (children[Extended]) - 1)
                 IN IF offered[1] THEN offered[2] ELSE [offered[2] EXCEPT !.selected[Extended] = 0]
            ELSE [gui EXCEPT !.held[Extra] = None]
  /\ UNCHANGED <<scroll, text, cursor>>

\* scrollview::reset and center
Reset == scroll' = [c \in DOMAIN scroll |-> 0] /\ UNCHANGED <<children, gui, text, cursor>>

CenterOn (c) ==
  /\ scroll' = [scroll EXCEPT ![c] = Center (Container (c), Selected (gui, Container (c)))]
  /\ UNCHANGED <<children, gui, text, cursor>>

KeyDown ==
  \/ \E key \in {"space", "return"} : PressButton (key) \/ ReleaseButton (key)
  \/ \E key \in {"left", "right", "backspace", "delete", "end", "home"} : Edit (key)
  \/ \E key \in {"left", "right", "up", "down", "tab"} : Arrow (key)
  \/ \E bytes \in TypedText : TypeText (bytes)

Next ==
  \/ Root \notin gui.focused /\ FocusRoot
  \/ Root \in gui.focused /\ (UnfocusRoot \/ KeyDown)
  \/ AddChild \/ RemoveChild \/ Reset \/ (\E c \in DOMAIN scroll : CenterOn (c))

Spec == Init /\ [][Next]_vars

-----------------------------------------------------------------------------
(* Properties. *)

\* All parts of the state have their types.
TypeOK ==
  /\ children \in [Layouts -> Seq (Widget)] /\ gui \in Gui
  /\ scroll \in [DOMAIN scroll -> Int] /\ text \in [Textboxes -> Seq (0 .. 6)]
  /\ cursor \in [Textboxes -> Nat] /\ \A w \in Textboxes : cursor[w] <= Len (text[w])

\* Nobody thinks it has the focus but the layouts, the button and the text box
\* on the path of the selection, which ends at a widget that can have it, and
\* keys are text for nobody but a text box that shows its cursor.
KeysFollowSelection ==
  LET path == Path (Root)
  IN IF Root \in gui.focused
     THEN /\ gui.focused \subseteq Range (path)
          /\ Last (path) \in Buttons \cup Textboxes
          /\ gui.typing \subseteq {Last (path)}
          /\ gui.unicode => gui.typing # {}
          /\ \A b \in Buttons : Type[b] = "button" /\ gui.held[b] # None => b = Last (path)
     ELSE gui.focused = {} /\ gui.typing = {} /\ ~ gui.unicode

\* What is selected looks as if it had the focus: all layouts on the path think
\* so, and a text box at its end.
SelectedHasFocus ==
  Root \in gui.focused =>
    LET path == Path (Root)
    IN \A i \in DOMAIN path :
         /\ path[i] \in Layouts => path[i] \in gui.focused
         /\ path[i] \in Textboxes => path[i] \in gui.typing

\* A text box that shows its cursor can be typed into.
CursorMeansText == gui.typing # {} => gui.unicode

\* What has the focus loses it by a key only if that selects the same child
\* again, as a layout with one that accepts the focus does; and the keyboard
\* fails to type only after going from one text box straight to another.
FocusIsKept ==
  [][ gui' # gui =>
      /\ SelectedHasFocus /\ ~ SelectedHasFocus'
           => /\ Path (Root)' = Path (Root)
              /\ \E c \in Layouts :
                   /\ Contains (Path (Root), c) /\ Len (children[c]) > 1
                   /\ \A i \in DOMAIN children[c] : Focus (gui, children[c][i])[1] => children[c][i] = Selected (gui, c)
      /\ CursorMeansText /\ ~ CursorMeansText' => Leaf \in Textboxes /\ Leaf' \in Textboxes \ {Leaf} ]_vars

\* What a scrollview has selected is in view, if it fits at all.
InView (c) ==
  LET list == Container (c)
      w == Selected (gui, list)
  IN Height[w] <= View => scroll[c] <= Position (list, w) /\ Position (list, w) + Height[w] <= scroll[c] + View

\* "Make sure the given widget is visible in the view" (scrollview.h): whenever
\* a key selects another child of what is scrolled.
SelectionShown ==
  [][ gui' # gui /\ children' = children /\ Root \in gui.focused =>
      \A c \in DOMAIN scroll :
        gui'.selected[Container (c)] # gui.selected[Container (c)] => InView (c)' ]_vars

\* "It will ensure that the focused child of the contained element will be
\* visible" (scrollview.h): also when it gets the focus, which it does not.
FocusIsShown ==
  [][ gui' # gui /\ Root \notin gui.focused /\ Root \in gui'.focused =>
      \A c \in DOMAIN scroll : InView (c)' ]_vars

\* The cursor never comes to stand within a character, and the text remains a
\* sequence of whole characters.
Boundaries (string) == {0} \cup {i \in 1 .. Len (string) : i = Len (string) \/ string[i + 1] # 1}

CursorBetweenCharacters ==
  \A w \in Textboxes :
    LET string == text[w]
    IN /\ cursor[w] \in Boundaries (string)
       /\ \A i \in DOMAIN string : string[i] > 1 =>
            \A k \in 1 .. (string[i] - 1) : i + k <= Len (string) /\ string[i + k] = 1
=============================================================================
