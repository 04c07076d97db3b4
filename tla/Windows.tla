------------------------------- MODULE Windows -------------------------------
(***************************************************************************)
(* The stack of windows (src/gui/window_manager.cc, window.cc, and the     *)
(* listener of a layout, layout.cc) and the focus of the input. Windows    *)
(* slide onto the screen and off it, a step in each frame; a window that   *)
(* is being closed stays in the list until it is out of sight. Scripts     *)
(* open and close windows between frames and in handlers of input.         *)
(***************************************************************************)
EXTENDS InputManager, Integers

CONSTANTS
  Content,    \* what windows display
  Type,       \* the type of window each is displayed in
  Layout,     \* contents that are layouts, and can have the focus
  Far,        \* how far each must move in each direction to be off the screen
  FadeRate,   \* pixels per frame (FADERATE)
  Fades,      \* kinds of fading that are used with each
  Owner,      \* the layout each listener is created for, None if by a script
  Careless    \* what scripts may do that they should not:
              \* "close" a dialog and another window at a time, "delete" a listener in a handler

Rank == [WORLD_VIEW |-> 0, WORLD_RELATIVE |-> 1, INTERFACE |-> 2, DIALOG |-> 3]

\* The unit vector of each direction.
Direction == [LEFT |-> <<-1, 0>>, RIGHT |-> <<1, 0>>, TOP |-> <<0, -1>>, BOTTOM |-> <<0, 1>>]

WindowsAssumption ==
  /\ Type \in [Content -> DOMAIN Rank]
  /\ Far \in [Content -> [DOMAIN Direction -> Nat]]
  /\ FadeRate \in Nat \ {0}
  /\ Fades \in [Content -> SUBSET ({"NONE", "PLAIN", "FADE"} \cup DOMAIN Direction)]
  /\ Owner \in [Handle -> Layout \cup {None}] /\ Layout \subseteq Content
  /\ None \notin Handle /\ None \notin Content

VARIABLES
  windows,    \* Windows, topmost first
  relative,   \* WorldRelativeWindows
  listener,   \* the listener of each layout (Listener)
  frame       \* windows still to be visited in this frame, 0 between frames

vars == <<inputVars, windows, relative, listener, frame>>

Window == [content : Content, showing : BOOLEAN, fade : {"NONE", "PLAIN", "FADE"} \cup DOMAIN Direction,
           offset : Int \X Int]

Init ==
  /\ InputInit
  /\ windows = <<>> /\ relative = <<>>
  /\ listener = [c \in Content |-> None]
  /\ frame = 0

-----------------------------------------------------------------------------
(* Focus. *)

CanFocus (c) == Type[c] = "DIALOG" /\ c \in Layout

Script == {l \in Handle : Owner[l] = None}

\* A new listener: any that has been deleted, and that nobody has a copy of.
Fresh (c, l) ==
  /\ l \in deleted /\ Owner[l] = c
  /\ ~ Contains (delivery.rest, l)

\* layout::set_listener removes and deletes the one the layout had.
ReceiveFocus (c) ==
  IF CanFocus (c)
  THEN \E l \in Handle :
         /\ Fresh (c, l) /\ \A k \in Handle : Fresh (c, k) => l <= k
         /\ listeners' = AddInFront (Without (listener[c]), l)
         /\ listener' = [listener EXCEPT ![c] = l]
         /\ deleted' = (deleted \ {l}) \cup ({listener[c]} \ {None})
  ELSE UNCHANGED <<listeners, listener, deleted>>

\* Mutation: a window keeps its listener until it is out of sight.
KeepFocus (c) == UNCHANGED listeners

RemoveFocus (c) ==
  listeners' = IF CanFocus (c) THEN Without (listener[c]) ELSE listeners

-----------------------------------------------------------------------------
(* window::fade_in, fade_out and fade *)

FadeIn (w, f) == [w EXCEPT !.fade = f, !.showing = TRUE]

\* Mutation: the default is not replaced.
FadeOutNone (w, f) == [w EXCEPT !.fade = f, !.showing = FALSE]

\* NONE would not remove the window.
FadeOut (w, f) == [w EXCEPT !.fade = IF f = "NONE" THEN "PLAIN" ELSE f, !.showing = FALSE]

Times (n, v) == <<n * v[1], n * v[2]>>
Plus (v, u) == <<v[1] + u[1], v[2] + u[2]>>
Along (v, d) == v[1] * d[1] + v[2] * d[2]

\* The offset with its component along d set to nothing.
Cleared (v, d) == <<IF d[1] = 0 THEN v[1] ELSE 0, IF d[2] = 0 THEN v[2] ELSE 0>>

\* One step of a window that slides in. It starts off the screen, and has
\* arrived when it would go beyond its place.
SlideIn (w) ==
  LET d == Direction[w.fade]
      start == IF w.offset = <<0, 0>> THEN Times (Far[w.content][w.fade], d) ELSE w.offset
      next == Plus (start, Times (- FadeRate, d))
  IN IF Along (next, d) < 0 THEN [w EXCEPT !.offset = Cleared (next, d), !.fade = "NONE"]
     ELSE [w EXCEPT !.offset = next]

SlideOut (w) ==
  [w EXCEPT !.offset = Plus (@, Times (FadeRate, Direction[w.fade]))]

Fade (w) ==
  CASE w.fade \in DOMAIN Direction -> IF w.showing THEN SlideIn (w) ELSE SlideOut (w)
    [] w.fade = "PLAIN" -> [w EXCEPT !.fade = "NONE"]
    [] OTHER -> w

\* fade returns true: the window can be removed.
FadedOut (w) ==
  /\ ~ w.showing
  /\ \/ w.fade = "PLAIN"
     \/ /\ w.fade \in DOMAIN Direction
        /\ Along (SlideOut (w).offset, Direction[w.fade]) > Far[w.content][w.fade]

NewWindow (c, f) == FadeIn ([content |-> c, showing |-> TRUE, fade |-> "NONE", offset |-> <<0, 0>>], f)

-----------------------------------------------------------------------------
(* Scripts *)

\* Between frames, and in a handler that belongs to a script.
Acting == frame = 0 /\ (delivery.kind # "none" => Called \in Script)

IsOpen (list, c) == \E i \in DOMAIN list : list[i].content = c

\* In front of all windows of lower type, but behind those of the same, other
\* than window.h and window_manager.h say (see OpensOnTop).
Place (c) ==
  LET lower == {i \in DOMAIN windows : Rank[Type[c]] > Rank[Type[windows[i].content]]}
  IN IF lower = {} THEN Len (windows) + 1 ELSE CHOOSE i \in lower : \A j \in lower : i <= j

\* window_manager::add. The window next below belongs to a lower type, and
\* has no focus to lose.
Add (c, f) ==
  /\ Acting /\ Type[c] # "WORLD_RELATIVE" /\ ~ IsOpen (windows, c)
  /\ windows' = InsertAt (windows, Place (c), NewWindow (c, f))
  /\ ReceiveFocus (c)
  /\ UNCHANGED <<delivery, relative, frame>>

AddRelative (c, f) ==
  /\ Acting /\ Type[c] = "WORLD_RELATIVE" /\ ~ IsOpen (relative, c)
  /\ relative' = <<NewWindow (c, f)>> \o relative
  /\ UNCHANGED <<inputVars, windows, listener, frame>>

Closing == {windows[i].content : i \in {k \in DOMAIN windows : ~ windows[k].showing}}

\* window_manager::remove finds the first window that displays c, even if it
\* is being closed already.
Close (c, f) ==
  /\ Acting
  /\ \A d \in Closing \ {c} : CanFocus (c) \/ CanFocus (d) => "close" \in Careless
  /\ \E i \in DOMAIN windows :
       /\ windows[i].content = c /\ \A j \in 1 .. (i - 1) : windows[j].content # c
       /\ windows' = [windows EXCEPT ![i] = FadeOut (@, f)]
  /\ RemoveFocus (c)
  /\ UNCHANGED <<deleted, delivery, relative, listener, frame>>

CloseRelative (c, f) ==
  /\ Acting
  /\ \E i \in DOMAIN relative :
       relative[i].content = c /\ relative' = [relative EXCEPT ![i] = FadeOut (@, f)]
  /\ UNCHANGED <<inputVars, windows, listener, frame>>

\* Scripts listen for themselves.
AddListener (l) ==
  /\ Acting /\ l \in Script \cap deleted /\ ~ Contains (delivery.rest, l)
  /\ deleted' = deleted \ {l}
  /\ listeners' = AddLast (l)
  /\ UNCHANGED <<delivery, windows, relative, listener, frame>>

FocusListener (l) ==
  /\ Acting /\ l \in Script /\ Contains (listeners, l)
  /\ listeners' = GiveFocus (l)
  /\ UNCHANGED <<deleted, delivery, windows, relative, listener, frame>>

DeleteListener (l) ==
  /\ Acting /\ l \in Script \ deleted
  /\ delivery.kind = "none" \/ "delete" \in Careless
  /\ listeners' = Without (l)
  /\ deleted' = deleted \cup {l}
  /\ UNCHANGED <<delivery, windows, relative, listener, frame>>

Scripts ==
  \/ \E c \in Content : \E f \in Fades[c] :
       Add (c, f) \/ AddRelative (c, f) \/ Close (c, f) \/ CloseRelative (c, f)
  \/ \E l \in Script : AddListener (l) \/ FocusListener (l) \/ DeleteListener (l)

-----------------------------------------------------------------------------
(* window_manager::update: windows are drawn from the bottom to the top. *)

StartFrame ==
  /\ frame = 0 /\ delivery.kind = "none" /\ windows # <<>>
  /\ frame' = Len (windows)
  /\ UNCHANGED <<inputVars, windows, relative, listener>>

\* A window that is out of sight is deleted, and the next one above it gets
\* the focus.
RemoveFaded ==
  /\ frame > 0 /\ FadedOut (windows[frame])
  /\ windows' = RemoveAt (windows, frame)
  /\ frame' = frame - 1
  /\ IF frame > 1 THEN ReceiveFocus (windows[frame - 1].content)
     ELSE UNCHANGED <<listeners, listener, deleted>>
  /\ UNCHANGED <<delivery, relative>>

\* The windows that stay fade, and keep their order.
FadeRelative ==
  LET kept == {i \in DOMAIN relative : ~ FadedOut (relative[i])}
      orders == {f \in UNION {[1 .. n -> kept] : n \in 0 .. Len (relative)} :
                   Range (f) = kept /\ \A i, j \in DOMAIN f : i < j => f[i] < f[j]}
  IN {[i \in DOMAIN f |-> Fade (relative[f[i]])] : f \in orders}

\* World-relative windows are drawn with the view of the world.
DrawWindow ==
  /\ frame > 0 /\ ~ FadedOut (windows[frame])
  /\ windows' = [windows EXCEPT ![frame] = Fade (@)]
  /\ relative' \in IF Type[windows[frame].content] = "WORLD_VIEW" THEN FadeRelative ELSE {relative}
  /\ frame' = frame - 1
  /\ UNCHANGED <<inputVars, listener>>

Update == StartFrame \/ RemoveFaded \/ DrawWindow

\* Input comes between frames.
Input ==
  \/ \E mapped \in BOOLEAN : frame = 0 /\ Raise (mapped) /\ UNCHANGED <<windows, relative, listener, frame>>
  \/ /\ PassOver \/ Call \/ RaiseControl \/ Delivered \/ (\E b \in BOOLEAN : CallReturns (b))
     /\ UNCHANGED <<windows, relative, listener, frame>>

Next == Scripts \/ Update \/ Input

Spec == Init /\ [][Next]_vars

\* The main loop goes on with input and frames; handlers return.
Goes == Update \/ (delivery.kind # "none" /\ Input)

FairSpec == Spec /\ WF_vars (Goes) /\ SF_vars (StartFrame)

-----------------------------------------------------------------------------
(* Properties. *)

Open == {windows[i].content : i \in {k \in DOMAIN windows : windows[k].showing}}

\* All parts of the state have their types.
TypeOK ==
  /\ listeners \in Seq (Handle) /\ deleted \subseteq Handle /\ delivery \in Delivery
  /\ windows \in Seq (Window) /\ relative \in Seq (Window)
  /\ listener \in [Content -> Handle \cup {None}]
  /\ frame \in 0 .. Len (windows)

\* "A DIALOG window will never be obscured by a INTERFACE or WORLD_RELATIVE
\* window, etc." (window.h), in whichever order they are opened and closed.
OrderedByType ==
  \A i, j \in DOMAIN windows :
    i < j => Rank[Type[windows[i].content]] >= Rank[Type[windows[j].content]]

\* Every dialog on display hears the input, whether others are above it or not,
\* and no other: closing a window takes the focus away for good. Who hears it
\* first is not said: that is who got the focus last (see TopmostHasFocus).
DialogsListen ==
  /\ \A c \in Layout :
       CanFocus (c) => (c \in Open <=> listener[c] # None /\ Contains (listeners, listener[c]))
  /\ \A l \in Handle \ Script : Contains (listeners, l) => \E c \in Layout : listener[c] = l

\* "The initial z-order of the window (above any existing windows of the same
\* type)" (window.h), "at the topmost position of the window stack for the window
\* type" (window_manager.h): no window of its type is in front of a new one.
OpensOnTop ==
  [][\A i \in DOMAIN windows', j \in DOMAIN windows' :
       ~ IsOpen (windows, windows'[i].content) /\ j < i => Type[windows'[j].content] # Type[windows'[i].content]]_vars

\* "The topmost of those [dialogs] has the input focus" (window.h): of the
\* layouts that listen, the one of the topmost dialog on display is the first.
TopmostHasFocus ==
  LET shown == {i \in DOMAIN windows : windows[i].showing /\ CanFocus (windows[i].content)}
  IN \A i \in shown : (\A j \in shown : i <= j) =>
       \E k \in DOMAIN listeners :
         listeners[k] = listener[windows[i].content] /\ \A j \in 1 .. k - 1 : listeners[j] \in Script

\* The input never goes to a layout that is not on display.
FocusBelongsToDialog ==
  \A c \in Layout : listener[c] # None /\ Contains (listeners, listener[c]) => c \in Open

Settled (c) == \A i \in DOMAIN windows : windows[i].content = c => windows[i].showing /\ windows[i].fade = "NONE"

\* A window that slides in arrives, and one that is closed is removed, as long
\* as nobody opens or closes it again.
WindowsSettle == []<>(\A c \in Content : Settled (c)) \/ []<><<Scripts>>_vars
=============================================================================
