---------------------------- MODULE InputDevices ----------------------------
(***************************************************************************)
(* The back end of the input (src/input/sdl2/manager_sdl.cc; that for      *)
(* SDL 1.2 differs in the text only) and the mapping of keys, buttons and  *)
(* axes to the actions of the player (control_event.cc, manager.cc).       *)
(*                                                                         *)
(* What the player does is queued by SDL and polled once per frame. Keys   *)
(* and buttons are passed on; an axis of a joystick is turned into two     *)
(* buttons, one for each direction, whose state is remembered in a table.  *)
(* Whoever listens keeps the actions that have been pushed and not         *)
(* released.                                                               *)
(***************************************************************************)
EXTENDS Integers, Sequences, Functions, FiniteSetsExt

CONSTANTS
  Scancode,    \* the keys of the keyboard
  KeyTrans,    \* the name of each, or "unknown" (sdl_key_trans)
  Button,      \* the buttons of mouse and joystick
  Axis,        \* the axes of a joystick
  Fore, Back,  \* the directions of each axis, as buttons
  CapsLock,    \* one of them
  Actions,     \* the actions to be mapped, in the order of their numbers
  Default,     \* the key for each action that is used by default
  Configs,     \* the settings of the player: the names given for each action
  MaxQueue,    \* bound on the events between two frames
  Flips,       \* whether an axis may go from one end to the other at once
  None

\* Fore stands for values below the middle.
Direction == {Fore[a] : a \in Axis} \cup {Back[a] : a \in Axis}
\* What an action can be mapped to.
Key == Range (KeyTrans) \ {"unknown"}
Control == Key \cup Button \cup Direction

\* Keys, buttons and directions have names of their own.
InputDevicesAssumption ==
  /\ KeyTrans \in [Scancode -> Key \cup {"unknown"}] /\ CapsLock \in Scancode
  /\ Scancode \cap Button = {} /\ "unknown" \notin Control
  /\ Key \cap Button = {} /\ Direction \cap (Key \cup Button) = {}
  /\ \A a, b \in Axis : Fore[a] # Back[b] /\ (a # b => Fore[a] # Fore[b] /\ Back[a] # Back[b])
  /\ Actions \in Seq (STRING) /\ None \notin Range (Actions)
  /\ \A i, j \in DOMAIN Actions : Actions[i] = Actions[j] => i = j
  /\ Default \in [Range (Actions) -> Key]
  /\ Configs \subseteq [Range (Actions) -> Seq (Control \cup {"unknown"})]
  /\ Flips \in BOOLEAN

VARIABLES
  config,      \* the settings
  mapping,     \* Keyboard_map, Mouse_map and Joystick_map in one
  held,        \* the keys and buttons the player holds
  axis,        \* where each axis is: -2 and 2 are beyond the threshold
  queue,       \* events SDL has queued
  table,       \* the directions joystick_state_table has as pushed
  heard        \* actions the listeners know as pushed

vars == <<config, mapping, held, axis, queue, table, heard>>
userVars == <<held, axis>>
mappingVars == <<config, mapping>>

\* keyboard_event, mouse_event and joystick_event; of an axis, where it is.
DeviceEvent ==
  [control : Scancode \cup Button, pushed : BOOLEAN, modified : BOOLEAN] \cup [axis : Axis, value : -2 .. 2]

-----------------------------------------------------------------------------
(* control_event::map_controls: actions in order, names in order, a later   *)
(* one takes the control of an earlier one.                                 *)

\* Mutation: an unknown name is skipped.
NamesSkipping (a, c) == SelectSeq (c[a], LAMBDA name : name # "unknown")

\* The default for a setting that is empty, and for each unknown name.
Names (a, c) ==
  IF c[a] = <<>> THEN <<Default[a]>>
  ELSE [i \in DOMAIN c[a] |-> IF c[a][i] = "unknown" THEN Default[a] ELSE c[a][i]]

MapControls (c) ==
  [x \in Control |->
    LET takers == {i \in DOMAIN Actions : x \in Range (Names (Actions[i], c))}
    IN IF takers = {} THEN None ELSE Actions[Max (takers)]]

Init ==
  /\ config \in Configs /\ mapping = MapControls (config)
  /\ held = {} /\ axis = [a \in Axis |-> 0]
  /\ queue = <<>> /\ table = {} /\ heard = {}

-----------------------------------------------------------------------------
(* The player; SDL tells whether a modifier is active, and repeats a key.   *)

PressControl (x, modified) ==
  /\ Len (queue) < MaxQueue /\ (x \in held => x \in Scancode)
  /\ held' = held \cup {x}
  /\ queue' = Append (queue, [control |-> x, pushed |-> TRUE, modified |-> modified])
  /\ UNCHANGED <<axis, table, heard, mappingVars>>

ReleaseControl (x, modified) ==
  /\ Len (queue) < MaxQueue /\ x \in held
  /\ held' = held \ {x}
  /\ queue' = Append (queue, [control |-> x, pushed |-> FALSE, modified |-> modified])
  /\ UNCHANGED <<axis, table, heard, mappingVars>>

MoveAxis (a, v) ==
  /\ Len (queue) < MaxQueue /\ axis[a] # v
  /\ ~ Flips => axis[a] * v >= 0
  /\ axis' = [axis EXCEPT ![a] = v]
  /\ queue' = Append (queue, [axis |-> a, value |-> v])
  /\ UNCHANGED <<held, table, heard, mappingVars>>

-----------------------------------------------------------------------------
(* input_manager_update, for one event                                      *)

Translated (x) == IF x \in Scancode THEN KeyTrans[x] ELSE x

\* manager::raise_event: whatever listeners made of it, the action mapped to
\* the control follows.
Heard (x, pushed) ==
  IF x \notin Control \/ mapping[x] = None THEN heard
  ELSE IF pushed THEN heard \cup {mapping[x]} ELSE heard \ {mapping[x]}

\* Keys, and buttons. (Caps lock with a modifier is dropped, and the other
\* events have to wait for the next frame.)
PollControl ==
  /\ queue # <<>> /\ "control" \in DOMAIN Head (queue)
  /\ LET e == Head (queue)
     IN heard' = IF e.control = CapsLock /\ e.modified THEN heard ELSE Heard (Translated (e.control), e.pushed)
  /\ queue' = Tail (queue)
  /\ UNCHANGED <<table, userVars, mappingVars>>

\* The direction an event is about: in the middle the first that is pushed.
AxisNbr (e) ==
  IF e.value < 0 \/ (e.value = 0 /\ Fore[e.axis] \in table) THEN Fore[e.axis] ELSE Back[e.axis]

PollAxis ==
  /\ queue # <<>> /\ "axis" \in DOMAIN Head (queue)
  /\ LET e == Head (queue)
         d == AxisNbr (e)
         pushed == e.value \in {-2, 2}
     IN IF pushed = (d \in table) THEN UNCHANGED <<table, heard>>
        ELSE /\ table' = IF pushed THEN table \cup {d} ELSE table \ {d}
             /\ heard' = Heard (d, pushed)
  /\ queue' = Tail (queue)
  /\ UNCHANGED <<userVars, mappingVars>>

Next ==
  \/ \E x \in Scancode \cup Button, modified \in BOOLEAN :
       PressControl (x, modified) \/ ReleaseControl (x, modified)
  \/ \E a \in Axis, v \in -2 .. 2 : MoveAxis (a, v)
  \/ PollControl \/ PollAxis

Spec == Init /\ [][Next]_vars

-----------------------------------------------------------------------------
(* Properties. *)

\* All parts of the state have their types.
TypeOK ==
  /\ mapping \in [Control -> Range (Actions) \cup {None}]
  /\ held \subseteq Scancode \cup Button /\ axis \in [Axis -> -2 .. 2]
  /\ queue \in Seq (DeviceEvent) /\ table \subseteq Direction /\ heard \subseteq Range (Actions)

\* Once all events have been polled, the player acts as the hands do: an
\* action is heard as pushed while the control the settings give for it is
\* held, and the default key if they do not name one.
Wanted (a) ==
  IF config[a] # <<>> /\ config[a][1] # "unknown" THEN config[a][1] ELSE Default[a]

\* Settings give each action one control, not that of another action, nor a
\* key that the keyboard has twice.
Unambiguous ==
  \A c \in Configs : \A a, b \in Range (Actions) :
    /\ \A x, y \in Range (Names (a, c)) : x = y
    /\ a # b => Range (Names (a, c)) \cap Range (Names (b, c)) = {}
    /\ \A k, l \in Scancode : KeyTrans[k] = KeyTrans[l] /\ KeyTrans[k] \in Range (Names (a, c)) => k = l

PlayerObeys ==
  queue = <<>> => \A a \in Range (Actions) :
    Wanted (a) \notin Direction \cup {KeyTrans[CapsLock]}
      => (a \in heard <=> \E x \in held : Translated (x) = Wanted (a))

\* A joystick that has come to rest moves nobody: once all events have been
\* polled no direction of an axis in the middle is pushed, and one that is
\* held beyond the threshold is.
AxisAtRest ==
  queue = <<>> => \A a \in Axis :
    /\ axis[a] = 0 => table \cap {Fore[a], Back[a]} = {}
    /\ axis[a] = -2 => Fore[a] \in table
    /\ axis[a] = 2 => Back[a] \in table
    /\ \A b \in Range (Actions), d \in {Fore[a], Back[a]} :
         Wanted (b) = d => (b \in heard <=> d \in table)
=============================================================================
