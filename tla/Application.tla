---------------------------- MODULE Application -----------------------------
(***************************************************************************)
(* adonthell::app: the start of the engine, the initialisation of its      *)
(* modules on demand of the game, and the shutdown.  The modules with a    *)
(* backend may fail to start.  The modules that raise events have an event *)
(* manager, which registers its type of events (events::event_type) as     *)
(* long as it lives; the modules with state of the game add serialisers to *)
(* the saved games.                                                        *)
(*                                                                         *)
(* The interpreter of Python may have been running before, when the engine *)
(* is itself a library of a Python program.                                *)
(***************************************************************************)
EXTENDS Integers, Sequences, SequencesExt, FiniteSets

CONSTANTS
    Requests,       \* the sets of modules the game asks for
    Hosted,         \* whether a Python program hosts the engine
    MaxCalls,       \* bound on the calls of init_modules
    NoManager       \* an empty place of event_type::Types

InitOrder == <<"PYTHON", "EVENT", "GFX", "INPUT", "AUDIO", "RPG", "WORLD", "GUI">>
CleanupOrder == <<"WORLD", "RPG", "AUDIO", "INPUT", "GUI", "GFX", "EVENT", "PYTHON">>
Module == {InitOrder[i] : i \in 1..Len(InitOrder)}

ApplicationAssumption ==
    /\ Requests \subseteq SUBSET Module
    /\ Hosted \in BOOLEAN
    /\ MaxCalls \in Nat

VARIABLES
    phase,          \* "off", "game", "init", "cleanup" or "over"
    Modules,        \* the modules the application thinks are loaded
    todo,           \* modules still to be initialised or cleaned up
    up,             \* the modules that are running
    managers,       \* module -> its event manager: number of the instance, 0 if none
    alive,          \* event managers that exist: <<module, number>>
    Types,          \* event_type::Types: event managers by event id
    NamedTypes,     \* event_type::NamedTypes: module -> event id, 0 if none
    serializers,    \* the serialisers of the saved games
    calls,          \* calls of init_modules so far
    answer,         \* history: what the last call returned, and for what
    starts          \* history: module -> how often it was initialised

appVars == <<phase, Modules, todo, up, managers, alive, Types, NamedTypes,
             serializers, calls, answer, starts>>
registry == <<managers, alive, Types, NamedTypes, serializers>>

Managed == {"EVENT", "AUDIO", "RPG", "WORLD", "GUI"}
Backed == {"GFX", "INPUT", "AUDIO"}
Saved(m) == CASE m = "EVENT" -> <<"date">>
              [] m = "RPG"   -> <<"quest", "faction", "character">>
              [] m = "WORLD" -> <<"area_manager">>
              [] OTHER       -> <<>>

NoAnswer == [value |-> "none", asked |-> {}]

Init ==
    /\ phase = "off"
    /\ Modules = {} /\ todo = {}
    /\ up = IF Hosted THEN {"PYTHON"} ELSE {}
    /\ managers = [m \in Managed |-> 0]
    /\ alive = {} /\ Types = <<>>
    /\ NamedTypes = [m \in Managed |-> 0]
    /\ serializers = <<>>
    /\ calls = 0 /\ answer = NoAnswer
    /\ starts = [m \in Module |-> 0]

(* app::init: when a step of it fails, main goes on to the cleanup.        *)
Started(ok) ==
    /\ phase = "off"
    /\ phase' = IF ok THEN "game" ELSE "cleanup"
    /\ UNCHANGED <<Modules, todo, up, registry, calls, answer, starts>>

(* init_modules: the modules in which the request differs from what is     *)
(* loaded are initialised, one after the other.                            *)
init_modules(request) ==
    LET m == (Modules \ request) \cup (request \ Modules)
    IN  /\ phase = "game"
        /\ calls < MaxCalls
        /\ calls' = calls + 1
        /\ Modules' = Modules \cup m
        /\ todo' = m
        /\ answer' = [value |-> "none", asked |-> request]
        /\ phase' = "init"
        /\ UNCHANGED <<up, registry, starts>>

(* register_type: not if the name has a manager already.                   *)
register_type(m, manager) ==
    IF NamedTypes[m] # 0 THEN UNCHANGED <<Types, NamedTypes>>
    ELSE /\ Types' = Append(Types, manager)
         /\ NamedTypes' = [NamedTypes EXCEPT ![m] = Len(Types) + 1]

(* remove_type: the id is not used again. *)
Vacated(m) == [Types EXCEPT ![NamedTypes[m]] = NoManager]
(* Mutation: the manager that is gone stays in its place. *)
VacatedNot(m) == Types
EmptyPlace(m) == Vacated(m)
remove_type(m) ==
    IF NamedTypes[m] = 0 THEN UNCHANGED <<Types, NamedTypes>>
    ELSE /\ Types' = EmptyPlace(m)
         /\ NamedTypes' = [NamedTypes EXCEPT ![m] = 0]

(* The i-th module of an order is the next to be initialised or cleaned up. *)
Due(order, i) == order[i] \in todo /\ \A j \in 1..(i - 1) : order[j] \notin todo

(* The init functions of the modules. *)
InitModule(m) ==
    /\ starts' = [starts EXCEPT ![m] = @ + 1]
    /\ up' = up \cup {m}
    /\ serializers' = serializers \o Saved(m)
    /\ IF m \in Managed
       THEN LET manager == <<m, starts[m] + 1>>
            IN  /\ alive' = alive \cup {manager}
                /\ managers' = [managers EXCEPT ![m] = starts[m] + 1]
                /\ register_type(m, manager)
       ELSE UNCHANGED <<alive, managers, Types, NamedTypes>>

(* Python is not started, and will not be shut down, if it runs already.   *)
InitPython ==
    IF "PYTHON" \in up
    THEN Modules' = Modules \ {"PYTHON"} /\ UNCHANGED <<up, registry, starts>>
    ELSE InitModule("PYTHON") /\ UNCHANGED Modules

InitStep ==
    /\ phase = "init"
    /\ \E i \in DOMAIN InitOrder :
          /\ Due(InitOrder, i)
          /\ IF InitOrder[i] = "PYTHON" THEN InitPython
             ELSE InitModule(InitOrder[i]) /\ UNCHANGED Modules
          /\ todo' = todo \ {InitOrder[i]}
    /\ UNCHANGED <<phase, calls, answer>>

(* A backend that does not start ends the call; the event manager of the   *)
(* audio module has been made by then.                                     *)
InitFails ==
    /\ phase = "init"
    /\ \E i \in DOMAIN InitOrder :
          /\ Due(InitOrder, i)
          /\ InitOrder[i] \in Backed
          /\ \/ UNCHANGED <<up, registry, starts>>
             \/ InitOrder[i] = "AUDIO" /\ InitModule("AUDIO")
    /\ UNCHANGED Modules
    /\ todo' = {}
    /\ answer' = [answer EXCEPT !.value = "false"]
    /\ phase' = "game"
    /\ UNCHANGED calls

InitDone ==
    /\ phase = "init"
    /\ todo = {}
    /\ answer' = [answer EXCEPT !.value = "true"]
    /\ phase' = "game"
    /\ UNCHANGED <<Modules, todo, up, registry, calls, starts>>

(* The game's main loop returns. *)
stop ==
    /\ phase = "game"
    /\ phase' = "cleanup"
    /\ todo' = Modules
    /\ UNCHANGED <<Modules, up, registry, calls, answer, starts>>

(* The cleanup functions of the modules: the event manager is deleted.     *)
CleanupStep ==
    /\ phase = "cleanup"
    /\ \E i \in DOMAIN CleanupOrder :
       LET m == CleanupOrder[i]
       IN  /\ Due(CleanupOrder, i)
           /\ up' = up \ {m}
           /\ todo' = todo \ {m}
           /\ IF m \in Managed /\ managers[m] # 0
              THEN /\ alive' = alive \ {<<m, managers[m]>>}
                   /\ managers' = [managers EXCEPT ![m] = 0]
                   /\ remove_type(m)
              ELSE UNCHANGED <<alive, managers, Types, NamedTypes>>
    /\ serializers' = <<>>
    /\ UNCHANGED <<phase, Modules, calls, answer, starts>>

Over ==
    /\ phase = "cleanup"
    /\ todo = {}
    /\ phase' = "over"
    /\ UNCHANGED <<Modules, todo, up, registry, calls, answer, starts>>

Next ==
    \/ \E ok \in BOOLEAN : Started(ok)
    \/ \E r \in Requests : init_modules(r)
    \/ InitStep
    \/ InitFails
    \/ InitDone
    \/ stop
    \/ CleanupStep
    \/ Over

Spec == Init /\ [][Next]_appVars

-----------------------------------------------------------------------------
(* What the objects of a module are made of: windows and objects on the    *)
(* map have surfaces, listeners of events have Python callbacks.           *)
Foundations == [m \in Module |->
    CASE m \in {"GUI", "WORLD"} -> {"GFX"}
      [] m = "EVENT"            -> {"PYTHON"}
      [] OTHER                  -> {}]

(* No module runs before, or after, one it is built on that was asked for, *)
(* and all that was started is stopped in the end, though a start failed.  *)
(* (Python is not, when it was found running.)                             *)
BuiltOnFoundations ==
    /\ \A m \in up : \A f \in Foundations[m] :
          f \in Modules /\ starts[f] > 0 => f \in up
    /\ phase = "over" => up \subseteq {"PYTHON"}

(* An id of an event type never leads to an event manager that was         *)
(* deleted, and the name of a type leads to the place of its manager.      *)
TypesAlive ==
    /\ \A i \in 1..Len(Types) : Types[i] # NoManager => Types[i] \in alive
    /\ \A m \in Managed : NamedTypes[m] # 0 => Types[NamedTypes[m]][1] = m

(* "it will take care to not initialize any module more than once"         *)
(* (adonthell.h).                                                          *)
InitOnce == \A m \in Module : starts[m] <= 1
=============================================================================
