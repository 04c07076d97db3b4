# Adonthell in TLA+

Adonthell is a role-playing game engine: a C++ library of packages (`event`,
`world`, `rpg`, `gui`, `input`, `gfx`, `audio`, `python`, `base`) that Python
scripts drive. But for the mixer of sounds, which reports from a thread of its
own, everything happens in one thread. What is hard about the engine is
re-entrancy: almost everything happens in callbacks, a callback may call back
into the package that is executing it, and the packages hold iterators, pointers
and counters across the call. Next come the life time of objects referenced from
several places, counters and levels that are nested or wrap around, trees, lists
and caches that must agree with what they are about, and state that is saved in
pieces and read by others.

This directory holds TLA+ modules that model the engine, TLC configurations that
check them, and proofs that TLAPS checks.

1. [Inventory](#inventory)
2. [Modules](#modules)
3. [Runs](#runs)
4. [Bounds](#bounds)
5. [Fairness](#fairness)
6. [Proofs](#proofs)
7. [Where texts and code disagree](#where-texts-and-code-disagree)
8. [What is not modelled](#what-is-not-modelled)
9. [Plan](#plan)

## Inventory

One paragraph per component: its state, its operations, who it works with, what
is hard, and what makes it correct. All paths are below `src/src/`. The hazards,
each with its line and the properties about it, are in `PROJECT.json`.

**Events** (`event/factory.cc`, `listener.cc`, `manager.h`, `time_event*.cc`).
A *factory* owns *listeners*; a listener owns the event it waits for, a repeat
count, a pause level and a callback, and is referenced from the list of the
*event manager* of its event's type while it is registered. Factories create,
pause, resume, clear and delete listeners; managers look for matching listeners
when an event is raised and execute or delete them. Hard: everything may happen
inside a callback; pause levels nest; a listener has two owners. Correct: no
dangling references, a listener is listed exactly once unless it is paused, the
right callbacks are executed, destroyed listeners are deleted.

**Game time** (`event/date.cc`). The clock; raises a time event every
`Resolution` seconds. Correct: no alarm is missed, late or executed twice.

**List-based event managers** (`audio/audio_event_manager.cc`,
`world/move_event_manager.cc`, `rpg/quest_event_manager.cc`). Unsorted lists of
listeners, walked with an iterator while callbacks change them, also
recursively. Correct: nobody is skipped, no iterator is left dangling.

**Quests** (`rpg/quest.cc`, `quest_event.cc`, `quest_event_manager.cc`). A tree
of parts with a rule each; completing a step evaluates the rules of its
ancestors and raises an event for each part that changes. Hard: the events run
callbacks in the middle of the climb, which complete other steps. Correct: flags
and rules agree when the outermost call returns, and listeners know the flags.

**Items and inventories** (`rpg/item.cc`, `slot.cc`, `inventory.cc`,
`equipment.cc`, `item_storage.cc`). Slots hold stacks of items; items know
their slot; mutable items are split and joined. Hard: shared item objects, back
pointers, partial moves. Correct: no item is lost or duplicated, back pointers
agree with slots, stacks stay within their limit.

**Path finding tasks** (`world/pathfinding_manager.cc`). A fixed pool of tasks,
each moving a character along a path; a task is replaced, paused, deleted, saved
and restored, and its callback may start a new one in the same slot. Hard: slots
are used again at once, by callbacks too, and scripts keep ids. Correct: a
character has at most one task, an id belongs to the one who holds it, every
task ends and its script is told once.

**Path search** (`world/pathfinding.cc`, `open_list.h`, `node_bank.h`,
`node_cache.h`). A* over tiles on several levels, which prunes directions and
caches positions. Correct: the path can be walked; none is missed.

**Schedules** (`world/schedule*.cc`). A character's current activity (a Python
script), the manager script that chooses one, the alarm that ends it, a queued
successor, and a pause level that scripts and dialogues raise and lower. Hard:
methods of scripts are called in the middle of an update and call back; scripts
may fail to load; alarms are saved without their callback. Correct: a running
schedule has an activity, it is paused if the character is, and it ends.

**Moving objects and characters** (`world/moving.cc`, `character.cc`,
`move_event.cc`). Direction and pace, jumping, falling and landing, and the
events for zones. Hard: keys, paths and saved games change the movement in the
air, and one counter of frames is shared. Correct: pace, movement and posture
agree, listeners know who is in a zone, and who jumps comes down.

**Spatial index and placeables** (`world/chunk.cc`, `placeable*.cc`,
`cube3.cc`). A tree of boxes that is split, pruned and searched, and bounding
boxes at every level of an object. Correct: searching the tree finds what a look
at all objects finds; boxes are those of what is in them.

**Areas** (`world/area.cc`, `entity.h`, `chunk_info.h`). Objects, the entities
that own and name them, the places they are put at, zones; written by object
and read back as new entities. Correct: loading shows what was saved, and every
object is owned once.

**Saved games** (`base/savegame.cc`, `base/paths.cc`, `world/area_manager.cc`).
Directories with a file for each serializer and each map, a search path that
falls back to the data of the game, and maps that are saved when they are left.
Hard: saving takes many steps, any of which may fail or be the last. Correct: a
game that loads is the one saved last in its place.

**Windows and input** (`gui/window_manager.cc`, `window.cc`, `input/manager.cc`).
A stack of windows that slide in and out and are removed when out of sight, and
a list of listeners whose order is the focus; input is delivered along a copy of
it while handlers open and close windows. Correct: dialogs are on top and hear
the input, those that have gone do not, and all windows come to rest.

**Widgets** (`gui/layout.cc`, `listlayout.cc`, `scrollview.cc`, `button.cc`,
`option.cc`, `textbox.cc`). Nested layouts that each select a child. Correct:
the selection, each widget's idea of its focus and the mode of the keyboard
agree; the cursor never is inside a character.

**Conversations** (`gui/conversation.cc`, `rpg/dialog*.cc`,
`gui/ui_event_manager.cc`). The walk through the lines of a dialogue, with
answers as buttons whose events are queued until the next frame. Hard: the
callback of one replaces the others while they are queued. Correct: the
conversation goes where the answer leads, and the schedules it paused go on.

**Input devices** (`input/sdl*/manager_sdl.cc`, `control_event.cc`). Keys,
buttons and axes mapped to actions. Correct: listeners know what is held.

**Sprites and the cache of images** (`gfx/sprite.cc`, `surface_cacher.cc`,
`surface_ref.cc`, `world/placeable_model.cc`). Animations driven by time events,
and images that are counted and purged. Correct: counts and memory are right,
an animation waits for its next frame.

**Files** (`base/flat.cc`, `diskio.cc`, `diskwriter_*.cc`). Records of named
fields, in two formats. Correct: what is read is what was written.

**Configuration** (`base/configuration*.cc`). Options in sections, kept in an
XML file. Correct: values are in range, comments stay in place, a start that
fails destroys nothing.

**Application** (`main/adonthell.cc`, `event/manager.h`, the `init.cc` files).
Modules that are started in order and on demand, and register event types and
serializers. Correct: a module runs on those it needs, types have managers.

**Sounds** (`audio/sound.cc`, `sdl_mixer`'s backend, `audio_cache.cc`). Two
threads share the state of a sound without a lock. Correct: both sides agree on
who plays where, and a sample is loaded as long as someone plays it.

**Rendering and shadows** (`world/renderer.cc`, `shadow.cc`,
`gfx/drawing_area.cc`). A queue of objects painted from below, and the pieces of
a shadow on the objects it falls on. Correct: what is left out is hidden, and
the pieces make up the shadow.

Labels, fonts, the log book, factions, the view of the map, the narrow collision
test, the bindings to Python and small utilities are listed in `PROJECT.json`
and under [What is not modelled](#what-is-not-modelled).

## Modules

| Module | Models | Extends |
|---|---|---|
| `EventFactory` | factories and listeners, for any event manager | |
| `TimeEvents` | game time and the time event manager | `EventFactory` |
| `AlarmClock` | what time events promise to their users | |
| `ListEvents` | the list-based event managers, re-entrant | `EventFactory` |
| `ItemSlots` | slots, stacks, items and what moving them does | |
| `Inventories` | inventories, equipment, combining, the item storage | `ItemSlots` |
| `PathTasks` | the pool of path finding tasks | |
| `Schedules` | the schedule of a character | |
| `InputManager` | listeners of input and the delivery of an event | |
| `Windows` | windows, their input and the focus | `InputManager` |
| `Widgets` | nested layouts, keys, scrolling, text | |
| `Conversations` | dialogues, answers, user interface events | |
| `Quests` | parts of quests, rules, events, listeners | |
| `Areas` | what is on a map and how it is saved | |
| `Chunks` | the tree of chunks | |
| `Placeables` | models, shapes and boxes of an object | |
| `PathSearch` | the search for a path | |
| `Moving` | moving characters | |
| `DrawingAreas` | rectangles | |
| `Rendering` | the order of painting | `DrawingAreas` |
| `Shadows` | the pieces of a shadow | `DrawingAreas` |
| `SavedGames` | saved games and the switching of maps | |
| `Flat` | records of fields | |
| `DiskFiles` | records as XML documents, files in both formats | `Flat` |
| `Configuration` | options and their file | |
| `Application` | start and end of the engine's modules | |
| `Sounds` | sounds in two threads | |
| `InputDevices` | keys, buttons, axes and actions | |
| `Sprites` | the cache of images, animated sprites | |
| `Characters` | what characters do: tasks, schedules | none; `INSTANCE` |
| `Game` | what a player sees: windows, a conversation, characters, quests | none; `INSTANCE` |
| `Engine` | what is below: saved games, configuration, application, sounds, devices, sprites | none; `INSTANCE` |
| `ListLemmas` | facts about lists without duplicates | |
| `TimeEvents_proofs`, `ListEvents_proofs`, `Inventories_proofs`, `Characters_proofs`, `Game_proofs`, `Engine_proofs`, `Resources_proofs` (`Sprites` and `Configuration` of `Engine`) | theorems | the modules they are about |
| `MCTimeEvents`, `MCListEvents`, `MCInventories`, `MCGame`, `MCEngine` | instances for TLC | the modules they check |
| `MCStructures` | an instance for TLC of the structures and pure algorithms: areas, chunks, placeables, searches, painting, shadows, widgets, files | none; `INSTANCE` |

In all of them a definition whose comment begins with "Mutation:" is a variant
of a definition after it with a plausible mistake. Every property of every run is
known to fail if one of them takes its original's place; the pairs are in
`PROJECT.json`.

`Characters`, `Game`, `Engine` and `MCStructures` put several components together. They have a
variable `scene` that says which of them is run. A component has variables of its own, which have the value `None`
in the other scenes, so that the states of the scenes add up instead of
multiplying. `Scenes` in the `.cfg` names those to be run: with one of them
TLC is done within seconds to a minute. What is proved of a scene is proved of
the component by itself, under the names of its own module.

### EventFactory

State: per listener `life`, `owner` (`listener::Factory`), `repeat`, `paused`,
`registered`; per factory `fpaused`; the manager's list `queue`. A factory's
vector is the set of listeners it owns, visited in the order of creation. The
manager only differs in where a listener is put when it is added, so the
operations that add one take the resulting list as an argument. A factory's
loop over its listeners is executed one listener per step (`sweep`), because
the position a listener is added at depends on the one added before; nothing
else happens between the rounds of such a loop.

Pause levels are `u_int16`: they wrap around at `PauseMod`, which is 65536 in
the code and 2 or 3 in the runs.

### TimeEvents

Adds the clock `now`, `time` and `interval` of each alarm, `raising` (whether
`time_event_manager::raise_event` is being executed) and `running` (the
listener whose callback is). `Tick` is one second of `date::update`; `Deliver`,
`Discard`, `Return` and `EndRaise` are the parts of `raise_event` between which
a callback runs. A callback is a script, and scripts do anything the packages
export: every operation of `Script` is possible in the main loop and in
callbacks. `Ops` and `SelfOps` name the operations that scripts use, and the
ones that callbacks apply to the very listener they are called from, so that a
run or a theorem says what it assumes of scripts.

One operation is in no run: `clear_paused`, clearing a factory while one of its
listeners is paused. With it `NoOrphanedListener` fails, since nobody deletes a
listener that is destroyed and in no list.

### ListEvents

Adds `stack`, the calls of `raise_event` in progress, each with the position of
its iterator. A walk also records whom it has to execute and to delete, for the
properties only. The node an iterator points to may be erased by a callback;
`erased` says so, and going on from there is undefined. Whether an event
matches a listener's event is left open (`Matching`).

### ItemSlots and Inventories

`heap` is what the pointers of the code make up: the topmost item and the count
of every slot, the item below each item of a stack, and the slot each item
thinks it is in. There are *mutable* items, every one an object of its own, and
*shared* ones, of which there is one object per kind and only counts in slots;
that object remembers the slot it was looked up in last (`GetItem`), and that is
where `slot::add` takes it from. The operators of `ItemSlots` return the heap
after a method of `slot`, and `InvAdd`, `EquipItem`, `CombineAll` compose them
as `inventory::add`, `equipment::equip` and `inventory::combine` do. Loops over
slots are folds.

`hand` is the item, or stack of items, that a script holds and that is in no
slot; `made` counts what was made and not destroyed, for conservation. The slots
a growing inventory appends come from the finite set `Slot`; a step that would
need more is left out (`FitsModel`), except that one that appends slots for ever
is `hung`. The temporary slot of `inventory::combine` is a slot of its own,
`Tmp`; items in the slot when it is deleted forget it, where in the code a
pointer to it would be left. `RecipesFit` and the conjunct `c.heap.count[Tmp] = c.n`
of `Combine` say what a comment in `inventory::combine` calls items that are
"designed properly": the results fit into the temporary slot, so that its error
path is not taken.

The constants `Greedy` (scripts ask for more items than there are), `BigStacks`
(they move several mutable items at once), `Peeking` (they look into other slots
while they hold a shared item), `Swaps` (an equipped shared item with a method
`unequipped` is equipped elsewhere directly) and `Crowded` (results or equipped
items do not fit) widen what scripts do. With `Greedy`, `AddReturns` fails and
with `BigStacks`, `AddedInFull` and `HonestRemainder`, the finding of
`split_stack`. With `Peeking`, `Swaps` (if there are two slots to equip) or
`Crowded`, `NothingLost` fails, but nothing in the repository says that it
should not.

### PathTasks

`pf` is the manager: a record per slot, the locked slots, the characters that
have a task, and the highest slot in use. `at` is the slot `update` has reached,
and `calling` whether the callback of the task in it is being executed: slots
are updated one per step, and scripts run between frames and in callbacks.
`hold` is the task whose id a character's script keeps. Where characters are is
left open: a search goes on, finds a path of some length or none (`Found`,
`NotFound`), and a character turns, walks, is stuck, makes a detour, gives up or
falls (`Turn` to `Fall`, the branches of `move_chr`). What a search that is
abandoned leaves in the open list of its slot is `dirty`.

Fields that are not looked at any more in a task that is over or in a free slot
have fixed values (`Over`, `Freed`), which keeps the state space small.
`Reload` is `put_state`, `clear` and `get_state` in one step: the tasks saved
belong to different characters, so that the loop of `get_state` has a closed
form. `LeaveMap` is what `set_active_map` does to the tasks.

`Careless` names what the manager does not cope with. With `"stale_id"`, scripts
keep the id of a task that has ended, as
`src/test/data/schedules/char/walk_random.py` does: then `HeldIsOwn` and
`NoneEndsUntold` fail, since they pause and delete other characters' tasks. With
`"restart"`, schedules start a task while a game is being loaded, before the
tasks are: then `OneTaskEach` and `NoneEndsUntold` fail. The passing run has
neither.

### Schedules

`paused`, `running`, `script`, `queued` are the members of `world::schedule`,
`script` with what the activity was told last (nothing since it was created, to
go on, or to pause). `call` is the method that `update` is calling; all actions
of `Script` are possible then, between updates, and while alarms ring. `alarms`
are the listeners of the schedule's factory. `OnAlarm` and `EndRinging` are the
promise of `AlarmClock`: before the clock goes on past a multiple of
`Resolution`, every alarm that is due rings; an alarm that `Factory.clear` has
destroyed never does. `Created` is what `python::script::create_instance` leaves:
if the module cannot be imported the old activity stays, if the constructor
fails it is lost. The manager may choose any activity or none, several times as
long as that fails.

`Reload` saves the schedule and loads it into a new one. The method `start` may
set an alarm then, or queue an activity, before the saved ones are loaded.

### InputManager, Windows

`listeners` is the list of the input manager, in the order of focus; `delivery`
is the event that is being delivered, with the copy of the list that is left,
and `deleted` the listeners that no longer exist. `windows` holds the windows
from the top, each with its place, what it fades to and whether it is to be
removed, `relative` those that move with the view; `frame` counts the windows
that `window_manager::update` has still to visit. Scripts open and close windows
between frames and in handlers (`Scripts`). Positions are distances in pixels,
moved by `FadeRate` per frame. Windows that move with the view are moved in an order that
is left open. `Place` follows the code: a new window goes in front of those of lower
type, but behind those of its own, while the focus goes to it. So the dialog that
the player sees in front is not the one that hears a key first; headers say
otherwise ([below](#where-texts-and-code-disagree)). What does hold is that
dialogs are above everything else, and that just those on display listen. `WindowsAssumption` says what a window is made of: whatever has a
layout is something a window can show, and nothing is called `None`. `Careless` has "close" for closing a dialog while
another window is going, which hands the focus to one that is going (see below),
and "delete" for a handler that deletes a listener of its own.

### Widgets

`children` is the tree of layouts, `gui` what the widgets know of the focus (the
selection of each layout, who has it, whether the keyboard is in the mode for
text, and the key a button is held with), `scroll` the offset of the scrollview,
`text` and `cursor` what the text box holds. Text is a sequence of bytes, of
which only the number of bits set at the start is kept, by which `utf8` tells
them apart.

### Conversations

`line`, `successors` and `used` are `rpg::dialog`: the line spoken, those that
may follow, and those that were said (`Loop` names the lines that may be said
again). `options` are the answers on display, `pending` and `firing` the queue
of user interface events and how many of them have been called in this frame.
`listeners` (a set, since the queue decides who is called) and `status` are those
of the buttons, `running` the call of
`dialog::run` in progress, `finish` the listener for the end of the conversation,
which resumes the schedules. `said` and `touched` are recorded for properties.

### Quests

`started` and `completed` are the flags of the parts, `lists` the three lists of
listeners of `quest_event_manager`, `stack` the climbs in progress, innermost
last, each with its event and the listener it has reached. A rule is a set of
alternatives, each a set of parts; a part without code is completed when all of
its children are. `QuestAssumption` says that a rule names children only
(`PartRule` finds parts in `children`), that each name begins with a word that is
no wildcard, and that a listener has a pattern. `heard` is what each listener knows of each part. `Unclosed`
names parts whose code ends with a name, which is lost: the finding of
`last_name`. `Careless` has "save" if callbacks save the game, in which a climb
under way is then saved half done.

### Areas, Chunks, Placeables

`Areas` has one variable, `area`, with the objects, entities, names, places,
actions and zones of a map; `PutState` is what is written of it, and reading
makes a map of that. `Chunks` has the `tree` and beside it what was `placed`, a
bag, which the tree is compared with. `Placeables` has the parts of each shape,
the boxes kept of shapes and of the object, and the state of the object; boxes
have two dimensions.

### PathSearch

`nodes` is the bank, `open` the open list (a heap in the code: only the node it
gives next matters), `cache` the node of each position that has one. One step is one
iteration of the search, with all neighbours of the node. `Maps` are the surfaces
to be searched, all of them initial states.

### Moving

`body` is a record per character with its place, height, direction, pace, speed
upwards and the like; `turn` the character that is updated next in this frame,
`stuck` the static counter `frames_stuck` of `character::update`, `entered` what
listeners have been told of zones. Heights and speeds are tenths of pixels.

### DrawingAreas, Rendering, Shadows

`Rendering` has the queue `render_queue` with the position `it` of the pass, the
size of the queue when the pass began, and what was `drawn` and `forced`;
`renderer` is one of the two. `Shadows` keeps, as `world::shadow` does, the
rectangles of the shadow `Remaining` to be cast, the tiles that have parts of
it, and the parts on each surface.

### SavedGames

`disk` is the directories with their files, `games` the list of
`savegame::Games`, `slot` the one that is played, `search` the directory in which
files are looked for first, `world` the state of the game (a number for each
serializer and the active map). `saving` is the position in `save`, so that the
program may end, or a file fail, after every file. `saved` is what was saved last
in each directory and `torn` the directories of which only some of the old files
were removed, for the properties. `SavedGamesAssumption` says that
serializers, maps and the two files of the game itself have different names: the
code gives those of the serializers, whoever makes the maps must give others.

### Flat, DiskFiles

`Flat` has the fields in the buffer, the parsed list and the field read last,
with the order of bytes of the machine that wrote it. `DiskFiles` first turns it
into the calls of a SAX parser and has the handlers of `disk_writer_xml` with the
stack of contexts, which is static: a document that breaks off leaves its
contexts there. Its actions write files in either format, break them off, and
read them back; it also checks them as loading code takes the fields out.

### Configuration, Application

`Configuration` has the `options`, the `file`, and the `phase` of the program;
`session` (what the file held when it was read) and `ranged` are for properties.
`Application` has the modules still to be started or ended (`todo`), those it
thinks are loaded (`Modules`) and those that are running (`up`), the event
managers that exist with their registered types, and the serializers. Requests
come one after the other; a module with a backend may fail to start.

### Sounds

`st` is what both threads use (the channel of each sound, its flag for a forced
halt, the sound on each channel, and those that are completed), `refcount` and
`m_sample` the cache of samples, `mixer` the channels of the mixer, which is
external. `call` is the position in a method of the game's
thread; the callback of the mixer's thread may run before and after each of its
steps. There is no lock in the code, and each access is a word; that the
compiler may reorder them is left out.

### InputDevices

`held` and `axis` are what the player does, `queue` what SDL has not delivered
yet, `table` the directions pushed on axes, `mapping` the control each name
stands for, and `heard` the actions a listener knows to be pushed. `MapControls`
says of the loops of `control_event::map_controls` which action has a control in
the end: the last of those that name it. `Unambiguous` are settings that give
each action one control, of which the keyboard has only one: `sdl_key_trans` has
the backslash and the caret on several keys, and with two of them held letting go
of one ends the action. `MCEngine` checks that its settings are so.

### Sprites

`cache` is the entries with their counts and the memory they take, `pins` the
images that shadows and decorations hold, `model` a record per model with its
sprite, animation, frame and listener. A reference is
counted as its constructor and destructor do, those of temporaries included.

## Runs

| Run | Instance | Shows |
|---|---|---|
| `time_events` | 2 listeners, 1 factory, pause level modulo 3, 4 seconds, resolution 2, with fairness | the list of alarms is sound, the right listeners are called, `TimeEvents` implements `AlarmClock`; raising ends, alarms go off, cleared listeners are deleted |
| `list_events` | 4 listeners, 2 events, 3 nested walks, level modulo 2, with fairness | nobody is skipped, no iterator dangles, destroyed listeners are deleted, walks end |
| `inventories` | 3 torches, sticks and arrows, two limited inventories and a growing one, 2 recipes | items are conserved, stacks and back pointers agree, adding is complete and returns |
| `path_tasks` | 3 characters, 2 slots, with fairness | one task each, no stale ids, every task ends and is told of |
| `schedules` | 2 activities, one missing and one faulty, pause level modulo 3, 6 seconds, resolution 2, with fairness | there is an activity, paused if it should be, with one alarm that ends it |
| `game` | windows, a conversation, characters and quests, each by itself, with fairness | dialogs on display hear the input, and no others, answers lead where they say, characters come down, quests follow their rules, windows settle, schedules resume |
| `engine` | saved games, configuration, modules, sounds, devices and sprites, each by itself | a game that loads is the one saved, settings are kept, types have managers, both threads agree, held keys are known, counts are right |
| `structures` | maps, chunks, placeables, searches, painting, shadows, widgets and files, each by itself | loading shows what was saved, the tree agrees with the objects, paths are found, nothing visible is left out, focus and selection agree, records read are those written |
| `split_stack` | scripts move stacks of mutable items | `inventory::add` hides a remainder (finding) |
| `stale_search` | as `path_tasks` | a search goes on with the open list of another (finding) |
| `queued_schedule` | as `schedules` | a queued activity is not started (finding) |
| `last_name` | a quest whose code ends with a name | it is never completed (finding) |

A property of a run is often the conjunction of what the components call by
names of their own, which the modules state one by one: `AlarmsSound` of
`TypeOK`, `NoDanglingListener`, `ListedOnceUnlessPaused`, `SortedDescending` and
`NoOrphanedListener`, for instance. Components share variables with none but
those they extend; what a component promises is an action of its users instead
(the alarms of `Schedules` ring as `AlarmClock` promises; a search of `PathTasks`
finds a path or none, as `PathSearch` does).

`CHECK_DEADLOCK FALSE` is there where the system really stops: the runs of
events are bounded in time and in the number of listeners, a path is found and
a picture painted, a program ends.

## Bounds

*Events*: of two listeners one is executed and one is acted upon by callbacks;
one of them is never connected to a callback. In `list_events` the others are
neighbours in the list, for iterators. Two seconds per time event make alarms
due before, at and after the event; four seconds are two events, so that a
repeating alarm is executed and found again. A pause level modulo 2 or 3 (65536
in the code) reaches the wrap-around within a few calls. The times alarms are set
for, the interval and the repeat counts (for ever, once, twice) are chosen so
that alarms coincide, overtake each other and are late after a pause.

*Inventories*: stacks hold two torches or sticks but one arrow, so that three
torches do not fit into one slot, and two arrows do not either; two items of a
shared kind are enough to be in two slots at once. The pack has two slots, the
belt one for equipment, the chest grows by up to one.

*Path finding tasks*: with three characters for two slots the pool is full for
one of them and slots are used again; a character is stuck for two frames instead
of five, goes around once instead of ten times, and paths have one node or none
ahead: counters run out within a few frames.

*Schedules*: delays of one to three seconds are due before, at and after a time
event; three alarms occur when a game is loaded twice.

*Game*: a view, a bubble and two dialogs, of which one always slides;
distances of 3 and 5 with a rate of 4 take one and two frames, in which others
come and go. Seven lines with answers that are said once,
again, or on a condition, two answers at a time and three events in the queue:
more than there are answers. A player and another character with one step, three
keys, one path and a ceiling that ends a jump. Six parts of quests and two listeners.

*Structures*: two objects with and without names and three entities; up to three
placements in a tree whose leaves hold one, so that they are split and dropped;
up to two parts per shape; all 4096 maps of 4 by 3 tiles on two levels too far
apart, and those with a step or a hole in each place of a row, so that the goal
can be reached on some only;
all pictures of three boxes out of
fourteen, for both renderers; surfaces of 1 to 3 by 1 or 3 on a grid of 3, of two
objects under two places of a shadow of 3 by 2. A list with a row in it, buttons, a text box, an option and a label
that cannot be selected, in a view that is too small for all; text of up to 4
bytes with characters of 1, 2 and 3. Flats of up to two fields with repeated names, lists in
lists, both byte orders, and one file that breaks off.

*Engine*: two maps, the slots for quick and new saves and one change of each
value are enough for the files of one game to be taken for those of another;
two options with texts that are numbers in and out
of range, no numbers, and contain an entity; three requests for modules, each of
which may fail; two sounds on two channels played three times; two actions, four
keys, a button and an axis with two events in the queue; three images of which
the cache takes two.

What is bounded in a guard has a constant with `Max` in its name.

## Fairness

`FairSpec` of `TimeEvents` assumes that a loop over listeners goes on (it is a
plain loop), that the main loop advances the clock again and again whatever
scripts do in between (the main loop calls `date::update` each cycle), and that
`raise_event` goes on whenever it can again and again: a callback may do many
things but returns. The same holds of each level of nesting in `ListEvents`.
With weaker fairness a script that works for ever would be allowed to stop the
clock; in the code it would hang the game.

`raise_event` does loop if callbacks set alarms for the current second or
earlier again and again, and a walk through a list if callbacks append listeners
again and again. `RaiseEnds` and `AlarmGoesOff` say so: they hold if from some
time on no such alarm is set (`LooksAhead`), no listener appended (`Reappends`).

`FairSpec` of `Characters` has weak fairness of `Update` of `PathTasks`, which is called for
every frame, and strong fairness of a character's next step on its way
(`Advance`): a character that is never in the way of anything gets on. `TaskEnds`
excuses a task that is paused, and characters that fall down, or games that are
loaded, for ever. Of `Schedules` it has the same for the clock as `TimeEvents`,
and lets methods return.

`FairSpec` of `Game` has weak fairness of the loops within a frame
(`Goes` of `Windows`, `FireEvents` and `Proceed` of `Conversations`: handlers
return) and strong fairness of the start of the next frame (`StartFrame`), as the
main loop calls `window_manager::update` in each cycle. `WindowsSettle` excuses
scripts that open and close windows for ever, and `SchedulesResume` a player who
never chooses the answer that ends a conversation.

## Proofs

`TimeEvents_proofs` proves for any number of listeners, factories and pause
levels, any clock and any set of scripts

* `TypeCorrect`: `TypeOK` is invariant, whatever scripts do;

and for scripts that are well behaved (`WellBehaved`: a callback neither pauses
nor deletes its own listener, no level overflows, no factory is cleared while
one of its listeners is paused)

* `NoDangling`, `ListedOnce`, `Sorted`, `NoOrphan`: the four safety invariants,
  and `SoundAlarms`, their conjunction with the types, `AlarmsSound` of the run;
* `PausedSilent`, `NoneOverdue`: the two action properties, and `RightDelivery`,
  their conjunction, `DeliveredWhenDue` of the run.

That scripts have to be well behaved is shown by what is said of pausing in a
callback and of `clear_paused` elsewhere on this page. The invariants are not
inductive by themselves: `listener::~listener` and `listener::resume` go by
`Registered`, not by the list, so `Consistent` relates the two, with the listener
under execution as the exception, and `SweepOK` says what a loop under way may
still meet. `IInv` is the conjunction; it was checked with TLC first.
`ListLemmas` proves what inserting into, removing from and popping off a list
without duplicates does to its elements and its order; that a position to insert
at exists rests on the well-foundedness of the natural numbers. The assumptions
on constants are `FactoryAssumption` and `TimeAssumption`.

`Characters_proofs` proves of `PathTasks`, for any number of characters and slots,
and scripts that are `Careful` (`Careless` is empty), `PathTypes`, `OwnId`,
`HolderCalled` and `EndTold`, and `Agreeing` (`TasksAgree` of
the run) and `AllTold` (`EndsAreTold`): all properties of the run `path_tasks` but
the liveness of `TaskEnds`. The inductive invariant has the parts `Pool` (locked
slots, characters and tasks agree, nothing is beyond the highest slot), the
types, `Waits` (who has a callback in a task holds its id), `Known` (an id that
is held is that of a task that will call its holder) and `Calls` (while a
callback runs, its task is over and no script holds it). The highest slot below
one that is freed exists by the well-foundedness of the natural numbers again.

Of `Schedules` it proves, for any set of activities and any pause levels,
`ScheduleTypes`, `NeverIdle`, `PauseKnown`, `ActivitiesAgree` (`ActivityAgrees` of
the run) and `SingleAlarm` (`OneAlarm`). The invariant adds that an activity that is
being stopped is not running (`StoppedIsOver`): `clear_schedule` would otherwise
take the activity away from a running schedule.

`TimeEvents_proofs` also proves `KeepsAlarmClock` (`ImplementsAlarmClock` of the
run), for scripts that are well behaved: each step of time events is a step of
`AlarmClock` or none, under the mapping that the run checks. `AlarmInv` adds that
every alarm is set for a time in `AlarmTimes`, which the assumption
`AlarmTimesClosed` closes under repetition, and that one without an interval is
not repeated.

`ListEvents_proofs` proves, for any number of listeners, events and nested calls
and for well-behaved scripts, `SoundWalks` and `CompleteWalks` (`WalksSound` and
`WalkComplete` of the run) and `CallersSurvive`. The heart of the invariant is
`WalkInv`, of each walk on the stack by itself: its iterator is in the list, and
whom it has yet to execute or to delete is not behind it. Removing an element
keeps that as long as it is not the one the iterator points to; that it never is
follows from `NestedInv`, since nobody but a walk deletes a listener that is being
executed, and an event nested in its callback finds another repeat count.

`Game_proofs`, `Engine_proofs` and `Resources_proofs` prove the safety properties
of all scenes of `Game` and `Engine`. None of their theorems bounds a constant.

* `CharactersAlwaysAgree` (`CharactersAgree`): pace and movement agree (`Paced`),
  and for those that are moved by directions, heading and movement as well
  (`Directed`); `FrameComesDown` compares the heights of a character before and
  after a frame in the air, on any ground.
* `AnswersAlwaysLead` (`AnswersLead`): the buttons are those that have listeners
  (`Attended`) and stand for what may follow (`Displayed`), also while the
  dialogue is between two texts (`Underway`); what has been said is remembered
  (`Remembered`). `DialogueAssumption` has the form of the dialogues that the
  editor produces.
* `DialogsAlwaysListen` (`DialogsListen`) assumes `Careless = {}`. Windows are stacked
  by type, each with content of its own, and of two that are both going neither
  can have the focus (`Stacked`); the list of listeners holds exactly those of
  content that is on display and can have the focus (`Attentive`); an event that
  is being delivered goes to listeners that are alive (`Delivering`). Without the
  hypothesis it is false, see `FocusBelongsToDialog` [below](#where-texts-and-code-disagree).
* `QuestsAlwaysAgree` (`QuestsAgree`) assumes `CarelessCalls = {}`: no callback saves
  the game. In the middle of climbs hardly anything agrees. What does not is
  what a climb under way has still to come to: a parent whose rule is fulfilled
  but that is not completed has a child that is being announced (`Climbing`),
  and a listener that has not seen the state of a part is ahead of a walk for
  that part (`Informed`, `Ahead`). That uses that rules only ever become true, that
  lists keep their order when listeners come and go (`Enlisted`), and that a
  pattern which matches a name is in one of the three lists in which the name is
  looked up (`MatchesHead`). `Archived` says the same of the saved quests.
* `SoundsAlwaysAgree` (`ChannelsAgree`): who plays, and the sample loaded for it
  (`Led`); what a method in progress relies on (`Called`); counts in the cache
  (`Counted`). It assumes `Brief = {}`: a sample that ends within the call that plays
  it is reported before the sound knows its channel.
* `TypesStayAlive` (`TypesAlive`): what runs was asked for or still has to be cleaned
  up, with all it is built on (`Running`), and a name leads to a manager of its
  module (`Registered`).
* `SavedGamesRestored` (`LoadRestores`): directories hold what was saved (`Filed`,
  `Kept`), the file `meta.data` vouches for that (`Vouched`), and while a game is
  written its directory has no such file but all the others up to where the
  serializers have got (`Writing`). `SavedGamesAssumption` says that serializers
  and maps have files of their own.
* `PlayerAlwaysObeys` (`PlayerObeys`) assumes `Unambiguous` settings and `Flips = FALSE`:
  an axis passes the middle on its way from one end to the other. What is heard is
  behind what the hands do by what is in the queue: the last event about a
  control tells whether it is held (`HandsKnown`), and the events about an axis
  lead, without a jump from side to side, from a position that the table shows
  to where the axis is (`Shows`, `Leads`). Without the second hypothesis it is false:
  the direction that was left at once stays pushed.

* `SpritesAlwaysAgree` (`CacheAgrees`), in `Resources_proofs`: the count of an image
  is the number of places that hold it (`References`, `UsersOfImage`); the memory the
  cache counts is that of its images, and no image without users is left in a
  cache that is full (`Tidied`); and a sprite shows a frame that there is, its
  listener waiting just while it plays (`FollowedSprites`). It assumes `ImagesFit`
  (the counter of memory, an unsigned integer, has room for all images at once:
  it would wrap around, and the purge stop, otherwise) and `AnimationsGoOn` (no frame
  of an animation of several has the delay 0, which means that it stays: the
  sprite would count as playing with its listener paused). `MCEngine` assumes both.
* `SettingsAlwaysKept` (`SettingsKept`), in `Resources_proofs`: options have values of
  their kind (`KeptOptions`), those whose range was set a number in it (`InRange`),
  comments are in their places in the file that was read (`Placed`), and before the
  program runs there are no options to write. `ConfigurationAssumption` says that a
  number is read as it was written, which is all `validate` uses of the conversions.

Loading and clearing a sprite, adding up memory, purging the cache and reading
and writing the options are folds. What the library defines by `CHOOSE` of a
function on sets is shown to exist in `ListLemmas` (`FoldGoesOn`), and to be the last
of a sequence of states, each the step of the one before (`FoldRuns`); both rest
on the well-foundedness of the natural numbers, in the form `StepByStep`, which
takes a set in place of a predicate. With it an invariant of the step is one of
the fold.

`Inventories_proofs` proves, for any slots, items, stack limits, inventories and
recipes, all properties of the run `inventories`: `NothingIsLost` (`NothingLost`),
`SlotsAlwaysAgree` (`SlotsAgree`), `AlwaysAddedInFull` (`AddedInFull`) and
`AddAlwaysReturns` (`AddReturns`). They assume `Careful`: none of `Greedy`,
`BigStacks`, `Peeking`, `Swaps` and `Crowded`, each of which has a counterexample
(see [above](#itemslots-and-inventories)), and `RecipesFit`, which `MCInventories`
has TLC evaluate. The inductive invariant is `IInv` (`AlwaysInOrder`), whose core `Fits`
says of a heap, the hand, what is alive, what was made and the slots in use:

* `Good`: every slot is the end of a chain of items, from the topmost down, as long
  as its count, of one kind, all of which and no others know the slot (`Chain`,
  `Filed`); it has an item just if it counts one, and no more than its limit;
* `EmptyOutside`: slots that no inventory has are empty, so that a new slot is;
* `Living`: deleted items are in no slot, and nothing is below them;
* `Held`: the hand has a shared item that is in no slot, a chain of mutable ones
  (`Loose`), or nothing, and no other item that is alive is outside the slots;
* `Numbers`: of each kind, what the slots count and the hand has is what was made.

`NothingLost` by itself is not inductive, as the counts of slots say nothing of
the pointers that `slot::remove` follows. The operators of `ItemSlots` are each shown
to keep heaps `Good` and to move an amount from one slot to another (`Moved`);
`inventory::add` is a run of such moves, which together are a `Flow` into its slots,
and `inventory::combine` a run of turns, each of which is between a heap before
and one after n combinations (`Mid`). `AddReturns` rests on a new slot being empty
and the source having what was asked for (`Source`), which is where `Greedy`
breaks it; `AddedInFull` on the item that is passed on being still where it came
from, which is where `BigStacks` does. That a pointer chain ends and what is
below an item is defined by recursion over the mutable items; the iteration
lemmas at the beginning of the module get by with induction on a set of numbers.

Only model-checked: all liveness properties, as fairness and `ENABLED` are beyond
the prover, and all of `MCStructures`, whose components are recursive operators over trees, records and
pixels (`Chunks`, `PathSearch`, `Widgets`, `DiskFiles`, `Flat`): the prover has no backend
for arithmetic in a module that reaches one, and what they compute for every
input needs induction over data.

## Where texts and code disagree

Four runs show findings, of which `PROJECT.json` quotes the texts. Others can be
reproduced by a change of the `.cfg` named:

| Text | Change | What happens |
|---|---|---|
| `event/listener.h`: a paused listener is "temporarily disabled" | `MCTimeEvents`: `SelfOps <- PausingSelfOps` | a listener paused in its own callback is put back and executed; `DeliveredWhenDue` fails |
| `rpg/inventory.h`: the number of items that did not fit is returned | `MCInventories`: `Greedy = TRUE` | asked for more than there is, `add` appends slots for ever; `AddReturns` fails |
| `base/diskio.h`: "true on successful loading, false otherwise" | `MCStructures`: `Scenes = {"files"}`, `INVARIANT MissingIsRefused` | an XML file that does not exist is loaded |
| `main/adonthell.h`: no module is initialised more than once | `MCEngine`: `Scenes = {"application"}`, `INVARIANT InitOnce` | a later request initialises those it does not name again |
| `audio/sound.cc`: "Only issue callbacks for sounds that end on their own" | `MCEngine`: `Scenes = {"sounds"}`, `INVARIANT OwnEndOnly` | a sound that was halted is reported all the same |
| `world/area_manager.h`: "This will save the state of the current map (if any)" | `MCEngine`: `Scenes = {"games"}`, `PROPERTY MapsRemembered` | the map is saved under the name of the directory, which cannot be written, and is lost |
| `gui/window.h:49` and `window_manager.h:51`, `62`: a new window is put above those of the same type (as the comment at `window_manager.cc:164` has it) | `MCGame`: `Scenes = {"windows"}`, `PROPERTY OpensOnTop` | `>` puts it behind them |
| `gui/window.h:69`: of the dialogs, "the topmost of those has the input focus" | `MCGame`: `Scenes = {"windows"}`, `INVARIANT TopmostHasFocus` | the second dialog is opened behind the first, and its layout hears the input first |
| the same | `MCGame`: `Scenes = {"windows"}`, `Careless = {"close"}`, `INVARIANT FocusBelongsToDialog` | a dialog that is closing gets it, and keeps it when it has gone |
| `event/factory.cc`: "Do not delete listeners directly, because we might be in a callback" | `MCGame`: `Scenes = {"conversation"}`, `INVARIANT NotTouched` | a listener whose callback replaces the answers is deleted by that and used afterwards |
| `world/move_event.h`: "enters or exits" | `MCGame`: `Scenes = {"moving"}`, `PROPERTY MovesReported` | a listener that asks for both hears of one |

In `MCListEvents`, "raise_spent" among the `Ops` lets a callback that is executed
for the last time raise the same event: its listener is deleted under it, and
`WalksSound` fails.

## What is not modelled

See the components in `PROJECT.json`. Labels, fonts and decorations, the view of
the map, decoding of images and sound, and logging are output or conversions
without a protocol of their own. The narrow collision test solves equations in
floating point numbers, which TLC does not have. Factions and the log book are
tables. The bindings to Python are in every model as what scripts may do.

Of the parts that are modelled these are left out:

* events: saving and loading of factories (a listener that fails to load leaves
  those before it behind), lookup by id, the calendar, a factory that is deleted
  by the callback of one of its own listeners;
* items: queries, definitions of equipment slots, modifiers; a Python class of
  an item is its recipes and flags; the error paths of `inventory::combine` (a
  result that does not fit into the temporary slot, a target that can only
  sometimes be combined);
* path finding tasks: positions, goals, the search itself; after a detour the
  goal is the node of the detour, which the model cannot tell;
* schedules: `clear_schedule` called by a script (a running schedule is then left
  without an activity until its alarm), activities whose `stop` or `run` queues
  another one (which follows only after the one the manager chooses), hours of
  absolute alarms, a game that cannot be loaded;
* windows and widgets: drawing; removing a child ahead of the selected one; a
  distance that is a multiple of the rate, which slides in for ever;
* dialogues: reloading a script, macros in lines, the history;
* moving characters: triangles of the ground; shapes and shadows;
* files: floating point numbers, blobs, hexadecimal text, files edited by hand;
* devices: `Flips` (from one end of an axis to the other at once leaves the first
  direction pushed), the text of keys;
* sounds: the order in which processors make writes visible, and `Brief`
  samples, which end within the call that plays them;
* saved games: `FindsSaves` is TRUE: if the path of the configuration does not end
  in a slash, the saved games in it are not found.

The constants `Careless`, `Greedy`, `BigStacks`, `Peeking`, `Swaps`, `Crowded`,
`Unclosed`, `Hosted`, `Flips` and `Brief` name what scripts or the player may do
that the code does not cope with; the passing runs have none of it. Their
comments say what goes wrong.

## Plan

Done: everything in the table of modules. Left:

1. Saving and loading of factories and event types, composed with saved games.
2. Pure functions over bounded inputs: the calendar and absolute alarms, the
   index of the log book, the definitions of equipment slots.
