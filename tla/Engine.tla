------------------------------- MODULE Engine --------------------------------
(***************************************************************************)
(* The engine below the game: saved games, the configuration, the start    *)
(* and end of the program, sounds, the keyboard and joysticks, and sprites *)
(* with their images. Each is run by itself, on variables of its own;      *)
(* Scenes says which are.                                                  *)
(***************************************************************************)
EXTENDS Integers, Sequences

CONSTANTS
  Plain, Map, StartMap, UserDirs, MaxVersion, MaxTainted, MaxEnds, SaveSlots, FindsSaves,  \* see SavedGames
  Options, Values, Given, Number, NaN, Pieces, NumberText, Ranges, Labels,
  Comments, FirstFiles,  \* see Configuration
  Requests, Hosted, MaxCalls,  \* see Application
  Sounds, SoundFiles, Channels, Brief, Gone, MaxPlays,  \* see Sounds
  Scancode, KeyTrans, Button, Axis, Fore, Back, CapsLock, Actions, Default,
  Configs, MaxQueue, Flips,  \* see InputDevices
  ImageOrder, Size, CacheSize, WordSize, Model, ShapeOrder, Anims,
  SpriteFiles, Second, Pinned, MaxPins, Glyph, GlyphFore, GlyphBack,  \* see Sprites
  None,
  Scenes       \* the components to be run

VARIABLES
  disk, games, slot, search, world, saving, saved, torn, ends,
  options, file, stage, ranged, session,
  state, Modules, todo, up, managers, alive, Types, NamedTypes, serializers,
  calls, answer, starts,
  st, m_sample, refcount, mixer, call, plays, own, events,
  config, mapping, held, axis, queue, table, heard,
  cache, pins, model, glyphs, uncharged,
  scene        \* the component that is run

S == INSTANCE SavedGames
C == INSTANCE Configuration WITH Keys <- Options, Text <- NumberText, phase <-
       stage
A == INSTANCE Application WITH NoManager <- None, phase <- state
M == INSTANCE Sounds WITH Files <- SoundFiles
I == INSTANCE InputDevices
G == INSTANCE Sprites WITH Files <- SpriteFiles

savedGamesVars == <<disk, games, slot, search, world, saving, saved, torn, ends>>
configurationVars == <<options, file, stage, ranged, session>>
applicationVars == <<state, Modules, todo, up, managers, alive, Types,
  NamedTypes, serializers, calls, answer, starts>>
soundsVars == <<st, m_sample, refcount, mixer, call, plays, own, events>>
inputDevicesVars == <<config, mapping, held, axis, queue, table, heard>>
spritesVars == <<cache, pins, model, glyphs, uncharged>>
vars == <<scene, savedGamesVars, configurationVars, applicationVars,
  soundsVars, inputDevicesVars, spritesVars>>

ASSUME SavedGamesAssumption == S!SavedGamesAssumption
ASSUME ConfigurationAssumption == C!ConfigurationAssumption
ASSUME ApplicationAssumption == A!ApplicationAssumption
ASSUME SoundsAssumption == M!SoundsAssumption
ASSUME InputDevicesAssumption == I!InputDevicesAssumption
ASSUME SpritesAssumption == G!SpritesAssumption
ASSUME SurfaceCacheAssumption == G!SurfaceCacheAssumption
ASSUME GlyphsAssumption == G!GlyphsAssumption

-----------------------------------------------------------------------------
\* The variables of a component that is not run have no value.
NoSavedGames == disk = None /\ games = None /\ slot = None /\ search = None
  /\ world = None /\ saving = None /\ saved = None /\ torn = None /\ ends = None
NoConfiguration == options = None /\ file = None /\ stage = None
  /\ ranged = None /\ session = None
NoApplication == state = None /\ Modules = None /\ todo = None /\ up = None
  /\ managers = None /\ alive = None /\ Types = None /\ NamedTypes = None
  /\ serializers = None /\ calls = None /\ answer = None /\ starts = None
NoSounds == st = None /\ m_sample = None /\ refcount = None /\ mixer = None
  /\ call = None /\ plays = None /\ own = None /\ events = None
NoInputDevices == config = None /\ mapping = None /\ held = None
  /\ axis = None /\ queue = None /\ table = None /\ heard = None
NoSprites == cache = None /\ pins = None /\ model = None /\ glyphs = None /\ uncharged = None

Init ==
  /\ scene \in Scenes
  /\ IF scene = "games" THEN S!Init ELSE NoSavedGames
  /\ IF scene = "configuration" THEN C!Init ELSE NoConfiguration
  /\ IF scene = "application" THEN A!Init ELSE NoApplication
  /\ IF scene = "sounds" THEN M!Init ELSE NoSounds
  /\ IF scene = "devices" THEN I!Init ELSE NoInputDevices
  /\ IF scene = "sprites" THEN G!Init ELSE NoSprites

SavedGamesStep == scene = "games" /\ S!Next
  /\ UNCHANGED <<scene, configurationVars, applicationVars, soundsVars,
       inputDevicesVars, spritesVars>>
ConfigurationStep == scene = "configuration" /\ C!Next
  /\ UNCHANGED <<scene, savedGamesVars, applicationVars, soundsVars,
       inputDevicesVars, spritesVars>>
ApplicationStep == scene = "application" /\ A!Next
  /\ UNCHANGED <<scene, savedGamesVars, configurationVars, soundsVars,
       inputDevicesVars, spritesVars>>
SoundsStep == scene = "sounds" /\ M!Next
  /\ UNCHANGED <<scene, savedGamesVars, configurationVars, applicationVars,
       inputDevicesVars, spritesVars>>
InputDevicesStep == scene = "devices" /\ I!Next
  /\ UNCHANGED <<scene, savedGamesVars, configurationVars, applicationVars,
       soundsVars, spritesVars>>
SpritesStep == scene = "sprites" /\ G!Next
  /\ UNCHANGED <<scene, savedGamesVars, configurationVars, applicationVars,
       soundsVars, inputDevicesVars>>

Next == SavedGamesStep \/ ConfigurationStep \/ ApplicationStep \/ SoundsStep
  \/ InputDevicesStep \/ SpritesStep

Spec == Init /\ [][Next]_vars

-----------------------------------------------------------------------------
(* Properties. *)

\* Whatever was played, saved over, interrupted and loaded before, a directory
\* that counts as a saved game has all the files of the game that was saved last
\* in it, which is what a load brings back; and nothing else that a record for
\* one of the user's directories leads to is a mixture of games.
LoadRestores ==
  scene = "games" =>
    /\ S!TypeOK
    /\ S!LoadRestores
    /\ S!ValidIsComplete

\* A value in use is in the range of its option and is what its label stands
\* for, comments stay with the option they were written before, and a start
\* that fails before the file was read does not write over it.
SettingsKept ==
  /\ [](scene = "configuration" => C!SettingsValid /\ C!CommentsInPlace)
  /\ C!NotOverridden

\* Whichever parts of the engine are asked for, fail to start and are ended,
\* a part runs only on those it needs, and an event type that is registered
\* has a manager that exists.
TypesAlive ==
  scene = "application" =>
    /\ A!BuiltOnFoundations
    /\ A!TypesAlive

\* However the ends of samples in the mixer's thread fall between the steps of
\* the game, sounds and channels agree on who plays where, and a file stays
\* loaded just as long as someone uses its sample.
ChannelsAgree ==
  scene = "sounds" =>
    /\ M!ChannelsAgree
    /\ M!SamplesHeld

\* When all events have been delivered, the listeners know just the actions as
\* pushed of which the player holds a key, a button or an axis, and no
\* direction of an axis is left pushed that is at rest.
PlayerObeys ==
  scene = "devices" =>
    /\ I!TypeOK
    /\ I!PlayerObeys
    /\ I!AxisAtRest

\* Each sprite that plays waits for its next frame and shows that of its
\* animation, and the cache of images counts the users of each, and their
\* memory except for that of the glyphs, which it was never told.
CacheAgrees ==
  scene = "sprites" =>
    /\ G!TypeOK
    /\ G!CacheAgrees
    /\ G!ListenersFollow
    /\ G!ShapeIsShown

-----------------------------------------------------------------------------
(* What texts of the repository say and the code does not do: violated by the *)
(* runs the README names.                                                     *)

\* "it will take care to not initialize any module more than once"
\* (adonthell.h).
InitOnce == scene = "application" => A!InitOnce

\* "Only issue callbacks for sounds that end on their own" (sound.cc).
OwnEndOnly == scene = "sounds" => M!OwnEndOnly

\* "return how much memory the cacher is using" (surface_cacher.h).
MemoryKnown == scene = "sprites" => G!MemoryKnown

\* "finally save meta data, making the saved game valid" (savegame.cc): what is
\* left of an interrupted save does not load.
HalfSavedRefused == scene = "games" => S!HalfSavedRefused

\* "The slot is updated every time a game has been loaded or saved
\* successfully" (savegame.h).
PathKnown == scene = "games" => S!PathKnown

\* "return true on success, false otherwise" (savegame.h).
SuccessIsValid == S!SuccessIsValid

\* "This will save the state of the current map (if any)" (area_manager.h).
MapsRemembered == S!MapsRemembered
=============================================================================
