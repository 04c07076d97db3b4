----------------------------- MODULE SavedGames -----------------------------
(***************************************************************************)
(* Saved games (src/base/savegame.cc), the search path their files are     *)
(* found in (paths.cc), and the area manager (src/world/area_manager.cc),  *)
(* which switches maps and is the last of the serializers.                 *)
(*                                                                         *)
(* A saved game is a directory with a file for each serializer, one for    *)
(* the active map, and meta.data, written last. Files that are not in the  *)
(* directory the game was loaded from are those the game comes with.       *)
(* Saving takes several steps: the program can end between any two, and in *)
(* any of them. There are always records for the automatic and the quick   *)
(* save, whether or not meta.data is in their directories, and load does   *)
(* not look for it.                                                        *)
(***************************************************************************)
EXTENDS Integers, Sequences, FiniteSets, Functions

CONSTANTS
  Plain,       \* serializers registered before the area manager, in order
  Map,         \* the maps of the game
  StartMap,    \* where it begins
  UserDirs,    \* names of new directories, in order
  MaxVersion,  \* bound on what is played
  MaxTainted,  \* bound on the maps that are left in one game
  MaxEnds,     \* bound on how often the program ends
  SaveSlots,   \* the slots games are saved to
  FindsSaves,  \* whether the path of the configuration ends in a slash
  None

Dirs == {"auto", "quick"} \cup Range (UserDirs)
File == Range (Plain) \cup Map \cup {"world.data", "meta.data"}

\* data: what each plain serializer keeps; area: the active map, what is in it,
\* and the tainted maps; loaded: the directory of the last load that succeeded
\* with nothing done since, to the game or in the directory.
World == [data : [Range (Plain) -> 0 .. MaxVersion], area : Map \cup {None},
          content : 0 .. MaxVersion, tainted : SUBSET Map, loaded : Dirs \cup {None}]

\* What a directory holds: a number for each file, and in world.data what the
\* area manager keeps (no area if it is torn).
WorldFile == [area : Map \cup {None}, tainted : SUBSET Map]
Folder (files) == [files -> (-1 .. MaxVersion) \cup WorldFile]

\* The record for a new game has no directory.
NoDirectory == ""

\* Serializers and maps have files of their own, new directories new names.
SavedGamesAssumption ==
  /\ Plain \in Seq (STRING) /\ Range (Plain) \cap (Map \cup {"world.data", "meta.data"}) = {}
  /\ StartMap \in Map /\ "world.data" \notin Map /\ "meta.data" \notin Map
  /\ UserDirs \in Seq (STRING) /\ Range (UserDirs) \cap {"auto", "quick", NoDirectory} = {} /\ MaxVersion \in Nat
  /\ MaxTainted \in Nat /\ MaxEnds \in Nat /\ FindsSaves \in BOOLEAN /\ SaveSlots \subseteq Int
  /\ None \notin Map \cup Dirs \cup World /\ \A files \in SUBSET File : None \notin Folder (files)

VARIABLES
  disk,        \* the files in each directory, None if there is no directory
  games,       \* Games: directories, with the address of the record
  slot,        \* CurrentSlot
  search,      \* SaveDataDir, or None
  world,       \* the running game, see World
  saving,      \* what save is at, see Saving
  saved,       \* history: the game save wrote in each directory, until it is removed
  torn,        \* history: directories whose old files were removed in part only
  ends         \* how often the program has ended

programVars == <<games, slot, search, world, saving>>
historyVars == <<saved, torn>>
vars == <<disk, ends, historyVars, programVars>>

\* The steps: the files of the plain serializers and the map; world.data, with
\* the map written or lost; meta.data; or a file could not be written.
Saving == [step : {"idle", "files", "world", "lost", "meta", "failed"}, dir : Dirs \cup {None},
           slot : Int, todo : Seq (STRING)]

Idle == [step |-> "idle", dir |-> None, slot |-> 0, todo |-> <<>>]

\* The special slots. Slots are positions in games.
NEW_SAVE == -4
INITIAL_SAVE == -3
SPECIAL_SLOT_COUNT == 3

InRange (s) == s # NEW_SAVE /\ s + SPECIAL_SLOT_COUNT \in 0 .. Len (games) - 1

\* savegame::get
Get (s) == games[s + SPECIAL_SLOT_COUNT + 1].dir

\* savegame::current_path. After saving to NEW_SAVE that is the current slot,
\* and what is read before the first record may be anything: some directory's
\* name or none, or the program ends there, as it may anywhere (Restart).
CurrentPath == IF InRange (slot) THEN {Get (slot)} ELSE Dirs \cup {NoDirectory}

-----------------------------------------------------------------------------
(* Files. What a file says is a number, 0 in the game as it comes; Torn if *)
(* it has not been written completely, which whoever reads it finds out.   *)

Torn == -1
TornWorld == [area |-> None, tainted |-> {}]

Exists (d) == d \in Dirs /\ disk[d] # None

Has (d, f) == Exists (d) /\ f \in DOMAIN disk[d]

Write (d, f, x) == [disk EXCEPT ![d] = [g \in DOMAIN @ \cup {f} |-> IF g = f THEN x ELSE @[g]]]

WriteTorn (d, f) == Write (d, f, IF f = "world.data" THEN TornWorld ELSE Torn)

Initial (f) == IF f = "world.data" THEN [area |-> StartMap, tainted |-> {}] ELSE 0

\* paths::find_in_path: the file in the directory of the saved game, if it has it.
FindInPath (d, f) == IF Has (d, f) THEN disk[d][f] ELSE Initial (f)

Readable (d, f) == IF f = "world.data" THEN FindInPath (d, f).area # None ELSE FindInPath (d, f) # Torn

\* paths::set_save_dir
SaveDir (d) == IF Exists (d) THEN d ELSE None

-----------------------------------------------------------------------------
(* The list of games *)

Address == 1 .. Len (UserDirs)

User (s) == SubSeq (s, SPECIAL_SLOT_COUNT + 1, Len (s))
Special (s) == SubSeq (s, 1, SPECIAL_SLOT_COUNT)

\* std::sort of pointers, by address: the one sequence of the records R, or none.
Ordered (R) ==
  {u \in UNION {[1 .. n -> R] : n \in 0 .. Len (UserDirs)} :
     Range (u) = R /\ \A i, j \in DOMAIN u : i < j => u[i].at < u[j].at}

Sorted (s) == {Special (s) \o u : u \in Ordered (Range (User (s)))}

\* savegame::load_meta_data: there is a directory, and meta.data can be read.
Valid (d) == Has (d, "meta.data") /\ disk[d]["meta.data"] # Torn

\* Mutation: init lists directories without a look at meta.data.
ListedAny == {d \in Range (UserDirs) : FindsSaves /\ Exists (d)}

\* Directories savegame::init adds to the list; it has records for the other
\* two in any case. (The others end in "-auto-save" and so on.)
Listed == {d \in Range (UserDirs) : FindsSaves /\ Valid (d)}

SpecialGames == <<[dir |-> NoDirectory, at |-> 0], [dir |-> "auto", at |-> 0], [dir |-> "quick", at |-> 0]>>

\* savegame::init, for records at some addresses.
Games (at) == {SpecialGames \o u : u \in Ordered ({[dir |-> d, at |-> at[d]] : d \in DOMAIN at})}

NoGame == [data |-> [s \in Range (Plain) |-> 0], area |-> None, content |-> 0, tainted |-> {}, loaded |-> None]

Init ==
  /\ disk = [d \in Dirs |-> None] /\ saved = [d \in Dirs |-> None] /\ torn = {} /\ ends = 0
  /\ games = SpecialGames /\ slot = INITIAL_SAVE /\ search = None
  /\ world = NoGame /\ saving = Idle

\* The program ends, and is started again.
Restarted ==
  /\ ends < MaxEnds /\ ends' = ends + 1
  /\ \E at \in Injection (Listed', Address) : games' \in Games (at)
  /\ slot' = INITIAL_SAVE /\ search' = None /\ world' = NoGame /\ saving' = Idle

Restart == UNCHANGED <<disk, historyVars>> /\ Restarted

-----------------------------------------------------------------------------
(* savegame::load: the serializers in turn, up to the first that fails.     *)

Searched (d) == SaveDir (d)

\* The first serializer whose file cannot be read, or one past the last.
Failing (d) ==
  LET bad == {i \in DOMAIN Plain : ~ Readable (d, Plain[i])}
  IN IF bad = {} THEN Len (Plain) + 1 ELSE CHOOSE i \in bad : \A k \in bad : i <= k

\* The area that set_active_map loads; area::load may fail, and leaves it empty.
Content (d, m) == IF FindInPath (d, m) = Torn THEN 0 ELSE FindInPath (d, m)

\* area_manager::load, which clears the maps first.
LoadTainted (d, file) == file.tainted

Load (s) ==
  /\ saving.step = "idle" /\ InRange (s)
  /\ LET d == Searched (Get (s))
         n == Failing (d)
         data == [p \in Range (Plain) |->
                   IF \E i \in 1 .. n - 1 : Plain[i] = p THEN FindInPath (d, p)
                   ELSE IF n <= Len (Plain) /\ Plain[n] = p THEN 0 ELSE world.data[p]]
         file == FindInPath (d, "world.data")
     IN /\ search' = d
        /\ IF n <= Len (Plain) THEN world' = [world EXCEPT !.data = data, !.loaded = None] /\ UNCHANGED slot
           ELSE IF ~ Readable (d, "world.data")
           THEN world' = [NoGame EXCEPT !.data = data] /\ UNCHANGED slot
           ELSE /\ world' = [data |-> data, area |-> file.area, content |-> Content (d, file.area),
                             tainted |-> LoadTainted (d, file),
                             loaded |-> IF Get (s) \in Dirs THEN Get (s) ELSE None]
                /\ slot' = s
  /\ UNCHANGED <<disk, ends, historyVars, games, saving>>

-----------------------------------------------------------------------------
(* The game *)

\* Scripts run, and everything changes.
Play ==
  /\ saving.step = "idle" /\ world.area # None
  /\ \A p \in Range (Plain) : world.data[p] < MaxVersion
  /\ world' = [world EXCEPT !.data = [p \in DOMAIN @ |-> @[p] + 1], !.content = MaxVersion - @, !.loaded = None]
  /\ UNCHANGED <<disk, ends, historyVars, games, slot, search, saving>>

\* area_manager::set_active_map of a script. The map that is left is saved
\* under the name of the directory, which cannot be written.
SetActiveMap (m) ==
  /\ saving.step = "idle" /\ world.area \notin {None, m}
  /\ Cardinality (world.tainted \cup {world.area}) <= MaxTainted
  /\ world' = [world EXCEPT !.area = m, !.content = Content (search, m),
                            !.tainted = @ \cup {world.area}, !.loaded = None]
  /\ UNCHANGED <<disk, ends, historyVars, games, slot, search, saving>>

-----------------------------------------------------------------------------
(* savegame::save *)

Unused == {i \in DOMAIN UserDirs : ~ Exists (UserDirs[i])}
FirstUnused == UserDirs[CHOOSE i \in Unused : \A k \in Unused : i <= k]

Directory (s) == IF InRange (s) THEN Get (s) ELSE FirstUnused

\* A record for a new directory, or that of the slot; then the files in the
\* directory are removed, or it is created (savegame::cleanup).
BeginSave (s) ==
  /\ saving.step = "idle" /\ s # INITIAL_SAVE
  /\ IF InRange (s) THEN games' = games
     ELSE /\ Unused # {}
          /\ \E at \in Address :
               /\ \A i \in DOMAIN games : games[i].at # at
               /\ games' = Append (games, [dir |-> FirstUnused, at |-> at])
  /\ LET d == Directory (s)
     IN /\ saving' = [step |-> "files", dir |-> d, slot |-> s, todo |-> Plain]
        /\ disk' = [disk EXCEPT ![d] = <<>>]
        /\ saved' = [saved EXCEPT ![d] = None] /\ torn' = torn \ {d}
        /\ world' = [world EXCEPT !.loaded = IF @ = d THEN None ELSE @]
  /\ UNCHANGED <<slot, search, ends>>

\* The program ends while the files in a directory are removed, in the order
\* readdir finds them: here after the first.
CrashInCleanup (d) ==
  /\ \/ saving.step = "idle" /\ \E s \in SaveSlots \ {INITIAL_SAVE} : InRange (s) /\ d = Get (s)
     \/ saving.step = "failed" /\ d = saving.dir
  /\ Exists (d)
  /\ \E f \in DOMAIN disk[d] : disk' = [disk EXCEPT ![d] = [g \in DOMAIN @ \ {f} |-> @[g]]]
  /\ saved' = [saved EXCEPT ![d] = None]
  /\ torn' = IF saving.step = "idle" THEN torn \cup {d} ELSE torn
  /\ Restarted

\* A serializer writes its file; the last one is the area manager.
WriteFile ==
  /\ saving.step = "files" /\ saving.todo # <<>>
  /\ disk' = Write (saving.dir, Head (saving.todo), world.data[Head (saving.todo)])
  /\ saving' = [saving EXCEPT !.todo = Tail (@)]
  /\ UNCHANGED <<games, slot, search, world, ends, historyVars>>

\* copy_tainted_maps: without a slash after the directory there are no files
\* to copy, and those it makes are elsewhere.
CopyTaintedMaps (source, target) == disk[target]

\* area_manager::save: the active map.
WriteMap ==
  /\ saving.step = "files" /\ saving.todo = <<>> /\ world.area # None
  /\ \E path \in CurrentPath :
       LET d == saving.dir
           copied == IF d # path THEN CopyTaintedMaps (path, d) ELSE disk[d]
       IN disk' = [disk EXCEPT ![d] = [g \in DOMAIN copied \cup {world.area} |->
                    IF g = world.area THEN world.content ELSE copied[g]]]
  /\ saving' = [saving EXCEPT !.step = "world"]
  /\ UNCHANGED <<games, slot, search, world, ends, historyVars>>

\* Then its own file, also if the map was not written.
WriteWorld ==
  /\ saving.step \in {"world", "lost"}
  /\ disk' = Write (saving.dir, "world.data", [area |-> world.area, tainted |-> world.tainted])
  /\ saving' = [saving EXCEPT !.step = IF @ = "world" THEN "meta" ELSE "failed"]
  /\ UNCHANGED <<games, slot, search, world, ends, historyVars>>

\* The file that save is at: of a serializer, the map (none, if no map is
\* active), world.data, or meta.data.
NextFile ==
  IF saving.step = "files" THEN (IF saving.todo # <<>> THEN Head (saving.todo) ELSE world.area)
  ELSE IF saving.step = "meta" THEN "meta.data" ELSE "world.data"

\* A file cannot be written, or no map is active.
WriteFails ==
  /\ saving.step \in {"files", "world", "lost"}
  /\ disk' \in {disk} \cup (IF NextFile # None THEN {WriteTorn (saving.dir, NextFile)} ELSE {})
  /\ saving' = [saving EXCEPT !.step =
       IF @ = "files" /\ saving.todo = <<>> /\ world.area # None THEN "lost" ELSE "failed"]
  /\ UNCHANGED <<games, slot, search, world, ends, historyVars>>

\* Save returns false: the directory is cleaned up again, and the record stays.
GiveUp ==
  /\ saving.step = "failed"
  /\ saving' = Idle /\ disk' = [disk EXCEPT ![saving.dir] = <<>>]
  /\ UNCHANGED <<games, slot, search, world, ends, historyVars>>

\* The program ends while a file is written.
CrashInWrite ==
  /\ saving.step \in {"files", "world", "lost", "meta"} /\ NextFile # None
  /\ disk' = WriteTorn (saving.dir, NextFile)
  /\ Restarted /\ UNCHANGED historyVars

\* meta.data, and nobody asks whether it could be written; the games are sorted,
\* and the slot is what was asked for.
WriteMeta ==
  /\ saving.step = "meta"
  /\ disk' \in {Write (saving.dir, "meta.data", 0), WriteTorn (saving.dir, "meta.data"), disk}
  /\ saved' = [saved EXCEPT ![saving.dir] = [world EXCEPT !.loaded = saving.dir]]
  /\ games' \in Sorted (games) /\ slot' = saving.slot
  /\ saving' = Idle
  /\ UNCHANGED <<search, world, torn, ends>>

Next ==
  \/ Restart \/ CrashInWrite \/ Play
  \/ \E s \in -3 .. Len (UserDirs) : Load (s)
  \/ \E s \in SaveSlots : BeginSave (s)
  \/ \E d \in Dirs : CrashInCleanup (d)
  \/ \E m \in Map : SetActiveMap (m)
  \/ WriteFile \/ WriteMap \/ WriteWorld \/ WriteFails \/ GiveUp \/ WriteMeta

Spec == Init /\ [][Next]_vars

-----------------------------------------------------------------------------
(* Properties. *)

\* The state is well typed, and a saved game has no other files than its own.
TypeOK ==
  /\ \A d \in Dirs : disk[d] # None => DOMAIN disk[d] \subseteq File
  /\ world \in World /\ saving \in Saving
  /\ search \in Dirs \cup {None}

\* A new game, or a record whose directory was cleaned up.
NewGame (d) == [data |-> [p \in Range (Plain) |-> 0], area |-> StartMap, content |-> 0, tainted |-> {}, loaded |-> d]

\* A game as a load brings it back: the one that save wrote there, or a new one;
\* never some of its files and others those of a new game.
IsAGame (w) == w = saved[w.loaded] \/ w = NewGame (w.loaded)

\* Loading what counts as a saved game, or anything from a record for one of the
\* user's directories, brings back a game: what every serializer keeps, the
\* active map as it was, and the tainted maps. A directory that counts as one
\* has the game that was saved last. (Not if the program ended while the files
\* of an older game were removed, meta.data not first.)
LoadRestores ==
  world.loaded \notin torn \cup {None} =>
    /\ Valid (world.loaded) => world = saved[world.loaded]
    /\ world.loaded \in Range (UserDirs) => IsAGame (world)

\* A directory with meta.data holds the whole of one game: meta.data vouches for
\* all the files that were written before it, however often the program ends in
\* between, or in one of them. (But for the same exception.)
ValidIsComplete ==
  \A d \in Dirs : Valid (d) /\ d \notin torn =>
    /\ saved[d] # None
    /\ \A p \in Range (Plain) : Has (d, p) /\ disk[d][p] = saved[d].data[p]
    /\ Has (d, "world.data") /\ disk[d]["world.data"].area = saved[d].area
    /\ Has (d, saved[d].area) /\ disk[d][saved[d].area] = saved[d].content

-----------------------------------------------------------------------------
(* What texts of the repository say and the code does not do.              *)

\* "finally save meta data, making the saved game valid" (savegame.cc): what
\* save had not finished does not load.
HalfSavedRefused ==
  world.loaded # None => IsAGame (world)

\* "The slot is updated every time a game has been loaded or saved
\* successfully" (savegame.h): there is a path to the game that is played.
PathKnown == InRange (slot)

\* "return true on success, false otherwise" (savegame.h): when save returns
\* true, meta.data was written.
SuccessIsValid ==
  [][saving.step = "meta" /\ saving' = Idle /\ slot' = saving.slot => Valid (saving.dir)']_vars

\* "This will save the state of the current map (if any)": a map that is left
\* for another one and entered again is as it was left.
MapsRemembered ==
  [][world.area # None /\ world'.area \notin {None, world.area} /\ world.content > 0
       /\ saving.step = "idle" /\ world'.loaded = None /\ InRange (slot)
       => \A path \in CurrentPath : Exists (path) =>
            world.area \in DOMAIN disk'[path] /\ disk'[path][world.area] = world.content]_vars
=============================================================================
