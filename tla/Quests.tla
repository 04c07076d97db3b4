------------------------------- MODULE Quests -------------------------------
(***************************************************************************)
(* Quests (src/rpg/quest.cc, quest_event.cc, quest_event_manager.cc). The  *)
(* parts of a quest are a tree; when one of its leaves, a step, has been   *)
(* completed, completion climbs up the tree as far as it changes anything, *)
(* and every change is announced by an event. Its listeners are called at  *)
(* once, in the middle of the climb: they may complete further steps,      *)
(* register or destroy listeners, or save the game.                        *)
(*                                                                         *)
(* Calls are nested: "stack" holds the climbs under way, innermost last,   *)
(* each with the event it is announcing.                                   *)
(***************************************************************************)
EXTENDS Naturals, Sequences, SequencesExt

CONSTANTS
  Part,        \* the parts of all quests
  Parent,      \* the part each belongs to, None for a quest
  Id,          \* the name of each among its siblings
  Code,        \* alternatives that complete a part, {} if it has no code
  Unclosed,    \* parts whose code ends with a name
  Listener,    \* listeners for quest events
  Pattern,     \* the names each listens for
  Careless,    \* {"save"} if callbacks save the game, else {}
  None

VARIABLES
  started,     \* Started of each part
  completed,   \* Completed of each part
  lists,       \* the listeners for each first element of a name (Events)
  status,      \* of each listener: "new", "listed", "destroyed" or "deleted"
  stack,       \* the climbs under way
  saved,       \* the quests in the saved game
  heard        \* history: what each listener knows about each part

quests == <<started, completed>>
vars == <<quests, lists, status, stack, saved, heard>>

-----------------------------------------------------------------------------
(* Parts and their names. *)

Children (p) == {c \in Part : Parent[c] = p}

FullName[p \in Part] ==
  IF Parent[p] = None THEN <<Id[p]>> ELSE Append (FullName[Parent[p]], Id[p])

\* Parts are a tree: each has a name that begins with that of its quest, which
\* is no wildcard. A rule finds names of children only; listeners have patterns.
QuestAssumption ==
  /\ None \notin Part /\ None \notin Listener
  /\ Parent \in [Part -> Part \cup {None}]
  /\ \A p \in Part : Parent[p] # p
  /\ Code \in [Part -> SUBSET SUBSET Part]
  /\ \A p \in Part : \A alt \in Code[p] : alt # {} /\ alt \subseteq Children (p)
  /\ Unclosed \subseteq Part
  /\ \A p \in Part :
       FullName[p] \in Seq (STRING) \ {<<>>} /\ Head (FullName[p]) \notin {"*", ">"}
  /\ \A l \in Listener : Pattern[l] \in Seq (STRING) \ {<<>>}

\* quest::get_part
PartAt (path) ==
  IF \E p \in Part : FullName[p] = path
  THEN CHOOSE p \in Part : FullName[p] = path
  ELSE None

\* The completion rule. Of code that ends with a name that name is lost; what
\* remains is not an expression, and counts as false.
Rule (p) ==
  IF Code[p] = {} THEN \A c \in Children (p) : completed[c]
  ELSE p \notin Unclosed /\ \E alt \in Code[p] : \A c \in alt : completed[c]

QuestPart == [started : BOOLEAN, completed : BOOLEAN]

State (p) == [started |-> started[p], completed |-> completed[p]]

-----------------------------------------------------------------------------
(* Events and their listeners. *)

\* quest_event::equals. One of two names has a wildcard, or they agree, level
\* by level; ">" stands for all that follows, but not for nothing.
Matches (x, y) ==
  LET common == 1 .. IF Len (x) < Len (y) THEN Len (x) ELSE Len (y)
      Differ (i) == x[i] # y[i] /\ "*" \notin {x[i], y[i]}
      Rest (i) == ">" \in {x[i], y[i]}
  IN \/ \E i \in common : Rest (i) /\ \A j \in common : j < i => ~ Differ (j)
     \/ Len (x) = Len (y) /\ \A i \in common : ~ Differ (i)

\* The lists an event is looked up in: that of the first element of its name,
\* and those of the two wildcards.
Lists (p) == <<Head (FullName[p]), "*", ">">>

Heads == {Head (FullName[p]) : p \in Part} \cup {"*", ">"}

NewClimb (p) == [part |-> p, list |-> 1, at |-> None, calling |-> FALSE]

Climb == [part : Part, list : 1 .. 4, at : Listener \cup {None}, calling : BOOLEAN]

Top == stack[Len (stack)]
Below == SubSeq (stack, 1, Len (stack) - 1)
SetTop (f) == stack' = Append (Below, f)

\* Scripts act between climbs and in callbacks.
Acting == stack # <<>> => Top.calling

Executing == {stack[i].at : i \in DOMAIN stack}

Init ==
  /\ started = [p \in Part |-> FALSE]
  /\ completed = [p \in Part |-> FALSE]
  /\ lists = [h \in Heads |-> <<>>]
  /\ status = [l \in Listener |-> "new"]
  /\ stack = <<>>
  /\ saved = <<started, completed>>
  /\ heard = [l \in Listener |-> [p \in Part |-> State (p)]]

\* factory::add and quest_event_manager::add
Register (l) ==
  /\ Acting /\ status[l] = "new"
  /\ status' = [status EXCEPT ![l] = "listed"]
  /\ lists' = [lists EXCEPT ![Head (Pattern[l])] = Append (@, l)]
  /\ heard' = [heard EXCEPT ![l] = [p \in Part |-> State (p)]]
  /\ UNCHANGED <<quests, stack, saved>>

\* factory::clear; listeners that are being executed are left to ListEvents.
Destroy (l) ==
  /\ Acting /\ status[l] = "listed" /\ l \notin Executing
  /\ status' = [status EXCEPT ![l] = "destroyed"]
  /\ UNCHANGED <<quests, lists, stack, saved, heard>>

-----------------------------------------------------------------------------
(* quest_part::update *)

\* Mutation: a part that had been started before does not tell its parent.
UpdateOnce (p, below) ==
  LET done == completed[p] \/ Rule (p)
  IN /\ started' = [started EXCEPT ![p] = TRUE]
     /\ completed' = [completed EXCEPT ![p] = done]
     /\ stack' = IF started[p] THEN below ELSE Append (below, NewClimb (p))

\* The part is started now, and completed if its rule says so; if that is
\* news it is announced.
UpdatePart (p, below) ==
  LET done == completed[p] \/ Rule (p)
      changed == ~ started[p] \/ done # completed[p]
  IN /\ started' = [started EXCEPT ![p] = TRUE]
     /\ completed' = [completed EXCEPT ![p] = done]
     /\ stack' = IF changed THEN Append (below, NewClimb (p)) ELSE below

\* quest::set_completed; nothing happens unless the path is that of a step.
SetCompleted (path) ==
  LET p == PartAt (path)
  IN /\ Acting
     /\ p # None /\ Children (p) = {}
     /\ UpdatePart (p, stack)
     /\ UNCHANGED <<lists, status, saved, heard>>

-----------------------------------------------------------------------------
(* quest_event_manager::raise_event *)

CurrentList == lists[Lists (Top.part)[Top.list]]

\* The walk meets l next, or is at the end of the list.
Follows (l) ==
  \E i \in DOMAIN CurrentList :
    CurrentList[i] = l /\ IF i = 1 THEN Top.at = None ELSE Top.at = CurrentList[i - 1]

AtEnd == Top.at = IF CurrentList = <<>> THEN None ELSE Last (CurrentList)

Raising == stack # <<>> /\ ~ Top.calling /\ Top.list <= 3

\* A destroyed listener is erased and deleted.
DeleteDestroyed (l) ==
  /\ Raising /\ Follows (l) /\ status[l] = "destroyed"
  /\ status' = [status EXCEPT ![l] = "deleted"]
  /\ lists' = [lists EXCEPT ![Head (Pattern[l])] = RemoveFirst (@, l)]
  /\ UNCHANGED <<quests, stack, saved, heard>>

Skip (l) ==
  /\ Raising /\ Follows (l) /\ status[l] # "destroyed"
  /\ ~ Matches (Pattern[l], FullName[Top.part])
  /\ SetTop ([Top EXCEPT !.at = l])
  /\ UNCHANGED <<quests, lists, status, saved, heard>>

\* The callback sees the part as it is now.
Execute (l) ==
  /\ Raising /\ Follows (l) /\ status[l] # "destroyed"
  /\ Matches (Pattern[l], FullName[Top.part])
  /\ SetTop ([Top EXCEPT !.at = l, !.calling = TRUE])
  /\ heard' = [heard EXCEPT ![l][Top.part] = State (Top.part)]
  /\ UNCHANGED <<quests, lists, status, saved>>

Return ==
  /\ stack # <<>> /\ Top.calling
  /\ SetTop ([Top EXCEPT !.calling = FALSE])
  /\ UNCHANGED <<quests, lists, status, saved, heard>>

NextList ==
  /\ Raising /\ AtEnd
  /\ SetTop ([Top EXCEPT !.list = @ + 1, !.at = None])
  /\ UNCHANGED <<quests, lists, status, saved, heard>>

\* All listeners have been called: the climb goes on.
UpdateParent ==
  /\ stack # <<>> /\ Top.list = 4
  /\ IF Parent[Top.part] = None THEN stack' = Below /\ UNCHANGED quests
     ELSE UpdatePart (Parent[Top.part], Below)
  /\ UNCHANGED <<lists, status, saved, heard>>

Raise ==
  \/ \E l \in Listener : DeleteDestroyed (l) \/ Skip (l) \/ Execute (l)
  \/ NextList \/ UpdateParent

-----------------------------------------------------------------------------
(* quest::save; quest::cleanup and quest::load *)

Save ==
  /\ Acting /\ (stack = <<>> \/ "save" \in Careless)
  /\ saved' = quests
  /\ UNCHANGED <<quests, lists, status, stack, heard>>

\* Listeners are loaded with the game; what they know is what was saved.
Load ==
  /\ stack = <<>>
  /\ started' = saved[1] /\ completed' = saved[2]
  /\ heard' = [l \in Listener |->
                 [p \in Part |-> [started |-> saved[1][p], completed |-> saved[2][p]]]]
  /\ UNCHANGED <<lists, status, stack, saved>>

Script ==
  \/ \E p \in Part : SetCompleted (FullName[p])
  \/ \E l \in Listener : Register (l) \/ Destroy (l)
  \/ Save \/ Load

Next == Script \/ Raise \/ Return

Spec == Init /\ [][Next]_vars

-----------------------------------------------------------------------------
(* Properties. *)

\* All parts of the state have their types.
TypeOK ==
  /\ started \in [Part -> BOOLEAN] /\ completed \in [Part -> BOOLEAN]
  /\ lists \in [Heads -> Seq (Listener)]
  /\ status \in [Listener -> {"new", "listed", "destroyed", "deleted"}]
  /\ stack \in Seq (Climb)
  /\ saved \in [Part -> BOOLEAN] \X [Part -> BOOLEAN]
  /\ heard \in [Listener -> [Part -> QuestPart]]

Composed == {p \in Part : Children (p) # {}}

\* "The state of parent parts is updated accordingly" (quest.h): whatever
\* callbacks complete in the middle of a climb, when the outermost call has
\* returned each part is completed just if its rule says so, and started if
\* one of its parts is; so it is after loading.
RulesAgree ==
  stack = <<>> =>
    /\ \A p \in Composed : completed[p] <=> Rule (p)
    /\ \A p \in Part : started[p] /\ Parent[p] # None => started[Parent[p]]
    /\ \A p \in Part : completed[p] => started[p]

\* The rule as its author wrote it, whether or not its code ends with a name.
Intended (p) ==
  IF Code[p] = {} THEN \A c \in Children (p) : completed[c]
  ELSE \E alt \in Code[p] : \A c \in alt : completed[c]

\* "Set the Python code used to calculate quest completion" (quest.h): a part
\* with code is completed when its code says so.
CodeObeyed == stack = <<>> => \A p \in Composed : completed[p] <=> Intended (p)

\* Nobody is left with an outdated view: events overtake each other when
\* callbacks raise further ones, but when the outermost call has returned
\* every listener has seen the present state of the parts it listens for.
ListenersUpToDate ==
  stack = <<>> =>
    \A l \in Listener, p \in Part :
      status[l] = "listed" /\ Matches (Pattern[l], FullName[p]) => heard[l][p] = State (p)
=============================================================================
