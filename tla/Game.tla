-------------------------------- MODULE Game ---------------------------------
(***************************************************************************)
(* The game as the player meets it: windows with their input,              *)
(* conversations, characters that move, and quests. Each is run by itself, *)
(* on variables of its own; Scenes says which are.                         *)
(***************************************************************************)
EXTENDS Integers, Sequences

CONSTANTS
  Handle, Connects, Content, WindowType, Layout, Far, FadeRate, Fades, Owner,
  Careless,  \* see Windows
  Text, Player, Followers, Conditional, Loop, Listener, MaxOptions, MaxPending,  \* see Conversations
  CharOrder, PlayerCharacter, MaxX, Ground, Ceiling, Step, JumpSpeed, Gravity,
  Slowdown, MinSpeed, Zone, Keys, PathDirs, Walkers, Start,  \* see Moving
  Part, Parent, Id, Code, Unclosed, QuestListener, Pattern, CarelessCalls,  \* see Quests
  None,
  Scenes       \* the components to be run

VARIABLES
  listeners, deleted, delivery, windows, relative, listener, frame,
  line, successors, used, running, options, uiListeners, status, pending,
  firing, finish, said, touched,
  body, stuck, turn, entered,
  started, completed, lists, partStatus, stack, saved, heard,
  scene        \* the component that is run

W == INSTANCE Windows WITH Type <- WindowType
C == INSTANCE Conversations WITH listeners <- uiListeners
M == INSTANCE Moving WITH Player <- PlayerCharacter
Q == INSTANCE Quests WITH Listener <- QuestListener, Careless <-
       CarelessCalls, status <- partStatus

windowsVars == <<listeners, deleted, delivery, windows, relative, listener,
  frame>>
conversationsVars == <<line, successors, used, running, options, uiListeners,
  status, pending, firing, finish, said, touched>>
movingVars == <<body, stuck, turn, entered>>
questsVars == <<started, completed, lists, partStatus, stack, saved, heard>>
vars == <<scene, windowsVars, conversationsVars, movingVars, questsVars>>

ASSUME WindowsAssumption == W!WindowsAssumption
ASSUME DialogueAssumption == C!DialogueAssumption
ASSUME MovingAssumption == M!MovingAssumption
ASSUME QuestAssumption == Q!QuestAssumption

-----------------------------------------------------------------------------
\* The variables of a component that is not run have no value.
NoWindows == listeners = None /\ deleted = None /\ delivery = None
  /\ windows = None /\ relative = None /\ listener = None /\ frame = None
NoConversations == line = None /\ successors = None /\ used = None
  /\ running = None /\ options = None /\ uiListeners = None /\ status = None
  /\ pending = None /\ firing = None /\ finish = None /\ said = None
  /\ touched = None
NoMoving == body = None /\ stuck = None /\ turn = None /\ entered = None
NoQuests == started = None /\ completed = None /\ lists = None
  /\ partStatus = None /\ stack = None /\ saved = None /\ heard = None

Init ==
  /\ scene \in Scenes
  /\ IF scene = "windows" THEN W!Init ELSE NoWindows
  /\ IF scene = "conversation" THEN C!Init ELSE NoConversations
  /\ IF scene = "moving" THEN M!Init ELSE NoMoving
  /\ IF scene = "quests" THEN Q!Init ELSE NoQuests

WindowsStep == scene = "windows" /\ W!Next
  /\ UNCHANGED <<scene, conversationsVars, movingVars, questsVars>>
ConversationsStep == scene = "conversation" /\ C!Next
  /\ UNCHANGED <<scene, windowsVars, movingVars, questsVars>>
MovingStep == scene = "moving" /\ M!Next
  /\ UNCHANGED <<scene, windowsVars, conversationsVars, questsVars>>
QuestsStep == scene = "quests" /\ Q!Next
  /\ UNCHANGED <<scene, windowsVars, conversationsVars, movingVars>>

Next == WindowsStep \/ ConversationsStep \/ MovingStep \/ QuestsStep

Spec == Init /\ [][Next]_vars

\* Frames go on, and so do the loops in a frame; handlers return.
FairSpec ==
  /\ Spec
  /\ WF_windowsVars (scene = "windows" /\ W!Goes)
  /\ SF_windowsVars (scene = "windows" /\ W!StartFrame)
  /\ WF_conversationsVars (scene = "conversation" /\ (C!FireEvents \/ C!Proceed))
  /\ SF_conversationsVars (scene = "conversation" /\ C!StartFrame)

-----------------------------------------------------------------------------
(* Properties. *)

\* In whichever order windows are opened, closed and slide, dialogs stay above
\* the windows of other types ("a DIALOG window will never be obscured",
\* window.h), each dialog on display, be it the topmost or not, and no other
\* hears the input, also when a handler of input opened or closed them, and no
\* listener is called after it has been deleted.
DialogsListen ==
  scene = "windows" =>
    /\ W!TypeOK
    /\ W!OrderedByType
    /\ W!DialogsListen
    /\ W!NoStaleDelivery

\* A window that slides in arrives, and one that is closed is removed, as long
\* as nobody opens or closes windows again.
WindowsSettle ==
  \/ []<>(scene = "windows" => \A c \in Content : W!Settled (c))
  \/ []<><<W!Scripts>>_windowsVars

\* However many answers are pressed in a frame, each answer on display has a
\* listener that is alive and leads to what it says, nobody else is called,
\* and neither of the two says the same twice unless it may.
AnswersLead ==
  scene = "conversation" =>
    /\ C!TypeOK
    /\ C!AnswersLead
    /\ C!SaidOnce

\* When a conversation is over, the characters go on with their schedules.
SchedulesResume == scene = "conversation" => C!SchedulesResume

\* However keys, paths, jumps, falls and saving are mixed, a character goes
\* at the pace and in the direction of its movement, faces where it goes, and
\* whoever listens for a zone knows who is in it; and who jumps comes down.
CharactersAgree ==
  /\ [](scene = "moving" => M!TypeOK /\ M!PaceAgrees /\ M!FacesItsWay /\ M!ZonesKnown)
  /\ M!ComesDown

\* "The state of parent parts is updated accordingly" (quest.h): whatever
\* callbacks complete in the middle of a climb, when the outermost call has
\* returned each part is completed just if its rule says so, and every
\* listener has seen the present state of the parts it listens for.
QuestsAgree ==
  scene = "quests" =>
    /\ Q!TypeOK
    /\ Q!RulesAgree
    /\ Q!ListenersUpToDate

-----------------------------------------------------------------------------
(* What texts of the repository say and the code does not do: violated by the *)
(* runs the README names.                                                     *)

\* "Above any existing windows of the same type" (window.h): a new window is
\* behind those there are.
OpensOnTop == W!OpensOnTop

\* "The topmost of those has the input focus" (window.h): the focus goes to a
\* new dialog, which is not the topmost.
TopmostHasFocus == scene = "windows" => W!TopmostHasFocus

\* The same, with Careless = {"close"}: a dialog that is not on display has it.
FocusBelongsToDialog == scene = "windows" => W!FocusBelongsToDialog

\* "Do not delete listeners directly, because we might be in a callback
\* triggered by one of those listeners" (factory.cc).
NotTouched == scene = "conversation" => C!NotTouched

\* "Set the Python code used to calculate quest completion" (quest.h): a part
\* with code is completed when its code says so.
CodeObeyed == scene = "quests" => Q!CodeObeyed

\* "The given character enters or exits the given zone" (move_event.h): a
\* listener that asks for both hears of both.
MovesReported == M!MovesReported
=============================================================================
