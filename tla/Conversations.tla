---------------------------- MODULE Conversations ----------------------------
(***************************************************************************)
(* A conversation with a character (src/gui/conversation.cc), the dialogue *)
(* it displays (src/rpg/dialog.cc, dialog_line.cc), and the user interface *)
(* events in between (ui_event_manager.cc, window_manager::fire_events).   *)
(*                                                                         *)
(* Choosing an answer does not run a callback: it queues the listener of   *)
(* its button, and the next frame calls the queued listeners in turn. The  *)
(* callback runs the dialogue, which replaces all answers and listeners,   *)
(* the one that is being called among them.                                *)
(***************************************************************************)
EXTENDS Integers, Sequences, SequencesExt

CONSTANTS
  Text,         \* the lines of the dialogue; 0 is the start
  Player,       \* those the player says
  Followers,    \* what may be said after each, a sequence
  Conditional,  \* those with a condition, which may be false
  Loop,         \* those allowed more than once
  Listener,     \* listeners for buttons
  MaxOptions,   \* MAX_OPTS
  MaxPending,   \* bound on the keys pressed in a frame
  None

Npc == Text \ Player

\* The listener for the end of the conversation.
Finish == 0

DialogLine == [npc : Npc, answers : Seq (Player)]

Running == [at : Text, next : Npc \cup {None}]

\* What the dialogue editor produces: after the player the other speaks, what
\* follows a line is said by either one or the other, and the other has
\* something to say at the start.
DialogueAssumption ==
  /\ 0 \in Text \ Player
  /\ Followers \in [Text -> Seq (Text)]
  /\ \A t \in Text : LET f == Range (Followers[t]) IN
       (f \subseteq Player \/ f \subseteq Npc) /\ (t \in Player \cup {0} => f \subseteq Npc)
  /\ \E t \in Range (Followers[0]) : t \notin Conditional
  /\ Listener \subseteq Nat \ {0} /\ MaxOptions \in Nat \ {0}
  /\ None \notin Text \cup Nat \cup DialogLine \cup Running

VARIABLES
  line,        \* the line on display: what the other says, and the answers
  successors,  \* Successors
  used,        \* Used
  running,     \* dialog::run under way: the text it has come to, the line it made
  options,     \* the listeners of the buttons, one for each answer
  listeners,   \* those the event manager has; their order does not matter
  status,      \* "new", "listed", "destroyed" or "deleted"
  pending,     \* PendingEvents
  firing,      \* how many of them have been called, None between frames
  finish,      \* the listener for the end: "listed", "queued" or "called"
  said,        \* history: how often each text not in Loop was uttered
  touched      \* history: a listener has been used after it was deleted

dialogVars == <<line, successors, used, running, said>>
uiVars == <<options, listeners, status, pending, firing, finish, touched>>
vars == <<dialogVars, uiVars>>

Closed == line = None /\ running = None

Init ==
  /\ line = None /\ successors = <<>> /\ used = {} /\ running = None
  /\ options = <<>> /\ listeners = {} /\ status = [l \in Listener |-> "new"]
  /\ pending = <<>> /\ firing = None /\ finish = "called"
  /\ said = [t \in Text |-> 0] /\ touched = FALSE

Utter (ts) == said' = [t \in Text |-> IF t \in ts \ Loop THEN said[t] + 1 ELSE said[t]]

-----------------------------------------------------------------------------
(* ui_event_manager::raise_event deletes the destroyed listeners it meets,  *)
(* and queues the ones that match.                                          *)

Destroyed == {l \in Listener : status[l] = "destroyed"}

Delete (ls) ==
  /\ listeners' = listeners \ ls
  /\ status' = [l \in Listener |-> IF l \in ls THEN "deleted" ELSE status[l]]

\* The player presses a button, or the key with its number.
Activate (i) ==
  /\ firing = None /\ running = None
  /\ i \in DOMAIN options /\ Len (pending) < MaxPending
  /\ Delete (Destroyed)
  /\ pending' = Append (pending, options[i])
  /\ UNCHANGED <<dialogVars, options, firing, finish, touched>>

\* Moving to another answer raises an event as well.
SwitchOption ==
  /\ firing = None /\ running = None /\ options # <<>> /\ Destroyed # {}
  /\ Delete (Destroyed)
  /\ UNCHANGED <<dialogVars, options, pending, firing, finish, touched>>

-----------------------------------------------------------------------------
(* conversation::update *)

\* Whom to call for each answer; if there is none, to continue.
Which (i) == IF line.answers = <<>> THEN -1 ELSE i - 1

\* Listeners nobody holds any more, to create new ones from.
Free == {l \in Listener : status[l] \in {"new", "deleted"} /\ ~ Contains (pending, l)}

\* Sequences of n elements of S that ascend.
Ascending (S, n) == {f \in [1 .. n -> S] : \A i, j \in 1 .. n : i < j => f[i] < f[j]}

\* The n first of them, in order.
Lowest (n) == {f \in Ascending (Free, n) : \A l \in Free \ Range (f) : \A i \in 1 .. n : f[i] < l}

\* The callback is done: on with the next pending event.
Resume == firing' = IF firing = None THEN None ELSE firing + 1

\* EventFactory.clear marks the listeners of the old answers; there are
\* buttons and listeners for the new ones, as many as fit.
Display (l) ==
  LET n == IF l.answers = <<>> THEN 1
           ELSE IF Len (l.answers) > MaxOptions THEN MaxOptions ELSE Len (l.answers)
  IN /\ line' = l
     /\ options' \in Lowest (n)
     /\ listeners' = listeners \cup Range (options')
     /\ status' = [k \in Listener |->
          CASE k \in Range (options') -> "listed" [] Contains (options, k) -> "destroyed" [] OTHER -> status[k]]
     /\ running' = None /\ Resume
     /\ UNCHANGED <<pending, touched>>

\* The event that the conversation has finished deletes the destroyed
\* listeners, the one that is being called among them.
End ==
  LET gone == Destroyed \cup Range (options)
  IN /\ Delete (gone)
     /\ line' = None /\ options' = <<>> /\ running' = None
     /\ pending' = IF finish = "listed" THEN Append (pending, Finish) ELSE pending
     /\ finish' = IF finish = "listed" THEN "queued" ELSE finish
     /\ touched' = (touched \/ firing # None)
     /\ Resume

-----------------------------------------------------------------------------
(* dialog::run *)

\* Mutation: what the player said is not remembered.
RunForgetful (t) ==
  /\ running' = [at |-> t, next |-> None]
  /\ successors' = <<>>
  /\ UNCHANGED used

\* The text is used up unless it may be repeated.
Run (t) ==
  /\ running' = [at |-> t, next |-> None]
  /\ successors' = <<>>
  /\ used' = IF t \in Loop THEN used ELSE used \cup {t}

\* Whether control goes back to the player after t (stop, in Python).
Stop (t) == Followers[t] = <<>> \/ Head (Followers[t]) \notin Player

\* The followers whose condition holds, without those used already.
Speech (holds) ==
  LET all == Followers[running.at]
      left == {i \in DOMAIN all : (all[i] \notin Conditional \/ all[i] \in holds) /\ all[i] \notin used}
  IN {[i \in DOMAIN f |-> all[f[i]]] :
       f \in {g \in UNION {Ascending (left, n) : n \in 0 .. Len (all)} : Range (g) = left}}

\* One of the lines of the other is chosen at random.
Speak (t, speech) ==
  /\ speech # <<>> /\ Head (speech) \in Npc /\ t \in Range (speech)
  /\ successors' = Append (successors, t)
  /\ used' = IF t \in Loop THEN used ELSE used \cup {t}
  /\ IF Stop (t)
     THEN Display ([npc |-> t, answers |-> <<>>]) /\ Utter ({t})
     ELSE running' = [at |-> t, next |-> t] /\ UNCHANGED <<line, said, uiVars>>
  /\ UNCHANGED finish

\* What the player can say is offered along with it.
Offer (speech) ==
  /\ speech # <<>> /\ Head (speech) \in Player
  /\ successors' = successors \o speech
  /\ Display ([npc |-> running.next, answers |-> speech])
  /\ Utter ({running.next})
  /\ UNCHANGED <<used, finish>>

\* run returns NULL, and the conversation is over. A line that has been made
\* is dropped.
NothingLeft (speech) ==
  /\ speech = <<>>
  /\ End
  /\ UNCHANGED <<successors, used, said>>

Proceed ==
  /\ running # None
  /\ \E holds \in SUBSET Conditional : \E speech \in Speech (holds) :
       (\E t \in Npc : Speak (t, speech)) \/ Offer (speech) \/ NothingLeft (speech)

-----------------------------------------------------------------------------
(* window_manager::fire_events *)

StartFrame ==
  /\ firing = None /\ running = None
  /\ firing' = 0
  /\ UNCHANGED <<dialogVars, options, listeners, status, pending, finish, touched>>

Calling == firing # None /\ running = None

Next1 == pending[firing + 1]

\* conversation::selectopt
SelectOption (i) ==
  LET answer == Which (i)
  IN /\ Calling /\ firing < Len (pending)
     /\ i \in DOMAIN options /\ options[i] = Next1
     /\ IF answer + 2 <= Len (successors)
        THEN /\ Run (successors[answer + 2])
             /\ Utter (IF answer = -1 THEN {} ELSE {successors[answer + 2]})
             /\ UNCHANGED <<line, uiVars>>
        ELSE End /\ UNCHANGED <<successors, used, said>>

\* The callback of a destroyed listener is not called any more; one that has
\* been deleted is used all the same.
PassOver ==
  /\ Calling /\ firing < Len (pending)
  /\ Next1 # Finish /\ status[Next1] # "listed"
  /\ touched' = (touched \/ status[Next1] = "deleted")
  /\ firing' = firing + 1
  /\ UNCHANGED <<dialogVars, options, listeners, status, pending, finish>>

\* Mutation: events that are queued meanwhile are not waited for.
FinishedNot ==
  /\ Calling /\ firing < Len (pending) /\ Next1 = Finish
  /\ pending' = <<>> /\ firing' = None
  /\ UNCHANGED <<dialogVars, options, listeners, status, finish, touched>>

\* action_talk.on_finished: the schedules of both characters go on.
Finished ==
  /\ Calling /\ firing < Len (pending) /\ Next1 = Finish
  /\ finish' = "called"
  /\ firing' = firing + 1
  /\ UNCHANGED <<dialogVars, options, listeners, status, pending, touched>>

EndFrame ==
  /\ Calling /\ firing = Len (pending)
  /\ pending' = <<>> /\ firing' = None
  /\ UNCHANGED <<dialogVars, options, listeners, status, finish, touched>>

\* action_talk.perform creates a conversation; its schedules have stopped.
Talk ==
  /\ Closed /\ firing = None /\ finish = "called"
  /\ successors' = <<>> /\ used' = IF 0 \in Loop THEN {} ELSE {0}
  /\ running' = [at |-> 0, next |-> None]
  /\ finish' = "listed"
  /\ said' = [t \in Text |-> 0]
  /\ UNCHANGED <<line, options, listeners, status, pending, firing, touched>>

FireEvents ==
  \/ \E i \in 1 .. MaxOptions : SelectOption (i)
  \/ PassOver \/ Finished \/ EndFrame

Next ==
  \/ \E i \in 1 .. MaxOptions : Activate (i)
  \/ SwitchOption \/ StartFrame \/ FireEvents \/ Proceed \/ Talk

Spec == Init /\ [][Next]_vars

\* Frames go on, and so do the loops in a frame.
FairSpec == Spec /\ WF_vars (FireEvents \/ Proceed) /\ SF_vars (StartFrame)

-----------------------------------------------------------------------------
(* Properties. *)

\* All parts of the state have their types.
TypeOK ==
  /\ line \in DialogLine \cup {None} /\ running \in Running \cup {None}
  /\ successors \in Seq (Text) /\ used \subseteq Text
  /\ options \in Seq (Listener) /\ listeners \subseteq Listener
  /\ status \in [Listener -> {"new", "listed", "destroyed", "deleted"}]
  /\ pending \in Seq (Listener \cup {Finish}) /\ firing \in Nat \cup {None}
  /\ finish \in {"listed", "queued", "called"}
  /\ said \in [Text -> Nat] /\ touched \in BOOLEAN

\* Between calls each answer on display has a listener that is alive and
\* leads to what it says, however many keys were pressed in the frame; there
\* is one listener for each answer and no other is called.
AnswersLead ==
  running = None /\ line # None =>
    /\ \A i \in DOMAIN options :
         /\ status[options[i]] = "listed" /\ options[i] \in listeners
         /\ Which (i) + 2 <= Len (successors)
         /\ successors[Which (i) + 2] = IF line.answers = <<>> THEN line.npc ELSE line.answers[i]
    /\ \A l \in Listener : status[l] = "listed" => Contains (options, l)

\* "Mark player text as used unless loops allowed" (dialog.cc): neither of
\* the two says the same twice, though answers are queued, and lines chosen
\* at random.
SaidOnce == \A t \in Text \ Loop : said[t] <= 1

\* "Do not delete listeners directly, because we might be in a callback
\* triggered by one of those listeners" (factory.cc): no listener is used
\* after it has been deleted.
NotTouched == ~ touched

\* When a conversation is over, the characters go on with their schedules.
SchedulesResume == Closed /\ finish # "called" ~> finish = "called"
=============================================================================
