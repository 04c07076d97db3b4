---------------------------- MODULE InputManager ----------------------------
(***************************************************************************)
(* Delivery of input (src/input/manager.cc, listener.cc). A device event   *)
(* is offered to the listeners in the order of focus until one consumes    *)
(* it; if its key or button is mapped to a control, an event of the control*)
(* follows in the same way, whether or not the first was consumed.         *)
(*                                                                         *)
(* Handlers are called in the middle of this: the manager goes through a   *)
(* copy of the list, which they cannot change.                             *)
(***************************************************************************)
EXTENDS Naturals, Sequences, SequencesExt

CONSTANTS
  Handle,    \* listeners for input
  Connects,  \* the kinds of events, "device" and "control", each has callbacks for
  None

VARIABLES
  listeners, \* manager::listeners
  deleted,   \* listeners that have been deleted
  delivery   \* the event being raised

inputVars == <<listeners, deleted, delivery>>

Kind == {"device", "control"}

Idle == [kind |-> "none", mapped |-> FALSE, rest |-> <<>>, calling |-> FALSE]

Delivery == [kind : Kind \cup {"none"}, mapped : BOOLEAN, rest : Seq (Handle), calling : BOOLEAN]

InputInit ==
  /\ listeners = <<>>
  /\ deleted = Handle
  /\ delivery = Idle

-----------------------------------------------------------------------------
(* The list. *)

\* manager::remove. A listener is in the list at most once.
Without (l) == RemoveFirst (listeners, l)

\* manager::add, followed by manager::give_focus
AddInFront (list, l) == <<l>> \o list

\* manager::add
AddLast (l) == Append (listeners, l)

GiveFocus (l) == IF Contains (listeners, l) THEN <<l>> \o Without (l) ELSE listeners

-----------------------------------------------------------------------------
(* manager::raise_event *)

Raise (mapped) ==
  /\ delivery.kind = "none"
  /\ delivery' = [kind |-> "device", mapped |-> mapped, rest |-> listeners, calling |-> FALSE]
  /\ UNCHANGED <<listeners, deleted>>

Waiting == delivery.rest # <<>> /\ ~ delivery.calling

\* A listener without a callback for this kind of event does not consume it.
PassOver ==
  /\ Waiting /\ delivery.kind \notin Connects[Head (delivery.rest)]
  /\ delivery' = [delivery EXCEPT !.rest = Tail (@)]
  /\ UNCHANGED <<listeners, deleted>>

Call ==
  /\ Waiting /\ delivery.kind \in Connects[Head (delivery.rest)]
  /\ delivery' = [delivery EXCEPT !.calling = TRUE]
  /\ UNCHANGED <<listeners, deleted>>

CallReturns (consumed) ==
  /\ delivery.calling
  /\ delivery' = [delivery EXCEPT !.calling = FALSE, !.rest = IF consumed THEN <<>> ELSE Tail (@)]
  /\ UNCHANGED <<listeners, deleted>>

RaiseControl ==
  /\ delivery.kind = "device" /\ delivery.rest = <<>> /\ delivery.mapped
  /\ delivery' = [delivery EXCEPT !.kind = "control", !.rest = listeners]
  /\ UNCHANGED <<listeners, deleted>>

Delivered ==
  /\ delivery.rest = <<>>
  /\ delivery.kind = "control" \/ (delivery.kind = "device" /\ ~ delivery.mapped)
  /\ delivery' = Idle
  /\ UNCHANGED <<listeners, deleted>>

\* Who is being called.
Called == IF delivery.calling THEN Head (delivery.rest) ELSE None

-----------------------------------------------------------------------------
\* "Use a copy of listener list, so add/remove/give_focus can be safely called
\* from an event handler" (manager.cc): no listener is called after it has
\* been deleted, whatever the handlers before it did.
NoStaleDelivery == delivery.rest # <<>> => Head (delivery.rest) \notin deleted
=============================================================================
