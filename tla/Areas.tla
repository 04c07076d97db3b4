------------------------------- MODULE Areas -------------------------------
(***************************************************************************)
(* The contents of a map (src/world/area.cc): objects, the entities that   *)
(* own them and give them names, where they are placed, with the actions   *)
(* of those places (chunk_info.h), and zones.                              *)
(*                                                                         *)
(* A map is written as one entry for each object, with the places of it as *)
(* an anonymous entity and those of its named ones; reading it makes the   *)
(* entities anew, the first of them the one that owns the object.          *)
(***************************************************************************)
EXTENDS Integers, Sequences, FiniteSets, SequencesExt, FiniteSetsExt

CONSTANTS
  HashOrder,   \* objects of the map, in the order of their hash
  Name,        \* names of entities
  Position,    \* where they are placed
  Action,      \* actions of places
  Zone,        \* names of zones
  MaxEntities, \* bound on the entities
  MaxInfos,    \* bound on the places
  None

Hash == Range (HashOrder)

AreasAssumption == MaxEntities \in Nat /\ MaxInfos \in Nat

VARIABLE
  area         \* the map, see Area

vars == <<area>>

\* entity and named_entity
Entity == [object : Hash, id : Name \cup {None}, unique : BOOLEAN]

\* entities: Entities, of which those with a name are NamedEntities; infos: the
\* places in the chunk, by entity; states: objects and their state; zones: Zones.
Area == [entities : Seq (Entity),
         infos : SUBSET [entity : Nat, pos : Position, action : Action \cup {None}],
         states : [Hash -> {"none", "open", "closed"}], zones : Seq (Zone)]

Empty == [entities |-> <<>>, infos |-> {}, states |-> [h \in Hash |-> "none"], zones |-> <<>>]

Named (a) == {e \in Range (a.entities) : e.id # None}

\* area::add_entity refuses a name that is taken.
CanAdd (a, id) == id # None => \A e \in Named (a) : e.id # id

AddEntity (a, e) == [a EXCEPT !.entities = Append (@, e)]

\* area::get_entity
GetEntity (a, id) == IF \E e \in Named (a) : e.id = id
                     THEN (CHOOSE e \in Named (a) : e.id = id).object ELSE None

-----------------------------------------------------------------------------
(* area::put_state: for each object in the chunk where it is placed.        *)

Of (a, h) == {c \in a.infos : a.entities[c.entity].object = h}

Hashes (a) == {h \in Hash : Of (a, h) # {}}

\* Mutation: places of named entities are written without their action.
PutPlaceBare (a, c) ==
  [id |-> a.entities[c.entity].id, pos |-> c.pos,
   action |-> IF a.entities[c.entity].id = None THEN c.action ELSE None]

\* The place of an entity, by its name if it has one.
PutPlace (a, c) == [id |-> a.entities[c.entity].id, pos |-> c.pos, action |-> c.action]

PutState (a) ==
  [places |-> [h \in Hashes (a) |-> {PutPlace (a, c) : c \in Of (a, h)}],
   states |-> [h \in Hashes (a) |-> a.states[h]],
   zones |-> a.zones]

-----------------------------------------------------------------------------
(* area::get_state                                                          *)

\* Whether no entity of the object has been made yet.
Owns (a, h) == \A e \in Range (a.entities) : e.object # h

\* A place of a named entity: the entity is made, and placed if its name is free.
GetNamed (a, h, p) ==
  IF ~ CanAdd (a, p.id) THEN a
  ELSE [AddEntity (a, [object |-> h, id |-> p.id, unique |-> Owns (a, h)])
         EXCEPT !.infos = @ \cup {[entity |-> Len (a.entities) + 1, pos |-> p.pos, action |-> p.action]}]

\* All places of the object without a name, by one entity.
GetAnonymous (a, h, P) ==
  IF P = {} THEN a
  ELSE [AddEntity (a, [object |-> h, id |-> None, unique |-> TRUE])
         EXCEPT !.infos = @ \cup {[entity |-> Len (a.entities) + 1, pos |-> p.pos, action |-> p.action] : p \in P}]

\* The named places of each object, in the order of the tree, which may be any.
NamedPlaces (f, h) == {p \in f.places[h] : p.id # None}

Orders (f) ==
  {o \in [DOMAIN f.places -> UNION {SetToSeqs (NamedPlaces (f, h)) : h \in DOMAIN f.places}] :
     \A h \in DOMAIN o : Range (o[h]) = NamedPlaces (f, h)}

GetObject (a, f, h, order) ==
  IF h \notin DOMAIN f.places THEN a
  ELSE FoldLeft (LAMBDA b, p : GetNamed (b, h, p),
                 GetAnonymous (a, h, f.places[h] \ NamedPlaces (f, h)), order[h])

\* add_zone: in front, if there is none of that name.
AddZone (a, z) == IF z \in Range (a.zones) THEN a ELSE [a EXCEPT !.zones = <<z>> \o @]

\* The objects by their hash, then their states, then zones.
GetState (f, order) ==
  LET objects == FoldLeft (LAMBDA a, h : GetObject (a, f, h, order), Empty, HashOrder)
      states == [h \in Hash |-> IF h \in DOMAIN f.states THEN f.states[h] ELSE "none"]
  IN FoldLeft (AddZone, [objects EXCEPT !.states = states], f.zones)

-----------------------------------------------------------------------------
Init == area = Empty

\* The map editor, or a script, places an object as an anonymous entity.
AddAnonymous (h) ==
  /\ Len (area.entities) < MaxEntities
  /\ \A e \in Range (area.entities) : e.object # h
  /\ area' = [AddEntity (area, [object |-> h, id |-> None, unique |-> TRUE]) EXCEPT !.states[h] = "closed"]

\* ... or as a named one, that shares the object if it is there already.
AddNamed (h, id) ==
  /\ Len (area.entities) < MaxEntities
  /\ area' = IF CanAdd (area, id)
             THEN AddEntity (area, [object |-> h, id |-> id, unique |-> Owns (area, h)]) ELSE area

\* area::place_entity. A named entity is in one place.
PlaceEntity (i, pos) ==
  /\ i \in DOMAIN area.entities /\ Cardinality (area.infos) < MaxInfos
  /\ \A c \in area.infos : c.entity = i => area.entities[i].id = None /\ c.pos # pos
  /\ area' = [area EXCEPT !.infos = @ \cup {[entity |-> i, pos |-> pos, action |-> None]}]

\* chunk_info::set_action, and action::init of the action it returns.
SetAction (c, action) ==
  area' = [area EXCEPT !.infos = (@ \ {c}) \cup {[c EXCEPT !.action = action]}]

\* chunk::remove; the entity stays.
TakeAway (c) == area' = [area EXCEPT !.infos = @ \ {c}]

SetState (h, state) ==
  /\ \E e \in Range (area.entities) : e.object = h
  /\ area' = [area EXCEPT !.states[h] = state]

NewZone (z) == area' = AddZone (area, z)

RemoveZone (z) ==
  /\ z \in Range (area.zones)
  /\ area' = [area EXCEPT !.zones = SelectSeq (@, LAMBDA y : y # z)]

\* area::save, and area::load, which clears the map first.
SaveAndLoad == \E order \in Orders (PutState (area)) : area' = GetState (PutState (area), order)

Next ==
  \/ \E h \in Hash :
       \/ AddAnonymous (h)
       \/ \E id \in Name : AddNamed (h, id)
       \/ \E state \in {"open", "closed"} : SetState (h, state)
  \/ \E i \in 1 .. MaxEntities, pos \in Position : PlaceEntity (i, pos)
  \/ \E c \in area.infos : TakeAway (c) \/ (\E action \in Action : SetAction (c, action))
  \/ \E z \in Zone : NewZone (z) \/ RemoveZone (z)
  \/ SaveAndLoad

Spec == Init /\ [][Next]_vars

-----------------------------------------------------------------------------
(* Properties. *)

\* The state is well typed: no place is of an entity that is gone.
TypeOK ==
  /\ area \in Area
  /\ \A c \in area.infos : c.entity \in DOMAIN area.entities

\* Each object has just one entity that deletes it, whatever has been added,
\* taken away, saved and loaded: none is deleted twice or never.
OwnedOnce ==
  \A h \in Hash :
    LET sharing == {i \in DOMAIN area.entities : area.entities[i].object = h}
    IN sharing # {} => Cardinality ({i \in sharing : area.entities[i].unique}) = 1

\* What is on a map can be seen: the objects placed with their names and
\* actions, their states, what is found under a name, and the zones.
Visible (a) ==
  [places |-> {<<a.entities[c.entity].object, a.entities[c.entity].id, c.pos, c.action>> : c \in a.infos},
   states |-> {<<h, a.states[h]>> : h \in Hashes (a)},
   named |-> {<<id, GetEntity (a, id)>> : id \in {a.entities[c.entity].id : c \in a.infos} \ {None}},
   zones |-> Range (a.zones)]

\* A map that is saved and loaded again shows what it did before, in whatever
\* order the tree has its places.
LoadShowsSaved ==
  \A order \in Orders (PutState (area)) : Visible (GetState (PutState (area), order)) = Visible (area)
=============================================================================
