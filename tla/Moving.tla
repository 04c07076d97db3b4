------------------------------- MODULE Moving -------------------------------
(***************************************************************************)
(* Characters on the map: velocity, jumping and falling (src/world/        *)
(* moving.cc, character.cc), and the events that tell who has entered or   *)
(* left a zone (move_event.cc).                                            *)
(*                                                                         *)
(* Each frame all characters are updated in turn: the jump and gravity     *)
(* move them, the ground below is found, listeners are called, and those   *)
(* that have landed walk or run again. A counter of frames in which a      *)
(* character is stuck is shared by all of them.                            *)
(*                                                                         *)
(* Ground has a level for each column of the map. What a character bumps   *)
(* into is a step that is too high, or the ceiling; positions are in       *)
(* tenths, which are rounded to pixels.                                    *)
(***************************************************************************)
EXTENDS Integers, Sequences, FiniteSets

CONSTANTS
  CharOrder,   \* the characters, in the order they are updated
  Player,      \* those whose directions are added one by one
  MaxX,        \* columns of the map
  Ground,      \* level of each
  Ceiling,     \* pixels above which nobody gets
  Step,        \* steps that can be climbed
  JumpSpeed, Gravity, Slowdown, MinSpeed,  \* tenths of pixels per frame
  Zone,        \* zones, sets of columns
  Keys,        \* directions the player adds and removes
  PathDirs,    \* directions paths take
  Walkers,     \* characters that are told to run and walk, or saved
  Start,       \* column each character is placed at
  None

Character == {CharOrder[i] : i \in DOMAIN CharOrder}
Column == 0 .. MaxX
Direction == {"west", "east", "north", "south"}

MovingAssumption ==
  /\ CharOrder \in Seq (Character) /\ CharOrder # <<>> /\ Player \subseteq Character
  /\ MaxX \in Nat /\ Ground \in [Column -> Nat] /\ Start \in [Character -> Column]
  /\ Ceiling \in Int /\ Step \in Int /\ None \notin Zone
  /\ JumpSpeed \in Nat /\ Gravity \in Nat \ {0} /\ Slowdown \in Nat \ {0}
  /\ MinSpeed \in Int /\ MinSpeed < 0
  /\ Keys \subseteq Direction /\ PathDirs \subseteq SUBSET Direction

VARIABLES
  body,        \* see Body
  stuck,       \* frames_stuck, which is static; counted up to 3
  turn,        \* who is updated next
  entered      \* what listeners have been told: zones each character is in

vars == <<body, stuck, turn, entered>>

\* x, z: coordinates; pos: Position.z in tenths; ground: GroundPos; vx, vy: signs of the
\* velocity; fast: whether it was set while running; dir: CurrentDir; heading:
\* Heading, and first letter of the state; gait: rest of the state.
Body == [x : Column, z : Int, pos : Int, ground : Int, vspeed : MinSpeed - Slowdown .. JumpSpeed,
         vx : -1 .. 1, vy : -1 .. 1, fast : BOOLEAN, running : BOOLEAN, toggle : BOOLEAN,
         dir : SUBSET Direction, heading : Direction, gait : {"stand", "walk", "run"}]

Round (t) == (t + 5) \div 10
Lesser (a, b) == IF a < b THEN a ELSE b
Greater (a, b) == IF a > b THEN a ELSE b

OnGround (b) == b.ground >= b.z

-----------------------------------------------------------------------------
(* Direction *)

\* update_velocity: of opposite directions the latter wins.
UpdateVelocity (b, dir) ==
  [b EXCEPT !.vx = IF "east" \in dir THEN 1 ELSE IF "west" \in dir THEN -1 ELSE 0,
            !.vy = IF "south" \in dir THEN 1 ELSE IF "north" \in dir THEN -1 ELSE 0,
            !.fast = b.running]

\* Between two directions one is kept, unless it is the opposite.
Diagonal (b) ==
  IF b.vx > 0 /\ "west" \in b.dir THEN "east"
  ELSE IF b.vx < 0 /\ "east" \in b.dir THEN "west"
  ELSE IF b.vy > 0 /\ "north" \in b.dir THEN "south"
  ELSE IF b.vy < 0 /\ "south" \in b.dir THEN "north"
  ELSE b.heading

\* update_state, called before the direction is stored.
UpdateState (b) ==
  [b EXCEPT !.heading = IF b.vx # 0 /\ b.vy # 0 THEN Diagonal (b)
                        ELSE IF b.vx # 0 THEN (IF b.vx > 0 THEN "east" ELSE "west")
                        ELSE IF b.vy # 0 THEN (IF b.vy > 0 THEN "south" ELSE "north")
                        ELSE @,
            !.gait = IF b.vx = 0 /\ b.vy = 0 THEN "stand" ELSE IF b.running THEN "run" ELSE "walk"]

\* set_direction
Heads (b, dir) == [UpdateState (UpdateVelocity (b, dir)) EXCEPT !.dir = dir]

Opposite (d) == CASE d = "west" -> "east" [] d = "east" -> "west"
                  [] d = "north" -> "south" [] d = "south" -> "north"

\* run, walk: at once, or after landing
Toggled (b, on) ==
  IF b.vspeed = 0 THEN Heads ([b EXCEPT !.toggle = on, !.running = on], b.dir) ELSE [b EXCEPT !.toggle = on]

Upd (c, b) == body' = [body EXCEPT ![c] = b] /\ UNCHANGED <<stuck, turn, entered>>

AddDirection (c, d) == c \in Player /\ Upd (c, Heads (body[c], (body[c].dir \ {Opposite (d)}) \cup {d}))
RemoveDirection (c, d) == c \in Player /\ Upd (c, Heads (body[c], body[c].dir \ {d}))

\* The path a character follows sets it, and stops it when it has arrived.
SetDirection (c, dir) ==
  /\ c \notin Player /\ \A d \in dir : Opposite (d) \notin dir
  /\ Upd (c, Heads (body[c], dir))

Arrive (c, d) == c \notin Player /\ Upd (c, [Heads (body[c], {d}) EXCEPT !.vx = 0, !.vy = 0])

SetRunning (c, on) == Upd (c, Toggled (body[c], on))

\* character::jump
Jump (c) ==
  /\ OnGround (body[c]) /\ body[c].vspeed = 0
  /\ Upd (c, [body[c] EXCEPT !.vspeed = JumpSpeed])

-----------------------------------------------------------------------------
(* A frame *)

\* update_position: along the velocity, then down. Steps that are too high stop it.
Column2 (b) ==
  LET x == b.x + b.vx
  IN IF x \in Column /\ Ground[x] * 10 <= b.pos + Step * 10 THEN x ELSE b.x

Moved (b) ==
  LET x == Column2 (b)
      floor == Ground[x] * 10
      up == Greater (Lesser (b.pos + b.vspeed, Ceiling * 10), floor)
      down == Greater (up - Gravity, floor)
  IN [b EXCEPT !.x = x, !.z = Round (down), !.ground = Ground[x],
               !.pos = IF down >= Ground[x] * 10 THEN down ELSE Ground[x] * 10]

\* moving::update, unless there is nothing to do
MovingUpdate (b) == IF b.vx = 0 /\ b.vy = 0 /\ b.vspeed = 0 /\ b.ground = b.z THEN b ELSE Moved (b)

\* The position a move_event starts at.
StartOf (b, new) == b.x

\* move_event::equals of a listener: what it asks of leaving overrides the rest.
Equals (l, actor, start, end) ==
  /\ l.actor = actor
  /\ IF l.leave # None THEN start \in l.leave /\ end \notin l.leave
     ELSE l.enter # None => start \notin l.enter /\ end \in l.enter

\* Two listeners of each character and zone: one is told to enter, one to leave.
Told (zones, c, start, end) ==
  (zones \cup {z \in Zone : Equals ([actor |-> c, enter |-> z, leave |-> None], c, start, end)})
    \ {z \in Zone : Equals ([actor |-> c, enter |-> None, leave |-> z], c, start, end)}

\* On the ground: the pace that was asked for in the air, and the speed of the terrain.
Landed (b) ==
  LET l == [b EXCEPT !.vspeed = 0]
      paced == IF l.running # l.toggle THEN Heads ([l EXCEPT !.running = l.toggle], l.dir) ELSE l
  IN IF paced.vx # 0 \/ paced.vy # 0 THEN UpdateVelocity (paced, paced.dir) ELSE paced

\* Mutation: only the ceiling stops a jump.
FallsFree (b, n) == [b EXCEPT !.vspeed = IF n > 2 THEN 0 ELSE @]

\* In the air: the ceiling stops the jump, or gravity does.
Falls (b, n) ==
  [b EXCEPT !.vspeed = IF n > 2 THEN 0 ELSE IF @ > MinSpeed THEN @ - Slowdown ELSE @]

\* character::update
Update ==
  LET c == CharOrder[turn]
      old == body[c]
      b == MovingUpdate (old)
      n == IF b.vspeed >= 0 /\ b.z = old.z THEN Lesser (stuck + 1, 3) ELSE 0
      landed == OnGround (b) /\ b.vspeed <= 0
  IN /\ body' = [body EXCEPT ![c] = IF landed THEN Landed (b) ELSE Falls (b, n)]
     /\ stuck' = IF landed THEN 0 ELSE n
     /\ entered' = [entered EXCEPT ![c] = IF old = b THEN @ ELSE Told (@, c, StartOf (old, b), b.x)]
     /\ turn' = (turn % Len (CharOrder)) + 1

\* put_state and get_state: running is not saved; the heading is, in the state.
SaveAndLoad (c) ==
  LET b == [body[c] EXCEPT !.running = FALSE, !.toggle = FALSE, !.dir = {}, !.ground = Ground[body[c].x]]
  IN Upd (c, Heads (b, body[c].dir))

Init ==
  /\ body = [c \in Character |->
       [x |-> Start[c], z |-> Ground[Start[c]], pos |-> Ground[Start[c]] * 10, ground |-> Ground[Start[c]],
        vspeed |-> 0, vx |-> 0, vy |-> 0, fast |-> FALSE, running |-> FALSE, toggle |-> FALSE, dir |-> {},
        heading |-> "west", gait |-> "stand"]]
  /\ stuck = 0 /\ turn = 1 /\ entered = [c \in Character |-> {z \in Zone : Start[c] \in z}]

Next ==
  \/ Update
  \/ \E c \in Character :
       \/ \E d \in Keys : AddDirection (c, d) \/ RemoveDirection (c, d)
       \/ \E dir \in PathDirs : SetDirection (c, dir)
       \/ (\E d \in Keys : Arrive (c, d)) \/ Jump (c) \/ (c \in Walkers /\ SaveAndLoad (c))
       \/ \E on \in BOOLEAN : c \in Walkers /\ SetRunning (c, on)

Spec == Init /\ [][Next]_vars

-----------------------------------------------------------------------------
(* Properties. *)

\* The state is well typed.
TypeOK ==
  /\ body \in [Character -> Body] /\ stuck \in 0 .. 3
  /\ turn \in DOMAIN CharOrder /\ entered \in [Character -> SUBSET Zone]

\* Scripts that are told who enters and who leaves a zone know who is in it,
\* wherever characters walk, jump and fall.
ZonesKnown == \A c \in Character : entered[c] = {z \in Zone : body[c].x \in z}

\* A character that is directed by adding and removing directions always faces
\* one of those it goes, whatever it has been doing before.
FacesItsWay ==
  \A c \in Player : body[c].vx # 0 \/ body[c].vy # 0 => body[c].heading \in body[c].dir

\* What is seen of a character, how fast it goes and the pace that was asked for
\* agree whenever it is not in the air, whether it was asked in a jump or not.
PaceAgrees ==
  \A c \in Character :
    LET b == body[c]
    IN /\ b.vspeed = 0 /\ OnGround (b) /\ (b.vx # 0 \/ b.vy # 0) =>
            /\ b.running <=> b.gait = "run"
            /\ b.fast <=> b.running
       /\ b.gait = "stand" => b.vx = 0 /\ b.vy = 0

\* Whoever jumps or falls comes down again: with each frame it is slower than in
\* the last one, or lower, until it stands on the ground.
ComesDown ==
  [][\A c \in Character :
       turn' # turn /\ c = CharOrder[turn] /\ (body[c].vspeed # 0 \/ ~ OnGround (body[c]))
         => \/ body'[c].vspeed < body[c].vspeed \/ body'[c].pos < body[c].pos
            \/ body'[c].vspeed = 0 /\ body'[c].pos = body'[c].ground * 10]_vars

\* "The given character enters or exits the given zone": a listener that asks for
\* both is called in either case.
MovesReported ==
  [][\A c \in Character, z \in Zone :
       (body[c].x \in z) # (body'[c].x \in z)
         => Equals ([actor |-> c, enter |-> z, leave |-> z], c, body[c].x, body'[c].x)]_vars
=============================================================================
