---------------------------- MODULE Game_proofs ----------------------------
(***************************************************************************)
(* Proofs about Game, for any number of characters, zones, windows and     *)
(* quests, any map and any speed.                                          *)
(***************************************************************************)
EXTENDS Game, ListLemmas

-----------------------------------------------------------------------------
(***************************************************************************)
(* Characters that move. The components of the velocity of a player are    *)
(* those of its directions, which never hold two opposite ones: that is    *)
(* why the heading that is kept between two directions is one of them.     *)
(***************************************************************************)

\* A character goes at the pace it is seen to go at.
Paced (b) ==
  /\ b.vx # 0 \/ b.vy # 0 => (b.running <=> b.gait = "run") /\ (b.fast <=> b.running)
  /\ b.gait = "stand" => b.vx = 0 /\ b.vy = 0

\* A character that adds and removes directions goes in and faces those.
Directed (b) ==
  /\ ~ ("east" \in b.dir /\ "west" \in b.dir) /\ ~ ("south" \in b.dir /\ "north" \in b.dir)
  /\ b.vx = IF "east" \in b.dir THEN 1 ELSE IF "west" \in b.dir THEN -1 ELSE 0
  /\ b.vy = IF "south" \in b.dir THEN 1 ELSE IF "north" \in b.dir THEN -1 ELSE 0
  /\ b.vx # 0 \/ b.vy # 0 => b.heading \in b.dir

\* Running is decided by the time the velocity is computed, so the pace agrees
\* in the air as well.
MovingInv ==
  /\ M!TypeOK
  /\ \A c \in M!Character : Paced (body[c])
  /\ \A c \in PlayerCharacter : Directed (body[c])
  /\ M!ZonesKnown

\* Two states of a character that goes the same way.
SameCourse (a, b) ==
  /\ a.vx = b.vx /\ a.vy = b.vy /\ a.fast = b.fast /\ a.running = b.running
  /\ a.dir = b.dir /\ a.heading = b.heading /\ a.gait = b.gait /\ a.toggle = b.toggle

\* What is known of the constants.
LEMMA MovingConstants ==
  ASSUME M!MovingAssumption
  PROVE  /\ Len (CharOrder) \in Nat /\ Len (CharOrder) > 0
         /\ DOMAIN CharOrder = 1 .. Len (CharOrder)
         /\ \A i \in DOMAIN CharOrder : CharOrder[i] \in M!Character
         /\ PlayerCharacter \subseteq M!Character
         /\ MaxX \in Nat /\ Ceiling \in Int /\ Step \in Int
         /\ \A x \in M!Column : Ground[x] \in Nat
         /\ JumpSpeed \in Nat /\ Gravity \in Nat /\ Gravity > 0
         /\ Slowdown \in Nat /\ Slowdown > 0 /\ MinSpeed \in Int /\ MinSpeed < 0
<1>1. CharOrder \in Seq (M!Character) /\ CharOrder # <<>> /\ PlayerCharacter \subseteq M!Character
  BY DEF M!MovingAssumption
<1>2. /\ Len (CharOrder) \in Nat /\ DOMAIN CharOrder = 1 .. Len (CharOrder)
      /\ \A i \in 1 .. Len (CharOrder) : CharOrder[i] \in M!Character
  BY <1>1, LenProperties, ElementOfSeq
<1>3. Len (CharOrder) # 0
  BY <1>1, EmptySeq
<1>4. /\ MaxX \in Nat /\ Ceiling \in Int /\ Step \in Int
      /\ JumpSpeed \in Nat /\ Gravity \in Nat /\ Gravity > 0
      /\ Slowdown \in Nat /\ Slowdown > 0 /\ MinSpeed \in Int /\ MinSpeed < 0
  BY DEF M!MovingAssumption
<1>5. \A x \in M!Column : Ground[x] \in Nat
  BY DEF M!MovingAssumption
<1>6. QED
  BY <1>1, <1>2, <1>3, <1>4, <1>5

\* Parts of a character that are set.
WithVelocity (b, vx, vy, f) == [b EXCEPT !.vx = vx, !.vy = vy, !.fast = f]
WithHeading (b, h, g) == [b EXCEPT !.heading = h, !.gait = g]
WithPosition (b, x, z, g, p) == [b EXCEPT !.x = x, !.z = z, !.ground = g, !.pos = p]
WithSpeed (b, s) == [b EXCEPT !.vspeed = s]
WithPace (b, t, r) == [b EXCEPT !.toggle = t, !.running = r]
WithDir (b, dir) == [b EXCEPT !.dir = dir]

LEMMA SetVelocity ==
  ASSUME NEW b \in M!Body, NEW vx \in -1 .. 1, NEW vy \in -1 .. 1, NEW f \in BOOLEAN
  PROVE  WithVelocity (b, vx, vy, f) \in M!Body
BY DEF M!Body, WithVelocity

LEMMA SetHeading ==
  ASSUME NEW b \in M!Body, NEW h \in M!Direction, NEW g \in {"stand", "walk", "run"}
  PROVE  WithHeading (b, h, g) \in M!Body
BY DEF M!Body, WithHeading

LEMMA SetPosition ==
  ASSUME NEW b \in M!Body, NEW x \in M!Column, NEW z \in Int, NEW g \in Int, NEW p \in Int
  PROVE  LET a == WithPosition (b, x, z, g, p)
         IN /\ a \in M!Body
            /\ SameCourse (a, b) /\ a.vspeed = b.vspeed
            /\ a.x = x /\ a.z = z /\ a.ground = g /\ a.pos = p
<1>1. WithPosition (b, x, z, g, p) \in M!Body
  BY DEF M!Body, WithPosition
<1>2. QED
  BY <1>1 DEF M!Body, WithPosition, SameCourse

LEMMA SetSpeed ==
  ASSUME NEW b \in M!Body, NEW s \in MinSpeed - Slowdown .. JumpSpeed
  PROVE  LET a == WithSpeed (b, s)
         IN /\ a \in M!Body
            /\ SameCourse (a, b) /\ a.vspeed = s
            /\ a.x = b.x /\ a.z = b.z /\ a.ground = b.ground /\ a.pos = b.pos
<1>1. WithSpeed (b, s) \in M!Body
  BY DEF M!Body, WithSpeed
<1>2. QED
  BY <1>1 DEF M!Body, WithSpeed, SameCourse

LEMMA SetPace ==
  ASSUME NEW b \in M!Body, NEW t \in BOOLEAN, NEW r \in BOOLEAN
  PROVE  LET a == WithPace (b, t, r)
         IN /\ a \in M!Body
            /\ a.x = b.x /\ a.z = b.z /\ a.ground = b.ground /\ a.pos = b.pos /\ a.vspeed = b.vspeed
            /\ a.vx = b.vx /\ a.vy = b.vy /\ a.dir = b.dir /\ a.heading = b.heading
            /\ a.fast = b.fast /\ a.gait = b.gait /\ a.running = r
<1>1. WithPace (b, t, r) \in M!Body
  BY DEF M!Body, WithPace
<1>2. QED
  BY <1>1 DEF M!Body, WithPace

\* A velocity has a sign for each axis.
LEMMA VelocityType ==
  ASSUME NEW b \in M!Body, NEW dir \in SUBSET M!Direction
  PROVE  M!UpdateVelocity (b, dir) \in M!Body
<1> DEFINE vx == IF "east" \in dir THEN 1 ELSE IF "west" \in dir THEN -1 ELSE 0
           vy == IF "south" \in dir THEN 1 ELSE IF "north" \in dir THEN -1 ELSE 0
<1>1. b.running \in BOOLEAN
  BY DEF M!Body
<1>2. vx \in -1 .. 1 /\ vy \in -1 .. 1
  OBVIOUS
<1>3. M!UpdateVelocity (b, dir) = WithVelocity (b, vx, vy, b.running)
  BY DEF M!UpdateVelocity, WithVelocity
<1> HIDE DEF vx, vy
<1>4. QED
  BY <1>1, <1>2, <1>3, SetVelocity

LEMMA StateType ==
  ASSUME NEW b \in M!Body
  PROVE  M!UpdateState (b) \in M!Body
<1> DEFINE h == IF b.vx # 0 /\ b.vy # 0 THEN M!Diagonal (b)
                ELSE IF b.vx # 0 THEN (IF b.vx > 0 THEN "east" ELSE "west")
                ELSE IF b.vy # 0 THEN (IF b.vy > 0 THEN "south" ELSE "north")
                ELSE b.heading
           g == IF b.vx = 0 /\ b.vy = 0 THEN "stand" ELSE IF b.running THEN "run" ELSE "walk"
<1>1. M!Diagonal (b) \in M!Direction /\ b.heading \in M!Direction
  BY DEF M!Diagonal, M!Direction, M!Body
<1>2. h \in M!Direction /\ g \in {"stand", "walk", "run"}
  BY <1>1 DEF M!Direction
<1>3. M!UpdateState (b) = WithHeading (b, h, g)
  BY DEF M!UpdateState, WithHeading
<1> HIDE DEF h, g
<1>4. QED
  BY <1>2, <1>3, SetHeading

\* set_direction changes the direction, what follows from it and nothing else.
LEMMA HeadsKeeps ==
  ASSUME NEW b \in M!Body, NEW dir \in SUBSET M!Direction
  PROVE  /\ M!Heads (b, dir) \in M!Body
         /\ M!Heads (b, dir).dir = dir
         /\ M!Heads (b, dir).x = b.x /\ M!Heads (b, dir).vspeed = b.vspeed
         /\ M!Heads (b, dir).pos = b.pos /\ M!Heads (b, dir).ground = b.ground
         /\ M!Heads (b, dir).z = b.z
<1> DEFINE v == M!UpdateVelocity (b, dir)
           s == M!UpdateState (v)
<1>1. v \in M!Body /\ s \in M!Body
  BY VelocityType, StateType
<1>2. /\ v.x = b.x /\ v.vspeed = b.vspeed /\ v.pos = b.pos /\ v.ground = b.ground /\ v.z = b.z
  BY DEF M!UpdateVelocity, M!Body
<1>3. /\ s.x = v.x /\ s.vspeed = v.vspeed /\ s.pos = v.pos /\ s.ground = v.ground /\ s.z = v.z
  BY <1>1 DEF M!UpdateState, M!Body
<1>4. M!Heads (b, dir) = [s EXCEPT !.dir = dir]
  BY DEF M!Heads
<1> HIDE DEF v, s
<1>5. QED
  BY <1>1, <1>2, <1>3, <1>4 DEF M!Body

LEMMA HeadsPaced ==
  ASSUME NEW b \in M!Body, NEW dir \in SUBSET M!Direction
  PROVE  Paced (M!Heads (b, dir))
<1> DEFINE v == M!UpdateVelocity (b, dir)
           s == M!UpdateState (v)
<1>1. v \in M!Body /\ s \in M!Body
  BY VelocityType, StateType
<1>2. v.fast = b.running /\ v.running = b.running
  BY DEF M!UpdateVelocity, M!Body
<1>3. /\ s.vx = v.vx /\ s.vy = v.vy /\ s.fast = v.fast /\ s.running = v.running
      /\ s.gait = IF v.vx = 0 /\ v.vy = 0 THEN "stand" ELSE IF v.running THEN "run" ELSE "walk"
  BY <1>1 DEF M!UpdateState, M!Body
<1>4. M!Heads (b, dir) = [s EXCEPT !.dir = dir]
  BY DEF M!Heads
<1> HIDE DEF v, s
<1>5. LET h == M!Heads (b, dir)
      IN h.vx = s.vx /\ h.vy = s.vy /\ h.fast = s.fast /\ h.running = s.running /\ h.gait = s.gait
  BY <1>1, <1>4 DEF M!Body
<1>6. QED
  BY <1>1, <1>2, <1>3, <1>5 DEF Paced, M!Body

\* The new velocity is that of the new directions; between two of them the
\* heading is one.
LEMMA HeadsDirected ==
  ASSUME NEW b \in M!Body, NEW dir \in SUBSET M!Direction,
         ~ ("east" \in dir /\ "west" \in dir), ~ ("south" \in dir /\ "north" \in dir),
         LET v == M!UpdateVelocity (b, dir) IN v.vx # 0 /\ v.vy # 0 => M!Diagonal (v) \in dir
  PROVE  Directed (M!Heads (b, dir))
<1> DEFINE v == M!UpdateVelocity (b, dir)
           s == M!UpdateState (v)
<1>1. v \in M!Body /\ s \in M!Body
  BY VelocityType, StateType
<1>2. /\ v.vx = IF "east" \in dir THEN 1 ELSE IF "west" \in dir THEN -1 ELSE 0
      /\ v.vy = IF "south" \in dir THEN 1 ELSE IF "north" \in dir THEN -1 ELSE 0
  BY DEF M!UpdateVelocity, M!Body
<1>3. /\ s.vx = v.vx /\ s.vy = v.vy
      /\ s.heading = IF v.vx # 0 /\ v.vy # 0 THEN M!Diagonal (v)
                     ELSE IF v.vx # 0 THEN (IF v.vx > 0 THEN "east" ELSE "west")
                     ELSE IF v.vy # 0 THEN (IF v.vy > 0 THEN "south" ELSE "north")
                     ELSE v.heading
  BY <1>1 DEF M!UpdateState, M!Body
<1>4. M!Heads (b, dir) = [s EXCEPT !.dir = dir]
  BY DEF M!Heads
<1>5. v.vx # 0 /\ v.vy # 0 => M!Diagonal (v) \in dir
  OBVIOUS
<1> HIDE DEF v, s
<1>6. LET h == M!Heads (b, dir)
      IN h.vx = s.vx /\ h.vy = s.vy /\ h.heading = s.heading /\ h.dir = dir
  BY <1>1, <1>4 DEF M!Body
<1>7. s.vx # 0 \/ s.vy # 0 => s.heading \in dir
  BY <1>2, <1>3, <1>5
<1>8. QED
  BY <1>2, <1>3, <1>6, <1>7 DEF Directed

\* What update_state sees: the directions there were, and the new velocity.
LEMMA DiagonalOf ==
  ASSUME NEW b \in M!Body, NEW dir \in SUBSET M!Direction
  PROVE  LET v == M!UpdateVelocity (b, dir)
         IN /\ v.dir = b.dir /\ v.heading = b.heading
            /\ v.vx = IF "east" \in dir THEN 1 ELSE IF "west" \in dir THEN -1 ELSE 0
            /\ v.vy = IF "south" \in dir THEN 1 ELSE IF "north" \in dir THEN -1 ELSE 0
BY DEF M!UpdateVelocity, M!Body

\* A player goes on in the directions it has.
LEMMA HeadsAgain ==
  ASSUME NEW b \in M!Body, Directed (b)
  PROVE  Directed (M!Heads (b, b.dir))
<1> DEFINE v == M!UpdateVelocity (b, b.dir)
<1>1. b.dir \in SUBSET M!Direction
  BY DEF M!Body
<1>2. /\ v.dir = b.dir /\ v.heading = b.heading
      /\ v.vx = IF "east" \in b.dir THEN 1 ELSE IF "west" \in b.dir THEN -1 ELSE 0
      /\ v.vy = IF "south" \in b.dir THEN 1 ELSE IF "north" \in b.dir THEN -1 ELSE 0
  BY <1>1, DiagonalOf
<1> HIDE DEF v
<1>3. v.vx # 0 /\ v.vy # 0 => M!Diagonal (v) \in b.dir
  BY <1>2 DEF Directed, M!Diagonal
<1>4. QED
  BY <1>1, <1>3, HeadsDirected DEF Directed, v

LEMMA HeadsWith ==
  ASSUME NEW b \in M!Body, Directed (b), NEW d \in M!Direction
  PROVE  Directed (M!Heads (b, (b.dir \ {M!Opposite (d)}) \cup {d}))
<1> DEFINE dir == (b.dir \ {M!Opposite (d)}) \cup {d}
           v == M!UpdateVelocity (b, dir)
<1>1. b.dir \in SUBSET M!Direction /\ dir \in SUBSET M!Direction
  BY DEF M!Body
<1>2. /\ v.dir = b.dir /\ v.heading = b.heading
      /\ v.vx = IF "east" \in dir THEN 1 ELSE IF "west" \in dir THEN -1 ELSE 0
      /\ v.vy = IF "south" \in dir THEN 1 ELSE IF "north" \in dir THEN -1 ELSE 0
  BY <1>1, DiagonalOf
<1>3. M!Opposite (d) = IF d = "west" THEN "east" ELSE IF d = "east" THEN "west"
                       ELSE IF d = "north" THEN "south" ELSE "north"
  BY DEF M!Opposite, M!Direction
<1>4. d = "west" \/ d = "east" \/ d = "north" \/ d = "south"
  BY DEF M!Direction
<1>5. ~ ("east" \in dir /\ "west" \in dir) /\ ~ ("south" \in dir /\ "north" \in dir)
  BY <1>3, <1>4 DEF Directed
<1> HIDE DEF v
<1>6. v.vx # 0 /\ v.vy # 0 => M!Diagonal (v) \in dir
  BY <1>2, <1>3, <1>4, <1>5 DEF Directed, M!Diagonal
<1> HIDE DEF dir
<1>7. Directed (M!Heads (b, dir))
  BY <1>1, <1>5, <1>6, HeadsDirected DEF v
<1>8. QED
  BY <1>7 DEF dir

LEMMA HeadsWithout ==
  ASSUME NEW b \in M!Body, Directed (b), NEW d \in M!Direction
  PROVE  Directed (M!Heads (b, b.dir \ {d}))
<1> DEFINE dir == b.dir \ {d}
           v == M!UpdateVelocity (b, dir)
<1>1. b.dir \in SUBSET M!Direction /\ dir \in SUBSET M!Direction
  BY DEF M!Body
<1>2. /\ v.dir = b.dir /\ v.heading = b.heading
      /\ v.vx = IF "east" \in dir THEN 1 ELSE IF "west" \in dir THEN -1 ELSE 0
      /\ v.vy = IF "south" \in dir THEN 1 ELSE IF "north" \in dir THEN -1 ELSE 0
  BY <1>1, DiagonalOf
<1>3. d = "west" \/ d = "east" \/ d = "north" \/ d = "south"
  BY DEF M!Direction
<1>4. ~ ("east" \in dir /\ "west" \in dir) /\ ~ ("south" \in dir /\ "north" \in dir)
  BY DEF Directed
<1> HIDE DEF v
<1>5. v.vx # 0 /\ v.vy # 0 => M!Diagonal (v) \in dir
  BY <1>1, <1>2, <1>3, <1>4 DEF Directed, M!Diagonal, M!Direction
<1> HIDE DEF dir
<1>6. Directed (M!Heads (b, dir))
  BY <1>1, <1>4, <1>5, HeadsDirected DEF v
<1>7. QED
  BY <1>6 DEF dir

LEMMA GreaterLesser ==
  ASSUME NEW a \in Int, NEW b \in Int
  PROVE  /\ M!Greater (a, b) \in Int /\ M!Greater (a, b) >= a /\ M!Greater (a, b) >= b
         /\ M!Greater (a, b) = a \/ M!Greater (a, b) = b
         /\ M!Lesser (a, b) \in Int /\ M!Lesser (a, b) <= a /\ M!Lesser (a, b) <= b
BY DEF M!Greater, M!Lesser

\* A frame: where a character gets, and what stays as it is.
LEMMA MovedKeeps ==
  ASSUME M!MovingAssumption, NEW b \in M!Body
  PROVE  LET a == M!Moved (b)
             x == M!Column2 (b)
             floor == Ground[x] * 10
             up == M!Greater (M!Lesser (b.pos + b.vspeed, Ceiling * 10), floor)
             down == M!Greater (up - Gravity, floor)
         IN /\ a \in M!Body
            /\ SameCourse (a, b) /\ a.vspeed = b.vspeed
            /\ Ground[x] \in Nat
            /\ a.x = x /\ a.z = M!Round (down) /\ a.ground = Ground[x] /\ a.pos = down
<1> DEFINE x == M!Column2 (b)
           floor == Ground[x] * 10
           up == M!Greater (M!Lesser (b.pos + b.vspeed, Ceiling * 10), floor)
           down == M!Greater (up - Gravity, floor)
<1>1. b.x \in M!Column /\ b.vx \in Int /\ b.pos \in Int /\ b.vspeed \in Int
  BY MovingConstants DEF M!Body
<1>2. x \in M!Column
  BY <1>1, Zenon DEF M!Column2
<1>3. Ground[x] \in Nat /\ floor \in Int
  BY <1>2, MovingConstants
<1>4. up \in Int /\ down \in Int /\ down >= floor
  <2>1. b.pos + b.vspeed \in Int /\ Ceiling * 10 \in Int /\ Gravity \in Int
    BY <1>1, MovingConstants
  <2>2. M!Lesser (b.pos + b.vspeed, Ceiling * 10) \in Int
    BY <2>1, GreaterLesser
  <2> HIDE DEF floor
  <2>3. up \in Int
    BY <1>3, <2>2, GreaterLesser, Zenon
  <2> HIDE DEF up
  <2>4. up - Gravity \in Int
    BY <2>1, <2>3
  <2>5. QED
    BY <1>3, <2>3, <2>4, GreaterLesser, Zenon
<1>5. M!Moved (b) = [b EXCEPT !.x = x, !.z = M!Round (down), !.ground = Ground[x],
                              !.pos = IF down >= Ground[x] * 10 THEN down ELSE Ground[x] * 10]
  BY DEF M!Moved
<1> HIDE DEF x, up, down
<1>6. M!Moved (b) = WithPosition (b, x, M!Round (down), Ground[x], down)
  BY <1>4, <1>5, Zenon DEF floor, WithPosition
<1>7. M!Round (down) \in Int /\ Ground[x] \in Int
  BY <1>3, <1>4 DEF M!Round
<1>8. M!Moved (b) \in M!Body
  BY <1>2, <1>4, <1>6, <1>7, SetPosition
<1>9. QED
  BY <1>2, <1>3, <1>4, <1>6, <1>7, SetPosition DEF x, up, down

LEMMA VelocityKeeps ==
  ASSUME NEW b \in M!Body, NEW dir \in SUBSET M!Direction
  PROVE  LET a == M!UpdateVelocity (b, dir)
         IN /\ a.x = b.x /\ a.z = b.z /\ a.ground = b.ground /\ a.pos = b.pos /\ a.vspeed = b.vspeed
            /\ a.dir = b.dir /\ a.heading = b.heading /\ a.gait = b.gait
            /\ a.running = b.running /\ a.fast = b.running
BY DEF M!UpdateVelocity, M!Body

LEMMA DirectedSame ==
  ASSUME NEW a, NEW b, SameCourse (a, b)
  PROVE  (Paced (b) => Paced (a)) /\ (Directed (b) => Directed (a))
BY DEF SameCourse, Paced, Directed

\* Who has landed may go at another pace, but neither elsewhere nor up or down.
LEMMA LandedKeeps ==
  ASSUME M!MovingAssumption, NEW b \in M!Body
  PROVE  LET a == M!Landed (b)
         IN /\ a \in M!Body
            /\ a.x = b.x /\ a.z = b.z /\ a.ground = b.ground /\ a.pos = b.pos /\ a.vspeed = 0
            /\ Paced (b) => Paced (a)
            /\ Directed (b) => Directed (a)
<1> DEFINE l == WithSpeed (b, 0)
           w == WithPace (l, l.toggle, l.toggle)
           p == IF l.running # l.toggle THEN M!Heads (w, l.dir) ELSE l
           a == M!UpdateVelocity (p, p.dir)
<1>1. 0 \in MinSpeed - Slowdown .. JumpSpeed
  BY MovingConstants
<1>2. /\ l \in M!Body /\ SameCourse (l, b) /\ l.vspeed = 0
      /\ l.x = b.x /\ l.z = b.z /\ l.ground = b.ground /\ l.pos = b.pos
  BY <1>1, SetSpeed
<1> HIDE DEF l
<1>3. l.toggle \in BOOLEAN /\ l.dir \in SUBSET M!Direction /\ l.running \in BOOLEAN
  BY <1>2 DEF M!Body
<1>4. /\ w \in M!Body
      /\ w.x = l.x /\ w.z = l.z /\ w.ground = l.ground /\ w.pos = l.pos /\ w.vspeed = l.vspeed
      /\ w.vx = l.vx /\ w.vy = l.vy /\ w.dir = l.dir /\ w.heading = l.heading
  BY <1>2, <1>3, SetPace
<1>5. w = [l EXCEPT !.running = l.toggle]
  BY <1>2, <1>3 DEF M!Body, WithPace
<1> HIDE DEF w
<1>6. /\ p \in M!Body /\ p.dir = l.dir
      /\ p.x = l.x /\ p.z = l.z /\ p.ground = l.ground /\ p.pos = l.pos /\ p.vspeed = l.vspeed
  BY <1>2, <1>3, <1>4, HeadsKeeps
<1>7. Paced (b) => Paced (p)
  BY <1>2, <1>3, <1>4, HeadsPaced, DirectedSame
<1>8. Directed (b) => Directed (p)
  <2>1. Directed (b) => Directed (l) /\ Directed (w)
    BY <1>2, <1>4, DirectedSame DEF Directed
  <2>2. QED
    BY <1>4, <2>1, HeadsAgain
<1>9. M!Landed (b) = IF p.vx # 0 \/ p.vy # 0 THEN a ELSE p
  BY <1>5 DEF M!Landed, l, WithSpeed
<1> HIDE DEF p
<1>10. p.dir \in SUBSET M!Direction
  BY <1>6 DEF M!Body
<1>11. /\ a \in M!Body
       /\ a.x = p.x /\ a.z = p.z /\ a.ground = p.ground /\ a.pos = p.pos /\ a.vspeed = p.vspeed
       /\ a.dir = p.dir /\ a.heading = p.heading /\ a.gait = p.gait
       /\ a.running = p.running /\ a.fast = p.running
  BY <1>6, <1>10, VelocityType, VelocityKeeps
<1>12. /\ a.vx = IF "east" \in p.dir THEN 1 ELSE IF "west" \in p.dir THEN -1 ELSE 0
       /\ a.vy = IF "south" \in p.dir THEN 1 ELSE IF "north" \in p.dir THEN -1 ELSE 0
  BY <1>6, <1>10, DiagonalOf
<1> HIDE DEF a
<1>13. Paced (p) /\ (p.vx # 0 \/ p.vy # 0) => Paced (a)
  BY <1>11 DEF Paced
<1>14. Directed (p) => Directed (a)
  BY <1>11, <1>12 DEF Directed
<1>15. QED
  BY <1>2, <1>6, <1>7, <1>8, <1>9, <1>11, <1>13, <1>14

LEMMA FallsKeeps ==
  ASSUME M!MovingAssumption, NEW b \in M!Body, NEW n \in 0 .. 3
  PROVE  LET a == M!Falls (b, n)
         IN /\ a \in M!Body /\ SameCourse (a, b)
            /\ a.x = b.x /\ a.z = b.z /\ a.ground = b.ground /\ a.pos = b.pos
            /\ a.vspeed = IF n > 2 THEN 0 ELSE IF b.vspeed > MinSpeed THEN b.vspeed - Slowdown ELSE b.vspeed
<1> DEFINE s == IF n > 2 THEN 0 ELSE IF b.vspeed > MinSpeed THEN b.vspeed - Slowdown ELSE b.vspeed
<1>1. b.vspeed \in MinSpeed - Slowdown .. JumpSpeed
  BY DEF M!Body
<1>2. s \in MinSpeed - Slowdown .. JumpSpeed
  BY <1>1, MovingConstants
<1>3. M!Falls (b, n) = WithSpeed (b, s)
  BY DEF M!Falls, WithSpeed
<1> HIDE DEF s
<1>4. QED
  BY <1>2, <1>3, SetSpeed DEF s

LEMMA UpdateKeeps ==
  ASSUME M!MovingAssumption, NEW b \in M!Body
  PROVE  M!MovingUpdate (b) \in M!Body /\ SameCourse (M!MovingUpdate (b), b)
         /\ M!MovingUpdate (b).vspeed = b.vspeed
BY MovedKeeps DEF M!MovingUpdate, SameCourse

\* An update tells everyone who listens for the zones that were entered and left.
LEMMA ToldAll ==
  ASSUME None \notin Zone, NEW c, NEW start, NEW end
  PROVE  M!Told ({z \in Zone : start \in z}, c, start, end) = {z \in Zone : end \in z}
BY DEF M!Told, M!Equals

\* The character is put in a new state, on the same column.
LEMMA MovingUpd ==
  ASSUME MovingInv, NEW c \in M!Character, NEW b \in M!Body, M!Upd (c, b),
         Paced (b), c \in PlayerCharacter => Directed (b), b.x = body[c].x
  PROVE  MovingInv'
<1>1. /\ body \in [M!Character -> M!Body] /\ body' = [body EXCEPT ![c] = b]
      /\ stuck' = stuck /\ turn' = turn /\ entered' = entered
  BY DEF MovingInv, M!TypeOK, M!Upd
<1>2. body' \in [M!Character -> M!Body]
  BY <1>1
<1>3. \A d \in M!Character : body'[d] = IF d = c THEN b ELSE body[d]
  BY <1>1
<1>4. M!TypeOK'
  BY <1>1, <1>2 DEF MovingInv, M!TypeOK
<1>5. (\A d \in M!Character : Paced (body[d]))'
  BY <1>3 DEF MovingInv
<1>6. ASSUME NEW d \in PlayerCharacter
      PROVE  Directed (body'[d])
  <2>1. d = c \/ body'[d] = body[d]
    BY <1>1
  <2>2. body'[c] = b
    BY <1>3
  <2>3. QED
    BY <2>1, <2>2 DEF MovingInv
<1>7. M!ZonesKnown'
  BY <1>1, <1>3 DEF MovingInv, M!ZonesKnown
<1>8. QED
  BY <1>4, <1>5, <1>6, <1>7 DEF MovingInv

LEMMA MovingDirections ==
  ASSUME M!MovingAssumption, MovingInv, NEW c \in M!Character, NEW d \in Keys,
         M!AddDirection (c, d) \/ M!RemoveDirection (c, d)
  PROVE  MovingInv'
<1>1. d \in M!Direction
  BY DEF M!MovingAssumption
<1>2. body[c] \in M!Body /\ c \in PlayerCharacter
  BY DEF MovingInv, M!TypeOK, M!AddDirection, M!RemoveDirection
<1>3. body[c].dir \in SUBSET M!Direction /\ Directed (body[c])
  BY <1>2 DEF M!Body, MovingInv
<1> DEFINE more == (body[c].dir \ {M!Opposite (d)}) \cup {d}
           less == body[c].dir \ {d}
<1>4. more \in SUBSET M!Direction /\ less \in SUBSET M!Direction
  BY <1>1, <1>3
<1>5. Directed (M!Heads (body[c], more)) /\ Directed (M!Heads (body[c], less))
  BY <1>1, <1>2, <1>3, HeadsWith, HeadsWithout
<1>6. M!Upd (c, M!Heads (body[c], more)) \/ M!Upd (c, M!Heads (body[c], less))
  BY DEF M!AddDirection, M!RemoveDirection
<1> HIDE DEF more, less
<1>7. \A dir \in {more, less} :
        /\ M!Heads (body[c], dir) \in M!Body /\ Paced (M!Heads (body[c], dir))
        /\ M!Heads (body[c], dir).x = body[c].x
  BY <1>2, <1>4, HeadsKeeps, HeadsPaced
<1>8. QED
  BY <1>2, <1>5, <1>6, <1>7, MovingUpd

LEMMA MovingPath ==
  ASSUME M!MovingAssumption, MovingInv, NEW c \in M!Character,
         \/ \E dir \in PathDirs : M!SetDirection (c, dir)
         \/ \E d \in Keys : M!Arrive (c, d)
  PROVE  MovingInv'
<1>1. body[c] \in M!Body /\ Keys \subseteq M!Direction /\ PathDirs \subseteq SUBSET M!Direction
  BY DEF MovingInv, M!TypeOK, M!MovingAssumption
<1>2. CASE \E dir \in PathDirs : M!SetDirection (c, dir)
  <2>1. PICK dir \in SUBSET M!Direction : M!SetDirection (c, dir)
    BY <1>1, <1>2
  <2>2. c \notin PlayerCharacter /\ M!Upd (c, M!Heads (body[c], dir))
    BY <2>1 DEF M!SetDirection
  <2>3. QED
    BY <1>1, <2>2, HeadsKeeps, HeadsPaced, MovingUpd
<1>3. CASE \E d \in Keys : M!Arrive (c, d)
  <2>1. PICK d \in M!Direction : M!Arrive (c, d)
    BY <1>1, <1>3
  <2> DEFINE h == M!Heads (body[c], {d})
             b == WithVelocity (h, 0, 0, h.fast)
  <2>2. h \in M!Body /\ h.x = body[c].x /\ Paced (h)
    BY <1>1, HeadsKeeps, HeadsPaced
  <2>3. h.fast \in BOOLEAN
    BY <2>2 DEF M!Body
  <2>4. c \notin PlayerCharacter /\ M!Upd (c, [h EXCEPT !.vx = 0, !.vy = 0])
    BY <2>1 DEF M!Arrive
  <2> HIDE DEF h
  <2>5. b = [h EXCEPT !.vx = 0, !.vy = 0]
    BY <2>2 DEF WithVelocity, M!Body
  <2>6. b \in M!Body /\ b.x = h.x /\ b.vx = 0 /\ b.vy = 0
    <3>1. b \in M!Body
      BY <2>2, <2>3, SetVelocity
    <3>2. QED
      BY <2>2, <3>1 DEF WithVelocity, M!Body
  <2> HIDE DEF b
  <2>7. Paced (b)
    BY <2>6 DEF Paced
  <2>8. QED
    BY <2>2, <2>4, <2>5, <2>6, <2>7, MovingUpd
<1>4. QED
  BY <1>2, <1>3

LEMMA MovingJump ==
  ASSUME M!MovingAssumption, MovingInv, NEW c \in M!Character, M!Jump (c)
  PROVE  MovingInv'
<1>1. body[c] \in M!Body /\ Paced (body[c]) /\ (c \in PlayerCharacter => Directed (body[c]))
  BY DEF MovingInv, M!TypeOK
<1> DEFINE b == WithSpeed (body[c], JumpSpeed)
<1>2. JumpSpeed \in MinSpeed - Slowdown .. JumpSpeed
  BY MovingConstants
<1>3. b \in M!Body /\ SameCourse (b, body[c]) /\ b.x = body[c].x
  BY <1>1, <1>2, SetSpeed
<1>4. M!Upd (c, b)
  BY DEF M!Jump, WithSpeed
<1> HIDE DEF b
<1>5. QED
  BY <1>1, <1>3, <1>4, DirectedSame, MovingUpd

LEMMA MovingPace ==
  ASSUME M!MovingAssumption, MovingInv, NEW c \in M!Character, NEW on \in BOOLEAN, M!SetRunning (c, on)
  PROVE  MovingInv'
<1> DEFINE old == body[c]
           w == WithPace (old, on, on)
           t == WithPace (old, on, old.running)
           h == M!Heads (w, old.dir)
           b == IF old.vspeed = 0 THEN h ELSE t
<1>1. old \in M!Body /\ Paced (old) /\ (c \in PlayerCharacter => Directed (old))
  BY DEF MovingInv, M!TypeOK
<1>2. old.running \in BOOLEAN /\ old.dir \in SUBSET M!Direction
  BY <1>1 DEF M!Body
<1>3. M!Upd (c, b)
  <2>1. w = [old EXCEPT !.toggle = on, !.running = on]
    BY DEF WithPace
  <2>2. t = [old EXCEPT !.toggle = on]
    BY <1>1 DEF WithPace, M!Body
  <2>3. QED
    BY <2>1, <2>2 DEF M!SetRunning, M!Toggled
<1> HIDE DEF old
<1>4. /\ w \in M!Body /\ w.x = old.x
      /\ w.vx = old.vx /\ w.vy = old.vy /\ w.dir = old.dir /\ w.heading = old.heading
  BY <1>1, <1>2, SetPace
<1>5. /\ t \in M!Body /\ t.x = old.x
      /\ t.vx = old.vx /\ t.vy = old.vy /\ t.dir = old.dir /\ t.heading = old.heading
      /\ t.fast = old.fast /\ t.gait = old.gait /\ t.running = old.running
  BY <1>1, <1>2, SetPace
<1> HIDE DEF w, t
<1>6. Paced (t) /\ (c \in PlayerCharacter => Directed (t) /\ Directed (w))
  BY <1>1, <1>4, <1>5 DEF Paced, Directed
<1>7. h \in M!Body /\ h.x = old.x /\ Paced (h)
  BY <1>2, <1>4, HeadsKeeps, HeadsPaced
<1>8. c \in PlayerCharacter => Directed (h)
  BY <1>4, <1>6, HeadsAgain
<1> HIDE DEF h
<1>9. QED
  BY <1>3, <1>5, <1>6, <1>7, <1>8, MovingUpd DEF old

LEMMA MovingLoad ==
  ASSUME M!MovingAssumption, MovingInv, NEW c \in M!Character, M!SaveAndLoad (c)
  PROVE  MovingInv'
<1> DEFINE old == body[c]
           b == [old EXCEPT !.running = FALSE, !.toggle = FALSE, !.dir = {}, !.ground = Ground[old.x]]
           h == M!Heads (b, old.dir)
<1>1. old \in M!Body /\ Paced (old) /\ (c \in PlayerCharacter => Directed (old))
  BY DEF MovingInv, M!TypeOK
<1>2. old.dir \in SUBSET M!Direction /\ Ground[old.x] \in Int
  BY <1>1, MovingConstants DEF M!Body
<1>3. M!Upd (c, h)
  BY DEF M!SaveAndLoad
<1> HIDE DEF old
<1>4. b \in M!Body
  BY <1>1, <1>2 DEF M!Body
<1>5. b.x = old.x /\ b.dir = {} /\ b.heading = old.heading
  BY <1>1 DEF M!Body
<1> HIDE DEF b
<1>6. h \in M!Body /\ h.x = old.x /\ Paced (h)
  BY <1>2, <1>4, <1>5, HeadsKeeps, HeadsPaced
<1>7. ASSUME c \in PlayerCharacter
      PROVE  Directed (h)
  <2> DEFINE v == M!UpdateVelocity (b, old.dir)
  <2>1. /\ v.dir = b.dir /\ v.heading = b.heading
        /\ v.vx = IF "east" \in old.dir THEN 1 ELSE IF "west" \in old.dir THEN -1 ELSE 0
        /\ v.vy = IF "south" \in old.dir THEN 1 ELSE IF "north" \in old.dir THEN -1 ELSE 0
    BY <1>2, <1>4, DiagonalOf
  <2> HIDE DEF v
  <2>2. v.vx # 0 /\ v.vy # 0 => M!Diagonal (v) \in old.dir
    BY <1>1, <1>5, <1>7, <2>1 DEF Directed, M!Diagonal
  <2>3. ~ ("east" \in old.dir /\ "west" \in old.dir) /\ ~ ("south" \in old.dir /\ "north" \in old.dir)
    BY <1>1, <1>7 DEF Directed
  <2>4. QED
    BY <1>2, <1>4, <2>2, <2>3, HeadsDirected DEF v
<1> HIDE DEF h
<1>8. QED
  BY <1>3, <1>6, <1>7, MovingUpd DEF old

\* A frame of the character whose turn it is.
LEMMA MovingFrame ==
  ASSUME M!MovingAssumption, MovingInv, M!Update
  PROVE  MovingInv'
<1> DEFINE c == CharOrder[turn]
           old == body[c]
           b == M!MovingUpdate (old)
           n == IF b.vspeed >= 0 /\ b.z = old.z THEN M!Lesser (stuck + 1, 3) ELSE 0
           landed == M!OnGround (b) /\ b.vspeed <= 0
           new == IF landed THEN M!Landed (b) ELSE M!Falls (b, n)
<1>1. turn \in DOMAIN CharOrder /\ c \in M!Character /\ stuck \in 0 .. 3
  BY MovingConstants DEF MovingInv, M!TypeOK
<1>2. old \in M!Body /\ Paced (old) /\ (c \in PlayerCharacter => Directed (old))
  BY <1>1 DEF MovingInv, M!TypeOK
<1>3. /\ body' = [body EXCEPT ![c] = new]
      /\ stuck' = IF landed THEN 0 ELSE n
      /\ entered' = [entered EXCEPT ![c] = IF old = b THEN @ ELSE M!Told (@, c, M!StartOf (old, b), b.x)]
      /\ turn' = (turn % Len (CharOrder)) + 1
  BY DEF M!Update
<1> HIDE DEF c, old
<1>4. b \in M!Body /\ SameCourse (b, old)
  BY <1>2, UpdateKeeps
<1>5. Paced (b) /\ (c \in PlayerCharacter => Directed (b))
  BY <1>2, <1>4, DirectedSame
<1> HIDE DEF b
<1>6. n \in 0 .. 3
  BY <1>1 DEF M!Lesser
<1> HIDE DEF n, landed
<1>7. new \in M!Body /\ new.x = b.x /\ Paced (new) /\ (c \in PlayerCharacter => Directed (new))
  <2>1. /\ M!Falls (b, n) \in M!Body /\ M!Falls (b, n).x = b.x
        /\ Paced (M!Falls (b, n)) /\ (c \in PlayerCharacter => Directed (M!Falls (b, n)))
    BY <1>4, <1>5, <1>6, FallsKeeps, DirectedSame
  <2>2. /\ M!Landed (b) \in M!Body /\ M!Landed (b).x = b.x
        /\ Paced (M!Landed (b)) /\ (c \in PlayerCharacter => Directed (M!Landed (b)))
    BY <1>4, <1>5, LandedKeeps
  <2>3. QED
    BY <2>1, <2>2
<1> HIDE DEF new
<1>8. \A d \in M!Character : body'[d] = IF d = c THEN new ELSE body[d]
  BY <1>1, <1>3 DEF MovingInv, M!TypeOK
<1>9. body' \in [M!Character -> M!Body]
  BY <1>3, <1>7 DEF MovingInv, M!TypeOK
<1>10. turn' \in DOMAIN CharOrder /\ stuck' \in 0 .. 3
  <2>1. turn' \in DOMAIN CharOrder
    <3> DEFINE k == Len (CharOrder)
    <3>1. k \in Nat /\ k > 0 /\ turn \in 1 .. k /\ DOMAIN CharOrder = 1 .. k
      BY <1>1, MovingConstants
    <3>2. turn' = (turn % k) + 1
      BY <1>3
    <3> HIDE DEF k
    <3>3. QED
      BY <3>1, <3>2
  <2>2. QED
    BY <1>3, <1>6, <2>1
<1>11. entered' \in [M!Character -> SUBSET Zone]
       /\ \A d \in M!Character : entered'[d] = {z \in Zone : body'[d].x \in z}
  <2>1. /\ entered \in [M!Character -> SUBSET Zone]
        /\ \A d \in M!Character : entered[d] = {z \in Zone : body[d].x \in z}
    BY DEF MovingInv, M!TypeOK, M!ZonesKnown
  <2> DEFINE told == IF old = b THEN entered[c] ELSE M!Told (entered[c], c, M!StartOf (old, b), b.x)
  <2>2. entered' = [entered EXCEPT ![c] = told]
    BY <1>3
  <2>3. told = {z \in Zone : b.x \in z}
    <3>1. entered[c] = {z \in Zone : old.x \in z}
      BY <1>1, <2>1 DEF old
    <3>2. None \notin Zone /\ M!StartOf (old, b) = old.x
      BY DEF M!MovingAssumption, M!StartOf
    <3>3. QED
      BY <3>1, <3>2, ToldAll
  <2> HIDE DEF told
  <2>4. \A d \in M!Character : entered'[d] = IF d = c THEN told ELSE entered[d]
    BY <2>1, <2>2
  <2>5. told \in SUBSET Zone
    BY <2>3
  <2>6. entered' \in [M!Character -> SUBSET Zone]
    BY <2>1, <2>2, <2>5
  <2>7. ASSUME NEW d \in M!Character
        PROVE  entered'[d] = {z \in Zone : body'[d].x \in z}
    <3>1. CASE d = c
      BY <1>1, <1>7, <1>8, <2>3, <2>4, <3>1
    <3>2. CASE d # c
      BY <1>8, <2>1, <2>4, <3>2
    <3>3. QED
      BY <3>1, <3>2
  <2>8. QED
    BY <2>6, <2>7
<1>12. M!TypeOK' /\ M!ZonesKnown'
  BY <1>9, <1>10, <1>11 DEF M!TypeOK, M!ZonesKnown
<1>13. ASSUME NEW d \in M!Character
       PROVE  Paced (body'[d]) /\ (d \in PlayerCharacter => Directed (body'[d]))
  <2>1. CASE d = c
    BY <1>7, <1>8, <2>1
  <2>2. CASE d # c
    BY <1>8, <2>2 DEF MovingInv
  <2>3. QED
    BY <2>1, <2>2
<1>14. PlayerCharacter \subseteq M!Character
  BY MovingConstants
<1>15. QED
  BY <1>12, <1>13, <1>14 DEF MovingInv

LEMMA MovingNext ==
  ASSUME M!MovingAssumption, MovingInv, M!Next
  PROVE  MovingInv'
<1>1. CASE M!Update
  BY <1>1, MovingFrame
<1>2. ASSUME NEW c \in M!Character, NEW d \in Keys, M!AddDirection (c, d) \/ M!RemoveDirection (c, d)
      PROVE  MovingInv'
  BY <1>2, MovingDirections
<1>3. ASSUME NEW c \in M!Character,
             (\E dir \in PathDirs : M!SetDirection (c, dir)) \/ (\E d \in Keys : M!Arrive (c, d))
      PROVE  MovingInv'
  BY <1>3, MovingPath
<1>4. ASSUME NEW c \in M!Character, M!Jump (c)
      PROVE  MovingInv'
  BY <1>4, MovingJump
<1>5. ASSUME NEW c \in M!Character, NEW on \in BOOLEAN, M!SetRunning (c, on)
      PROVE  MovingInv'
  BY <1>5, MovingPace
<1>6. ASSUME NEW c \in M!Character, M!SaveAndLoad (c)
      PROVE  MovingInv'
  BY <1>6, MovingLoad
<1>7. QED
  BY <1>1, <1>2, <1>3, <1>4, <1>5, <1>6 DEF M!Next

LEMMA MovingInit ==
  ASSUME M!MovingAssumption, M!Init
  PROVE  MovingInv
<1> DEFINE First (c) ==
       [x |-> Start[c], z |-> Ground[Start[c]], pos |-> Ground[Start[c]] * 10, ground |-> Ground[Start[c]],
        vspeed |-> 0, vx |-> 0, vy |-> 0, fast |-> FALSE, running |-> FALSE, toggle |-> FALSE, dir |-> {},
        heading |-> "west", gait |-> "stand"]
<1>1. /\ body = [c \in M!Character |-> First (c)]
      /\ stuck = 0 /\ turn = 1 /\ entered = [c \in M!Character |-> {z \in Zone : Start[c] \in z}]
  BY DEF M!Init
<1>2. ASSUME NEW c \in M!Character
      PROVE  First (c) \in M!Body
  <2>1. Start[c] \in M!Column
    BY DEF M!MovingAssumption
  <2>2. Ground[Start[c]] \in Int /\ Ground[Start[c]] * 10 \in Int /\ 0 \in MinSpeed - Slowdown .. JumpSpeed
    BY <2>1, MovingConstants
  <2>3. QED
    BY <2>1, <2>2 DEF M!Body, M!Direction
<1>3. \A c \in M!Character : Paced (First (c)) /\ Directed (First (c)) /\ First (c).x = Start[c]
  BY DEF Paced, Directed
<1> HIDE DEF First
<1>4. M!TypeOK /\ M!ZonesKnown
  BY <1>1, <1>2, <1>3, MovingConstants DEF M!TypeOK, M!ZonesKnown
<1>5. QED
  BY <1>1, <1>3, <1>4, MovingConstants DEF MovingInv

\* Positions that are whole pixels are not rounded; less than half a pixel
\* above one is not above it.
LEMMA RoundWhole ==
  ASSUME NEW k \in Int
  PROVE  M!Round (k * 10) = k
BY DEF M!Round

\* Each frame in the air makes a character slower or lower.
LEMMA FrameComesDown ==
  ASSUME M!MovingAssumption, MovingInv, M!Update,
         LET c == CharOrder[turn] IN body[c].vspeed # 0 \/ ~ M!OnGround (body[c])
  PROVE  LET c == CharOrder[turn]
         IN \/ body'[c].vspeed < body[c].vspeed \/ body'[c].pos < body[c].pos
            \/ body'[c].vspeed = 0 /\ body'[c].pos = body'[c].ground * 10
<1> DEFINE c == CharOrder[turn]
           old == body[c]
           b == M!Moved (old)
           n == IF b.vspeed >= 0 /\ b.z = old.z THEN M!Lesser (stuck + 1, 3) ELSE 0
           landed == M!OnGround (b) /\ b.vspeed <= 0
           new == IF landed THEN M!Landed (b) ELSE M!Falls (b, n)
           x == M!Column2 (old)
           floor == Ground[x] * 10
           up == M!Greater (M!Lesser (old.pos + old.vspeed, Ceiling * 10), floor)
           down == M!Greater (up - Gravity, floor)
<1>1. c \in M!Character /\ stuck \in 0 .. 3 /\ old \in M!Body
  BY MovingConstants DEF MovingInv, M!TypeOK
<1>2. old.pos \in Int /\ old.z \in Int /\ old.ground \in Int /\ old.vspeed \in Int
  <2>1. old.pos \in Int /\ old.z \in Int /\ old.ground \in Int
        /\ old.vspeed \in MinSpeed - Slowdown .. JumpSpeed
    BY <1>1 DEF M!Body
  <2>2. MinSpeed - Slowdown \in Int /\ JumpSpeed \in Int
    BY MovingConstants
  <2> HIDE DEF old
  <2>3. QED
    BY <2>1, <2>2
<1>3. M!MovingUpdate (old) = b
  BY <1>2 DEF M!MovingUpdate, M!OnGround
<1>4. body'[c] = new
  BY <1>1, <1>3 DEF M!Update, MovingInv, M!TypeOK
<1> HIDE DEF c, old
<1>5. /\ b \in M!Body /\ b.vspeed = old.vspeed /\ Ground[x] \in Nat
      /\ b.z = M!Round (down) /\ b.ground = Ground[x] /\ b.pos = down
  BY <1>1, MovedKeeps
<1> DEFINE flight == M!Lesser (old.pos + old.vspeed, Ceiling * 10)
<1> HIDE DEF b, x
<1>6. floor \in Int /\ Ceiling * 10 \in Int /\ old.pos + old.vspeed \in Int
  <2>1. Ceiling * 10 \in Int
    BY MovingConstants
  <2>2. floor \in Int
    BY <1>5
  <2>3. QED
    BY <1>2, <2>1, <2>2
<1>7. flight \in Int /\ flight <= old.pos + old.vspeed
  BY <1>6, GreaterLesser
<1> HIDE DEF floor, flight
<1>8. up = M!Greater (flight, floor)
  BY DEF flight
<1> HIDE DEF up
<1>9. up \in Int /\ (up = flight \/ up = floor)
  BY <1>6, <1>7, <1>8, GreaterLesser
<1>10. up - Gravity \in Int /\ up - Gravity < up
  BY <1>9, MovingConstants
<1>11. down \in Int /\ (down = up - Gravity \/ down = floor) /\ down >= up - Gravity /\ down >= floor
  BY <1>6, <1>10, GreaterLesser
<1> HIDE DEF down
<1>12. old.vspeed <= 0 => down < old.pos \/ down = floor
  BY <1>2, <1>6, <1>7, <1>9, <1>10, <1>11
<1>13. M!Round (floor) = Ground[x]
  BY <1>5, RoundWhole DEF floor
<1>14. CASE landed
  <2>1. new.vspeed = 0 /\ new.pos = down /\ new.ground = Ground[x]
    BY <1>5, <1>14, LandedKeeps
  <2>2. down < old.pos \/ down = floor
    BY <1>5, <1>12, <1>14
  <2>3. QED
    BY <1>4, <2>1, <2>2 DEF floor, c, old
<1>15. CASE ~ landed
  <2>1. n \in 0 .. 3
    BY <1>1 DEF M!Lesser
  <2>2. /\ new.pos = down
        /\ new.vspeed = IF n > 2 THEN 0 ELSE IF old.vspeed > MinSpeed THEN old.vspeed - Slowdown ELSE old.vspeed
    BY <1>5, <1>15, <2>1, FallsKeeps
  <2>3. old.vspeed <= 0 => down # floor
    BY <1>5, <1>13, <1>15 DEF M!OnGround
  <2>4. old.vspeed > 0 => new.vspeed < old.vspeed
    BY <1>2, <2>1, <2>2, MovingConstants
  <2>5. new.vspeed < old.vspeed \/ new.pos < old.pos
    BY <1>2, <1>12, <2>2, <2>3, <2>4
  <2>6. QED
    BY <1>4, <2>5 DEF c, old
<1>16. QED
  BY <1>14, <1>15

\* However keys, paths, jumps, falls and saving are mixed, a character goes at
\* the pace and in the direction of its movement and faces where it goes, who
\* listens for a zone knows who is in it, and who jumps comes down: for any
\* map, characters, zones and speeds (moving.cc, character.cc, move_event.cc).
THEOREM CharactersAlwaysAgree == Spec => CharactersAgree
<1> DEFINE Inv == scene = "moving" => MovingInv
<1>1. Init => Inv
  BY MovingAssumption, MovingInit DEF Init
<1>2. Inv /\ [Next]_vars => Inv'
  <2> SUFFICES ASSUME Inv, [Next]_vars, scene' = "moving"
               PROVE  MovingInv'
    OBVIOUS
  <2>1. CASE MovingStep
    BY <2>1, MovingAssumption, MovingNext DEF MovingStep
  <2>2. CASE scene' = scene /\ UNCHANGED movingVars
    BY <2>2 DEF movingVars, MovingInv, M!TypeOK, M!ZonesKnown
  <2>3. QED
    BY <2>1, <2>2 DEF Next, vars, WindowsStep, ConversationsStep, QuestsStep, MovingStep
<1>3. Inv => (scene = "moving" => M!TypeOK /\ M!PaceAgrees /\ M!FacesItsWay /\ M!ZonesKnown)
  <2>1. MovingInv => M!PaceAgrees
    BY DEF MovingInv, M!PaceAgrees, Paced
  <2>2. MovingInv => M!FacesItsWay
    BY DEF MovingInv, M!FacesItsWay, Directed
  <2>3. QED
    BY <2>1, <2>2 DEF MovingInv
<1>4. Inv /\ [Next]_vars =>
        [\A c \in M!Character :
           turn' # turn /\ c = CharOrder[turn] /\ (body[c].vspeed # 0 \/ ~ M!OnGround (body[c]))
             => \/ body'[c].vspeed < body[c].vspeed \/ body'[c].pos < body[c].pos
                \/ body'[c].vspeed = 0 /\ body'[c].pos = body'[c].ground * 10]_(M!vars)
  <2> SUFFICES ASSUME Inv, Next, turn' # turn,
                      body[CharOrder[turn]].vspeed # 0 \/ ~ M!OnGround (body[CharOrder[turn]])
               PROVE  LET c == CharOrder[turn]
                      IN \/ body'[c].vspeed < body[c].vspeed \/ body'[c].pos < body[c].pos
                         \/ body'[c].vspeed = 0 /\ body'[c].pos = body'[c].ground * 10
    BY DEF vars, movingVars, M!vars
  <2>1. scene = "moving" /\ M!Update
    BY DEF Next, WindowsStep, ConversationsStep, QuestsStep, MovingStep, movingVars,
           M!Next, M!AddDirection, M!RemoveDirection, M!SetDirection, M!Arrive, M!Jump,
           M!SaveAndLoad, M!SetRunning, M!Upd
  <2>2. QED
    BY <2>1, MovingAssumption, FrameComesDown
<1>5. QED
  BY <1>1, <1>2, <1>3, <1>4, PTL DEF Spec, CharactersAgree, M!ComesDown
-----------------------------------------------------------------------------
(***************************************************************************)
(* Conversations. What is on display fits the dialogue whenever the        *)
(* dialogue does not run, and while it runs it has said nothing yet that   *)
(* it will say.                                                            *)
(***************************************************************************)

\* How many buttons there are for a line.
Shown (l) ==
  IF l.answers = <<>> THEN 1 ELSE IF Len (l.answers) > MaxOptions THEN MaxOptions ELSE Len (l.answers)

\* After t the player has nothing to say.
NpcNext (t) == \A i \in DOMAIN Followers[t] : Followers[t][i] \in C!Npc

\* The buttons on display have the listeners that will be called, and no others are.
Attended ==
  /\ \A i \in DOMAIN options : status[options[i]] = "listed" /\ options[i] \in uiListeners
  /\ \A l \in Listener : status[l] = "listed" => \E i \in DOMAIN options : options[i] = l
  /\ line = None => options = <<>>

\* What follows the line on display is what the buttons stand for.
Displayed ==
  running = None /\ line # None =>
    /\ Len (options) = Shown (line)
    /\ Len (successors) = 1 + Len (line.answers) /\ successors[1] = line.npc
    /\ \A i \in 1 .. Len (line.answers) :
         successors[i + 1] = line.answers[i] /\ line.answers[i] \notin used
    /\ line.answers = <<>> => NpcNext (line.npc)

\* The dialogue has come to a text whose followers are the other's, or to one
\* of the other's own that is still to be said.
Underway ==
  running # None =>
    IF running.next = None THEN successors = <<>> /\ NpcNext (running.at)
    ELSE /\ successors = <<running.next>> /\ running.at = running.next
         /\ \A i \in DOMAIN Followers[running.at] : Followers[running.at][i] \in Player
         /\ running.next \notin Loop => said[running.next] = 0 /\ running.next \in used

Remembered == \A t \in Text \ Loop : said[t] \in {0, 1} /\ (said[t] = 1 => t \in used)

ConversationInv == C!TypeOK /\ Attended /\ Displayed /\ Underway /\ Remembered

LEMMA DialogueConstants ==
  ASSUME C!DialogueAssumption
  PROVE  /\ 0 \in C!Npc /\ Followers \in [Text -> Seq (Text)]
         /\ \A t \in Text : NpcNext (t) \/ \A i \in DOMAIN Followers[t] : Followers[t][i] \in Player
         /\ \A t \in Text : t \in Player \/ t = 0 => NpcNext (t)
         /\ None \notin Text /\ None \notin Nat /\ MaxOptions \in Nat \ {0}
         /\ None \notin C!DialogLine /\ None \notin C!Running
         /\ Listener \subseteq Nat \ {0} /\ C!Npc \subseteq Text
<1>1. /\ 0 \in C!Npc /\ Followers \in [Text -> Seq (Text)] /\ None \notin Text /\ None \notin Nat
      /\ None \notin C!DialogLine /\ None \notin C!Running
      /\ MaxOptions \in Nat \ {0} /\ Listener \subseteq Nat \ {0} /\ C!Npc \subseteq Text
  BY DEF C!DialogueAssumption, C!Npc
<1>2. ASSUME NEW t \in Text
      PROVE  /\ NpcNext (t) \/ \A i \in DOMAIN Followers[t] : Followers[t][i] \in Player
             /\ t \in Player \/ t = 0 => NpcNext (t)
  <2>1. LET f == {Followers[t][i] : i \in DOMAIN Followers[t]}
        IN (f \subseteq Player \/ f \subseteq C!Npc) /\ (t \in Player \cup {0} => f \subseteq C!Npc)
    BY DEF C!DialogueAssumption, C!Range
  <2>2. QED
    BY <2>1 DEF NpcNext
<1>3. QED
  BY <1>1, <1>2

\* The followers that are left are some of the followers, none said already.
LEMMA SpeechType ==
  ASSUME C!DialogueAssumption, running.at \in Text, NEW holds, NEW speech \in C!Speech (holds)
  PROVE  /\ speech \in Seq (Text)
         /\ \A i \in 1 .. Len (speech) :
              speech[i] \notin used /\ \E j \in DOMAIN Followers[running.at] : speech[i] = Followers[running.at][j]
<1> DEFINE all == Followers[running.at]
           left == {i \in DOMAIN all : (all[i] \notin Conditional \/ all[i] \in holds) /\ all[i] \notin used}
<1>1. all \in Seq (Text) /\ Len (all) \in Nat
  BY DialogueConstants
<1>2. PICK f \in UNION {C!Ascending (left, n) : n \in 0 .. Len (all)} : speech = [i \in DOMAIN f |-> all[f[i]]]
  BY Zenon DEF C!Speech
<1>3. PICK n \in 0 .. Len (all) : f \in C!Ascending (left, n)
  BY <1>2
<1>4. f \in [1 .. n -> left] /\ n \in Nat
  BY <1>1, <1>3 DEF C!Ascending
<1>5. speech = [i \in 1 .. n |-> all[f[i]]]
  BY <1>2, <1>4
<1>6. \A i \in 1 .. n : f[i] \in DOMAIN all /\ all[f[i]] \notin used /\ all[f[i]] \in Text
  BY <1>1, <1>4
<1>7. speech \in [1 .. n -> Text]
  BY <1>5, <1>6
<1>8. speech \in Seq (Text) /\ Len (speech) = n
  BY <1>4, <1>7, SeqDef
<1>9. QED
  BY <1>4, <1>5, <1>6, <1>8

\* There is a free listener for each button.
LEMMA LowestType ==
  ASSUME NEW n \in Nat, NEW o \in C!Lowest (n)
  PROVE  /\ o \in Seq (Listener) /\ Len (o) = n
         /\ \A i \in 1 .. n : o[i] \in Listener /\ status[o[i]] \in {"new", "deleted"}
<1>1. o \in [1 .. n -> C!Free]
  BY DEF C!Lowest, C!Ascending
<1>2. \A l \in C!Free : l \in Listener /\ status[l] \in {"new", "deleted"}
  BY DEF C!Free
<1>3. o \in [1 .. n -> Listener]
  BY <1>1, <1>2
<1>4. o \in Seq (Listener) /\ Len (o) = n
  BY <1>3, SeqDef
<1>5. QED
  BY <1>1, <1>2, <1>4

\* Destroyed listeners are deleted, and nothing else happens to listeners.
LEMMA DeleteKeeps ==
  ASSUME C!TypeOK, Attended, NEW ls \in SUBSET Listener, C!Delete (ls),
         \A i \in DOMAIN options' : options'[i] \notin ls,
         \/ UNCHANGED <<options, line>>
         \/ options' = <<>> /\ \A i \in DOMAIN options : options[i] \in ls
  PROVE  /\ Attended' /\ uiListeners' \subseteq Listener
         /\ status' \in [Listener -> {"new", "listed", "destroyed", "deleted"}]
<1>1. /\ uiListeners' = uiListeners \ ls
      /\ status' = [l \in Listener |-> IF l \in ls THEN "deleted" ELSE status[l]]
  BY DEF C!Delete
<1>2. /\ options \in Seq (Listener) /\ uiListeners \subseteq Listener
      /\ status \in [Listener -> {"new", "listed", "destroyed", "deleted"}]
  BY DEF C!TypeOK
<1>3. \A i \in DOMAIN options : options[i] \in Listener
  BY <1>2
<1>4. \A l \in Listener : status'[l] = IF l \in ls THEN "deleted" ELSE status[l]
  BY <1>1
<1>5. Attended'
  BY <1>1, <1>3, <1>4 DEF Attended
<1>6. QED
  BY <1>1, <1>2, <1>5

\* The buttons for a new line.
LEMMA DisplayKeeps ==
  ASSUME C!DialogueAssumption, C!TypeOK, Attended, NEW l \in C!DialogLine, C!Display (l)
  PROVE  /\ line' = l /\ line' # None /\ running' = None /\ UNCHANGED <<pending, touched>>
         /\ options' \in Seq (Listener) /\ Len (options') = Shown (l) /\ uiListeners' \subseteq Listener
         /\ status' \in [Listener -> {"new", "listed", "destroyed", "deleted"}]
         /\ firing' \in Nat \cup {None}
         /\ Attended'
<1>1. /\ line' = l /\ running' = None /\ UNCHANGED <<pending, touched>> /\ C!Resume
      /\ options' \in C!Lowest (Shown (l))
      /\ uiListeners' = uiListeners \cup C!Range (options')
      /\ status' = [k \in Listener |->
           CASE k \in C!Range (options') -> "listed" [] C!Contains (options, k) -> "destroyed" [] OTHER -> status[k]]
  BY DEF C!Display, Shown
<1>2. l.answers \in Seq (Player)
  BY DEF C!DialogLine
<1>3. Shown (l) \in Nat
  BY <1>2, DialogueConstants DEF Shown
<1>4. /\ options' \in Seq (Listener) /\ Len (options') = Shown (l) /\ DOMAIN options' = 1 .. Shown (l)
      /\ \A i \in DOMAIN options' : options'[i] \in Listener
  BY <1>1, <1>3, LowestType
<1>5. C!Range (options') = {options'[i] : i \in DOMAIN options'}
  BY DEF C!Range
<1>6. \A k : C!Contains (options, k) <=> \E i \in DOMAIN options : options[i] = k
  <2>1. options \in Seq (Listener)
    BY DEF C!TypeOK
  <2>2. DOMAIN options = 1 .. Len (options)
    BY <2>1
  <2>3. QED
    BY <2>2 DEF C!Contains
<1>7. /\ uiListeners \subseteq Listener /\ firing \in Nat \cup {None}
      /\ status \in [Listener -> {"new", "listed", "destroyed", "deleted"}]
  BY DEF C!TypeOK
<1>8. \A k \in Listener :
         status'[k] = IF k \in C!Range (options') THEN "listed"
                      ELSE IF C!Contains (options, k) THEN "destroyed" ELSE status[k]
  <2>1. TAKE k \in Listener
  <2>2. status'[k] = CASE k \in C!Range (options') -> "listed" [] C!Contains (options, k) -> "destroyed"
                       [] OTHER -> status[k]
    BY <1>1
  <2>3. CASE k \in C!Range (options')
    <3>1. status[k] \in {"new", "deleted"}
      BY <1>1, <1>3, <1>4, <1>5, <2>3, LowestType
    <3>2. ~ C!Contains (options, k)
      BY <1>6, <3>1 DEF Attended
    <3>3. QED
      BY <2>2, <2>3, <3>2
  <2>4. CASE k \notin C!Range (options')
    BY <2>2, <2>4
  <2>5. QED
    BY <2>3, <2>4
<1>9. status' \in [Listener -> {"new", "listed", "destroyed", "deleted"}]
  <2>1. \A k \in Listener : status'[k] \in {"new", "listed", "destroyed", "deleted"}
    BY <1>7, <1>8
  <2>2. QED
    BY <1>1, <2>1
<1>10. firing' \in Nat \cup {None}
  BY <1>1, <1>7 DEF C!Resume
<1>11. line' # None
  BY <1>1, DialogueConstants
<1>12. Attended'
  <2>1. \A i \in DOMAIN options' : status'[options'[i]] = "listed" /\ options'[i] \in uiListeners'
    BY <1>1, <1>4, <1>5, <1>8
  <2>2. ASSUME NEW k \in Listener, status'[k] = "listed"
        PROVE  \E i \in DOMAIN options' : options'[i] = k
    <3>1. k \in C!Range (options')
      BY <1>6, <1>8, <2>2 DEF Attended
    <3>2. QED
      BY <1>5, <3>1
  <2>3. QED
    BY <1>11, <2>1, <2>2 DEF Attended
<1>13. uiListeners' \subseteq Listener
  BY <1>1, <1>4, <1>5, <1>7
<1>14. QED
  BY <1>1, <1>4, <1>9, <1>10, <1>11, <1>12, <1>13

\* What is left when a conversation is over.
LEMMA EndKeeps ==
  ASSUME C!DialogueAssumption, C!TypeOK, Attended, C!End
  PROVE  /\ line' = None /\ running' = None /\ options' = <<>> /\ options' \in Seq (Listener)
         /\ uiListeners' \subseteq Listener
         /\ status' \in [Listener -> {"new", "listed", "destroyed", "deleted"}]
         /\ pending' \in Seq (Listener \cup {C!Finish}) /\ firing' \in Nat \cup {None}
         /\ finish' \in {"listed", "queued", "called"} /\ touched' \in BOOLEAN
         /\ Attended'
<1> DEFINE gone == C!Destroyed \cup C!Range (options)
<1>1. /\ C!Delete (gone) /\ line' = None /\ options' = <<>> /\ running' = None /\ C!Resume
      /\ pending' = IF finish = "listed" THEN Append (pending, C!Finish) ELSE pending
      /\ finish' = IF finish = "listed" THEN "queued" ELSE finish
      /\ touched' = (touched \/ firing # None)
  BY DEF C!End
<1>2. /\ options \in Seq (Listener) /\ pending \in Seq (Listener \cup {C!Finish}) /\ firing \in Nat \cup {None}
      /\ finish \in {"listed", "queued", "called"}
  BY DEF C!TypeOK
<1>3. C!Range (options) = {options[i] : i \in DOMAIN options}
  BY DEF C!Range
<1>4. gone \in SUBSET Listener /\ \A i \in DOMAIN options : options[i] \in gone
  BY <1>2, <1>3 DEF C!Destroyed
<1>5. DOMAIN options' = {} /\ options' \in Seq (Listener)
  BY <1>1
<1> HIDE DEF gone
<1>6. /\ Attended' /\ uiListeners' \subseteq Listener
      /\ status' \in [Listener -> {"new", "listed", "destroyed", "deleted"}]
  BY <1>1, <1>4, <1>5, DeleteKeeps
<1>7. pending' \in Seq (Listener \cup {C!Finish})
  BY <1>1, <1>2
<1>8. firing' \in Nat \cup {None}
  BY <1>1, <1>2 DEF C!Resume
<1>9. QED
  BY <1>1, <1>2, <1>5, <1>6, <1>7, <1>8

\* Keys pressed before the frame, and events on the way.
LEMMA ConversationEvents ==
  ASSUME C!DialogueAssumption, ConversationInv,
         \/ \E i \in 1 .. MaxOptions : C!Activate (i)
         \/ C!SwitchOption \/ C!StartFrame \/ C!PassOver \/ C!Finished \/ C!EndFrame
  PROVE  ConversationInv'
<1>1. UNCHANGED <<line, successors, used, running, said, options>>
  BY DEF C!Activate, C!SwitchOption, C!StartFrame, C!PassOver, C!Finished, C!EndFrame, C!dialogVars
<1>2. Displayed' /\ Underway' /\ Remembered'
  BY <1>1 DEF ConversationInv, Displayed, Underway, Remembered
<1>3. C!TypeOK
  BY DEF ConversationInv
<1>4. /\ options \in Seq (Listener) /\ pending \in Seq (Listener \cup {C!Finish}) /\ firing \in Nat \cup {None}
      /\ finish \in {"listed", "queued", "called"} /\ touched \in BOOLEAN
  BY <1>3 DEF C!TypeOK
<1>5. CASE C!Delete (C!Destroyed) /\ UNCHANGED <<firing, finish, touched>>
           /\ (pending' = pending \/ \E i \in 1 .. MaxOptions : i \in DOMAIN options /\ pending' = Append (pending, options[i]))
  <2>1. C!Destroyed \in SUBSET Listener /\ \A i \in DOMAIN options' : options'[i] \notin C!Destroyed
    BY <1>1 DEF C!Destroyed, ConversationInv, Attended
  <2>2. /\ Attended' /\ uiListeners' \subseteq Listener
        /\ status' \in [Listener -> {"new", "listed", "destroyed", "deleted"}]
    BY <1>1, <1>3, <1>5, <2>1, DeleteKeeps DEF ConversationInv
  <2>3. pending' \in Seq (Listener \cup {C!Finish})
    BY <1>4, <1>5
  <2>4. C!TypeOK'
    BY <1>1, <1>3, <1>5, <2>2, <2>3 DEF C!TypeOK
  <2>5. QED
    BY <1>2, <2>2, <2>4 DEF ConversationInv
<1>6. CASE UNCHANGED <<uiListeners, status>> /\ pending' \in Seq (Listener \cup {C!Finish})
           /\ firing' \in Nat \cup {None} /\ finish' \in {"listed", "queued", "called"} /\ touched' \in BOOLEAN
  <2>1. C!TypeOK'
    BY <1>1, <1>3, <1>6 DEF C!TypeOK
  <2>2. Attended'
    BY <1>1, <1>6 DEF ConversationInv, Attended
  <2>3. QED
    BY <1>2, <2>1, <2>2 DEF ConversationInv
<1>7. ASSUME NEW i \in 1 .. MaxOptions, C!Activate (i)
      PROVE  ConversationInv'
  BY <1>5, <1>7 DEF C!Activate
<1>8. CASE C!SwitchOption
  BY <1>5, <1>8 DEF C!SwitchOption
<1>9. CASE C!StartFrame
  BY <1>4, <1>6, <1>9 DEF C!StartFrame
<1>10. CASE C!PassOver
  <2>1. firing \in Nat /\ firing' = firing + 1 /\ touched' = (touched \/ status[C!Next1] = "deleted")
        /\ UNCHANGED <<uiListeners, status, pending, finish>>
    BY <1>4, <1>10 DEF C!PassOver, C!Calling
  <2>2. QED
    BY <1>4, <1>6, <2>1
<1>11. CASE C!Finished
  <2>1. firing \in Nat /\ firing' = firing + 1 /\ finish' = "called"
        /\ UNCHANGED <<uiListeners, status, pending, touched>>
    BY <1>4, <1>11 DEF C!Finished, C!Calling
  <2>2. QED
    BY <1>4, <1>6, <2>1
<1>12. CASE C!EndFrame
  BY <1>4, <1>6, <1>12 DEF C!EndFrame
<1>13. QED
  BY <1>7, <1>8, <1>9, <1>10, <1>11, <1>12

\* What has been uttered once more.
LEMMA UtterOnce ==
  ASSUME C!TypeOK, Remembered, NEW ts \in SUBSET Text, C!Utter (ts), used \subseteq used',
         \A t \in ts \ Loop : said[t] = 0 /\ t \in used'
  PROVE  said' \in [Text -> Nat] /\ Remembered'
<1>1. said' = [t \in Text |-> IF t \in ts \ Loop THEN said[t] + 1 ELSE said[t]] /\ said \in [Text -> Nat]
  BY DEF C!Utter, C!TypeOK
<1>2. \A t \in Text : said'[t] = IF t \in ts \ Loop THEN said[t] + 1 ELSE said[t]
  BY <1>1
<1>3. said' \in [Text -> Nat]
  BY <1>1
<1>4. QED
  BY <1>2, <1>3 DEF Remembered

\* A conversation begins.
LEMMA ConversationTalk ==
  ASSUME C!DialogueAssumption, ConversationInv, C!Talk
  PROVE  ConversationInv'
<1>1. /\ line = None /\ running' = [at |-> 0, next |-> None] /\ successors' = <<>>
      /\ used' = (IF 0 \in Loop THEN {} ELSE {0}) /\ finish' = "listed" /\ said' = [t \in Text |-> 0]
      /\ UNCHANGED <<line, options, uiListeners, status, pending, firing, touched>>
  BY DEF C!Talk, C!Closed
<1>2. 0 \in Text /\ NpcNext (0)
  BY DialogueConstants DEF C!Npc
<1>3. running' \in C!Running /\ running'.at = 0 /\ running'.next = None
  BY <1>1, <1>2 DEF C!Running
<1>4. running' # None
  BY <1>3, DialogueConstants
<1>5. C!TypeOK'
  BY <1>1, <1>2, <1>3 DEF ConversationInv, C!TypeOK
<1>6. Attended' /\ Displayed' /\ Underway'
  BY <1>1, <1>2, <1>3, <1>4 DEF ConversationInv, Attended, Displayed, Underway
<1>7. Remembered'
  BY <1>1 DEF Remembered
<1>8. QED
  BY <1>5, <1>6, <1>7 DEF ConversationInv

\* The dialogue runs on from t.
LEMMA ConversationRun ==
  ASSUME C!DialogueAssumption, ConversationInv, NEW t \in Text, C!Run (t), NpcNext (t),
         UNCHANGED <<line, options, uiListeners, status, pending, firing, finish, touched>>,
         NEW ts \in SUBSET {t}, C!Utter (ts), \A x \in ts : x \notin used
  PROVE  ConversationInv'
<1>1. /\ running' = [at |-> t, next |-> None] /\ successors' = <<>>
      /\ used' = IF t \in Loop THEN used ELSE used \cup {t}
  BY DEF C!Run
<1>2. running' \in C!Running /\ running'.at = t /\ running'.next = None
  BY <1>1 DEF C!Running
<1>3. running' # None
  BY <1>2, DialogueConstants
<1>4. C!TypeOK /\ Remembered
  BY DEF ConversationInv
<1>5. \A x \in ts \ Loop : said[x] = 0 /\ x \in used'
  BY <1>1, <1>4 DEF Remembered
<1>6. said' \in [Text -> Nat] /\ Remembered'
  BY <1>1, <1>4, <1>5, UtterOnce
<1>7. C!TypeOK'
  BY <1>1, <1>2, <1>4, <1>6 DEF C!TypeOK
<1>8. Attended' /\ Displayed' /\ Underway'
  BY <1>1, <1>2, <1>3 DEF ConversationInv, Attended, Displayed, Underway
<1>9. QED
  BY <1>6, <1>7, <1>8 DEF ConversationInv

LEMMA ConversationEnd ==
  ASSUME C!DialogueAssumption, ConversationInv, C!End, UNCHANGED <<successors, used, said>>
  PROVE  ConversationInv'
<1>1. /\ line' = None /\ running' = None /\ options' = <<>> /\ options' \in Seq (Listener)
      /\ uiListeners' \subseteq Listener
      /\ status' \in [Listener -> {"new", "listed", "destroyed", "deleted"}]
      /\ pending' \in Seq (Listener \cup {C!Finish}) /\ firing' \in Nat \cup {None}
      /\ finish' \in {"listed", "queued", "called"} /\ touched' \in BOOLEAN
      /\ Attended'
  BY EndKeeps DEF ConversationInv
<1>2. C!TypeOK'
  BY <1>1 DEF ConversationInv, C!TypeOK
<1>3. Displayed' /\ Underway' /\ Remembered'
  BY <1>1 DEF ConversationInv, Displayed, Underway, Remembered
<1>4. QED
  BY <1>1, <1>2, <1>3 DEF ConversationInv

\* The callback of a button.
LEMMA ConversationSelects ==
  ASSUME C!DialogueAssumption, ConversationInv, NEW i \in 1 .. MaxOptions, C!SelectOption (i)
  PROVE  ConversationInv'
<1>1. /\ C!TypeOK /\ Attended /\ running = None /\ i \in DOMAIN options
  BY DEF ConversationInv, C!SelectOption, C!Calling
<1>2. /\ options \in Seq (Listener) /\ line \in C!DialogLine \cup {None} /\ DOMAIN options = 1 .. Len (options)
      /\ successors \in Seq (Text)
  BY <1>1 DEF C!TypeOK
<1>3. line # None /\ line \in C!DialogLine
  BY <1>1, <1>2 DEF Attended
<1>4. line.npc \in C!Npc /\ line.answers \in Seq (Player)
  BY <1>3 DEF C!DialogLine
<1>5. /\ Len (options) = Shown (line)
      /\ Len (successors) = 1 + Len (line.answers) /\ successors[1] = line.npc
      /\ \A k \in 1 .. Len (line.answers) :
           successors[k + 1] = line.answers[k] /\ line.answers[k] \notin used
      /\ line.answers = <<>> => NpcNext (line.npc)
  BY <1>1, <1>3 DEF ConversationInv, Displayed
<1>6. CASE C!End /\ UNCHANGED <<successors, used, said>>
  BY <1>6, ConversationEnd
<1>7. CASE /\ C!Run (successors[C!Which (i) + 2])
           /\ C!Utter (IF C!Which (i) = -1 THEN {} ELSE {successors[C!Which (i) + 2]})
           /\ UNCHANGED <<line, C!uiVars>> /\ C!Which (i) + 2 <= Len (successors)
  <2>1. UNCHANGED <<line, options, uiListeners, status, pending, firing, finish, touched>>
    BY <1>7 DEF C!uiVars
  <2>2. CASE line.answers = <<>>
    <3>1. C!Which (i) = -1
      BY <2>2 DEF C!Which
    <3>2. C!Run (line.npc) /\ C!Utter ({})
      BY <1>5, <1>7, <3>1
    <3>3. line.npc \in Text
      BY <1>4, DialogueConstants
    <3>4. QED
      BY <1>5, <2>1, <2>2, <3>2, <3>3, ConversationRun
  <2>3. CASE line.answers # <<>>
    <3>1. C!Which (i) = i - 1 /\ C!Which (i) # -1 /\ C!Which (i) + 2 = i + 1
      BY <2>3 DEF C!Which
    <3>2. i \in 1 .. Len (line.answers)
      BY <1>4, <1>5, <1>7, <3>1
    <3> DEFINE t == successors[i + 1]
    <3>3. t = line.answers[i] /\ t \notin used /\ t \in Player
      BY <1>4, <1>5, <3>2
    <3>4. t \in Text
      BY <1>2, <1>7, <3>1, <3>2
    <3>5. NpcNext (t)
      BY <3>3, <3>4, DialogueConstants
    <3>6. C!Run (t) /\ C!Utter ({t})
      BY <1>7, <3>1
    <3> HIDE DEF t
    <3>7. QED
      BY <2>1, <3>3, <3>4, <3>5, <3>6, ConversationRun
  <2>4. QED
    BY <2>2, <2>3
<1>8. QED
  BY <1>6, <1>7 DEF C!SelectOption

\* A line is on display that fits what may be said next.
LEMMA ConversationDisplays ==
  ASSUME C!DialogueAssumption, ConversationInv, NEW l \in C!DialogLine, C!Display (l), UNCHANGED finish,
         successors' \in Seq (Text), Len (successors') = 1 + Len (l.answers), successors'[1] = l.npc,
         \A i \in 1 .. Len (l.answers) : successors'[i + 1] = l.answers[i] /\ l.answers[i] \notin used',
         l.answers = <<>> => NpcNext (l.npc),
         used \subseteq used', used' \subseteq Text, C!Utter ({l.npc}),
         l.npc \notin Loop => said[l.npc] = 0 /\ l.npc \in used'
  PROVE  ConversationInv'
<1>1. C!TypeOK /\ Attended /\ Remembered
  BY DEF ConversationInv
<1>2. /\ line' = l /\ line' # None /\ running' = None /\ UNCHANGED <<pending, touched>>
      /\ options' \in Seq (Listener) /\ Len (options') = Shown (l) /\ uiListeners' \subseteq Listener
      /\ status' \in [Listener -> {"new", "listed", "destroyed", "deleted"}]
      /\ firing' \in Nat \cup {None}
      /\ Attended'
  BY <1>1, DisplayKeeps
<1>3. l.npc \in Text
  BY DialogueConstants DEF C!DialogLine
<1>4. said' \in [Text -> Nat] /\ Remembered'
  <2>1. {l.npc} \in SUBSET Text /\ \A t \in {l.npc} \ Loop : said[t] = 0 /\ t \in used'
    BY <1>3
  <2>2. QED
    BY <1>1, <2>1, UtterOnce
<1>5. C!TypeOK'
  BY <1>1, <1>2, <1>4 DEF C!TypeOK
<1>6. Displayed'
  BY <1>2 DEF Displayed
<1>7. Underway'
  BY <1>2 DEF Underway
<1>8. QED
  BY <1>2, <1>4, <1>5, <1>6, <1>7 DEF ConversationInv

\* The dialogue goes on.
LEMMA ConversationProceeds ==
  ASSUME C!DialogueAssumption, ConversationInv, C!Proceed
  PROVE  ConversationInv'
<1>1. PICK holds \in SUBSET Conditional : \E speech \in C!Speech (holds) :
        (\E t \in C!Npc : C!Speak (t, speech)) \/ C!Offer (speech) \/ C!NothingLeft (speech)
  BY DEF C!Proceed
<1>2. PICK speech \in C!Speech (holds) :
        (\E t \in C!Npc : C!Speak (t, speech)) \/ C!Offer (speech) \/ C!NothingLeft (speech)
  BY <1>1
<1>3. C!TypeOK /\ running # None /\ Underway /\ Remembered
  BY DEF C!Proceed, ConversationInv
<1>4. /\ running \in C!Running /\ running.at \in Text /\ running.next \in C!Npc \cup {None}
      /\ used \subseteq Text /\ successors \in Seq (Text)
  BY <1>3 DEF C!TypeOK, C!Running
<1>5. /\ speech \in Seq (Text)
      /\ \A i \in 1 .. Len (speech) :
           speech[i] \notin used /\ \E j \in DOMAIN Followers[running.at] : speech[i] = Followers[running.at][j]
  BY <1>2, <1>4, SpeechType
<1>6. ASSUME NEW t \in C!Npc, C!Speak (t, speech)
      PROVE  ConversationInv'
  <2>1. /\ t \in Text /\ t \notin Player
    BY <1>6, DialogueConstants DEF C!Npc
  <2>2. C!Range (speech) = {speech[i] : i \in 1 .. Len (speech)}
    BY <1>5 DEF C!Range
  <2>3. PICK i \in 1 .. Len (speech) : t = speech[i]
    BY <1>6, <2>2 DEF C!Speak
  <2>4. t \notin used /\ \E j \in DOMAIN Followers[running.at] : t = Followers[running.at][j]
    BY <1>5, <2>3
  <2>5. running.next = None /\ successors = <<>>
    BY <1>3, <2>1, <2>4 DEF Underway
  <2>6. /\ successors' = <<t>> /\ UNCHANGED finish
        /\ used' = IF t \in Loop THEN used ELSE used \cup {t}
    BY <1>6, <2>5 DEF C!Speak
  <2>7. t \notin Loop => said[t] = 0 /\ t \in used'
    BY <1>3, <2>1, <2>4, <2>6 DEF Remembered
  <2>8. Followers[t] \in Seq (Text)
    BY <2>1, DialogueConstants
  <2>9. CASE C!Stop (t)
    <3> DEFINE l == [npc |-> t, answers |-> <<>>]
    <3>1. l \in C!DialogLine /\ l.npc = t /\ l.answers = <<>>
      BY <1>6 DEF C!DialogLine
    <3>2. C!Display (l) /\ C!Utter ({t})
      BY <1>6, <2>9 DEF C!Speak
    <3>3. NpcNext (t)
      <4>1. CASE Followers[t] = <<>>
        BY <4>1 DEF NpcNext
      <4>2. CASE Followers[t] # <<>>
        <5>1. Head (Followers[t]) = Followers[t][1] /\ 1 \in DOMAIN Followers[t]
          BY <2>8, <4>2
        <5>2. Followers[t][1] \notin Player
          BY <2>9, <4>2, <5>1 DEF C!Stop
        <5>3. QED
          BY <2>1, <5>1, <5>2, DialogueConstants
      <4>3. QED
        BY <4>1, <4>2
    <3>4. /\ successors' \in Seq (Text) /\ Len (successors') = 1 + Len (l.answers) /\ successors'[1] = l.npc
          /\ 1 .. Len (l.answers) = {}
      BY <2>1, <2>6, <3>1
    <3>5. used \subseteq used' /\ used' \subseteq Text
      BY <1>4, <2>1, <2>6
    <3> HIDE DEF l
    <3>6. QED
      BY <2>6, <2>7, <3>1, <3>2, <3>3, <3>4, <3>5, ConversationDisplays
  <2>10. CASE ~ C!Stop (t)
    <3>1. running' = [at |-> t, next |-> t] /\ UNCHANGED <<line, said, C!uiVars>>
      BY <1>6, <2>10 DEF C!Speak
    <3>2. UNCHANGED <<line, said, options, uiListeners, status, pending, firing, finish, touched>>
      BY <3>1 DEF C!uiVars
    <3>3. running' \in C!Running /\ running'.at = t /\ running'.next = t /\ running'.next # None
      BY <1>6, <2>1, <3>1, DialogueConstants DEF C!Running
    <3>4. running' # None
      BY <3>3, DialogueConstants
    <3>5. \A k \in DOMAIN Followers[t] : Followers[t][k] \in Player
      <4>1. Followers[t] # <<>> /\ Head (Followers[t]) \in Player
        BY <2>10 DEF C!Stop
      <4>2. Followers[t][1] \in Player /\ 1 \in DOMAIN Followers[t]
        BY <2>8, <4>1
      <4>3. ~ NpcNext (t)
        BY <4>2 DEF NpcNext, C!Npc
      <4>4. QED
        BY <2>1, <4>3, DialogueConstants
    <3>6. C!TypeOK'
      BY <1>3, <1>4, <2>1, <2>6, <3>2, <3>3 DEF C!TypeOK
    <3>7. Attended'
      BY <3>2 DEF ConversationInv, Attended
    <3>8. Displayed' /\ Remembered'
      BY <1>3, <2>6, <3>2, <3>4 DEF Displayed, Remembered
    <3>9. Underway'
      BY <2>6, <2>7, <3>2, <3>3, <3>5 DEF Underway
    <3>10. QED
      BY <3>6, <3>7, <3>8, <3>9 DEF ConversationInv
  <2>11. QED
    BY <2>9, <2>10
<1>7. CASE C!Offer (speech)
  <2>1. /\ speech # <<>> /\ Head (speech) \in Player /\ successors' = successors \o speech
        /\ C!Display ([npc |-> running.next, answers |-> speech]) /\ C!Utter ({running.next})
        /\ UNCHANGED <<used, finish>>
    BY <1>7 DEF C!Offer
  <2>2. speech[1] \in Player /\ 1 \in 1 .. Len (speech)
    BY <1>5, <2>1
  <2>3. \E j \in DOMAIN Followers[running.at] : Followers[running.at][j] \in Player
    BY <1>5, <2>2
  <2>4. ~ NpcNext (running.at)
    BY <2>3 DEF NpcNext, C!Npc
  <2>5. /\ running.next \in C!Npc /\ successors = <<running.next>>
        /\ running.next \notin Loop => said[running.next] = 0 /\ running.next \in used
        /\ \A j \in DOMAIN Followers[running.at] : Followers[running.at][j] \in Player
    BY <1>3, <1>4, <2>4 DEF Underway
  <2>6. speech \in Seq (Player)
    BY <1>5, <2>5
  <2> DEFINE l == [npc |-> running.next, answers |-> speech]
  <2>7. l \in C!DialogLine /\ l.npc = running.next /\ l.answers = speech
    BY <2>5, <2>6 DEF C!DialogLine
  <2>8. running.next \in Text
    BY <2>5, DialogueConstants
  <2>9. successors' = <<running.next>> \o speech
    BY <2>1, <2>5
  <2>10. /\ successors' \in Seq (Text) /\ Len (successors') = 1 + Len (speech)
         /\ successors'[1] = running.next
         /\ \A i \in 1 .. Len (speech) : successors'[i + 1] = speech[i]
    BY <1>5, <2>8, <2>9
  <2>11. C!Display (l)
    BY <2>1
  <2> HIDE DEF l
  <2>12. \A i \in 1 .. Len (l.answers) : successors'[i + 1] = l.answers[i] /\ l.answers[i] \notin used'
    BY <1>5, <2>1, <2>7, <2>10
  <2>13. QED
    BY <1>4, <2>1, <2>5, <2>7, <2>10, <2>11, <2>12, ConversationDisplays
<1>8. CASE C!NothingLeft (speech)
  BY <1>8, ConversationEnd DEF C!NothingLeft
<1>9. QED
  BY <1>2, <1>6, <1>7, <1>8

LEMMA ConversationInit ==
  ASSUME C!DialogueAssumption, C!Init
  PROVE  ConversationInv
<1>1. /\ line = None /\ successors = <<>> /\ used = {} /\ running = None
      /\ options = <<>> /\ uiListeners = {} /\ status = [l \in Listener |-> "new"]
      /\ pending = <<>> /\ firing = None /\ finish = "called"
      /\ said = [t \in Text |-> 0] /\ touched = FALSE
  BY DEF C!Init
<1>2. C!TypeOK
  <2>1. /\ <<>> \in Seq (Text) /\ <<>> \in Seq (Listener) /\ <<>> \in Seq (Listener \cup {C!Finish})
        /\ successors \in Seq (Text) /\ options \in Seq (Listener) /\ pending \in Seq (Listener \cup {C!Finish})
    BY <1>1
  <2>2. said \in [Text -> Nat] /\ status \in [Listener -> {"new", "listed", "destroyed", "deleted"}]
    BY <1>1
  <2>3. QED
    BY <1>1, <2>1, <2>2 DEF C!TypeOK
<1>3. Attended
  BY <1>1 DEF Attended
<1>4. Displayed /\ Underway /\ Remembered
  BY <1>1 DEF Displayed, Underway, Remembered
<1>5. QED
  BY <1>2, <1>3, <1>4 DEF ConversationInv

LEMMA ConversationNext ==
  ASSUME C!DialogueAssumption, ConversationInv, C!Next
  PROVE  ConversationInv'
<1>1. CASE (\E i \in 1 .. MaxOptions : C!Activate (i)) \/ C!SwitchOption \/ C!StartFrame
  BY <1>1, ConversationEvents
<1>2. CASE C!PassOver \/ C!Finished \/ C!EndFrame
  BY <1>2, ConversationEvents
<1>3. ASSUME NEW i \in 1 .. MaxOptions, C!SelectOption (i)
      PROVE  ConversationInv'
  BY <1>3, ConversationSelects
<1>4. CASE C!Proceed
  BY <1>4, ConversationProceeds
<1>5. CASE C!Talk
  BY <1>5, ConversationTalk
<1>6. QED
  BY <1>1, <1>2, <1>3, <1>4, <1>5 DEF C!Next, C!FireEvents

LEMMA ConversationLeads ==
  ASSUME C!DialogueAssumption, ConversationInv
  PROVE  C!AnswersLead /\ C!SaidOnce
<1>1. C!TypeOK /\ Attended /\ Displayed /\ Remembered
  BY DEF ConversationInv
<1>2. C!SaidOnce
  BY <1>1 DEF C!SaidOnce, Remembered
<1>3. ASSUME running = None, line # None
      PROVE  /\ \A i \in DOMAIN options :
                  /\ status[options[i]] = "listed" /\ options[i] \in uiListeners
                  /\ C!Which (i) + 2 <= Len (successors)
                  /\ successors[C!Which (i) + 2] = IF line.answers = <<>> THEN line.npc ELSE line.answers[i]
             /\ \A l \in Listener : status[l] = "listed" => C!Contains (options, l)
  <2>1. line \in C!DialogLine /\ options \in Seq (Listener)
    BY <1>1, <1>3 DEF C!TypeOK
  <2>2. /\ line.answers \in Seq (Player) /\ Len (line.answers) \in Nat /\ MaxOptions \in Nat
        /\ DOMAIN options = 1 .. Len (options)
    BY <2>1, DialogueConstants DEF C!DialogLine
  <2>3. /\ Len (options) = Shown (line)
        /\ Len (successors) = 1 + Len (line.answers) /\ successors[1] = line.npc
        /\ \A k \in 1 .. Len (line.answers) : successors[k + 1] = line.answers[k]
    BY <1>1, <1>3 DEF Displayed
  <2>4. ASSUME NEW i \in DOMAIN options
        PROVE  /\ C!Which (i) + 2 <= Len (successors)
               /\ successors[C!Which (i) + 2] = IF line.answers = <<>> THEN line.npc ELSE line.answers[i]
    <3>1. CASE line.answers = <<>>
      <4>1. C!Which (i) + 2 = 1
        BY <3>1 DEF C!Which
      <4>2. QED
        BY <2>2, <2>3, <3>1, <4>1
    <3>2. CASE line.answers # <<>>
      <4>1. i \in 1 .. Len (line.answers)
        BY <2>2, <2>3, <2>4, <3>2 DEF Shown
      <4>2. C!Which (i) + 2 = i + 1
        BY <3>2, <4>1 DEF C!Which
      <4>3. QED
        BY <2>2, <2>3, <3>2, <4>1, <4>2
    <3>3. QED
      BY <3>1, <3>2
  <2>5. ASSUME NEW l \in Listener, status[l] = "listed"
        PROVE  C!Contains (options, l)
    <3>1. \E i \in 1 .. Len (options) : options[i] = l
      BY <1>1, <2>2, <2>5 DEF Attended
    <3>2. QED
      BY <3>1 DEF C!Contains
  <2>6. QED
    BY <1>1, <2>4, <2>5 DEF Attended
<1>4. C!AnswersLead
  BY <1>3 DEF C!AnswersLead
<1>5. QED
  BY <1>2, <1>4

\* However many answers are pressed in a frame, each answer on display has a
\* listener that is alive and leads to what it says, nobody else is called, and
\* neither of the two says the same twice unless it may: for any dialogue that
\* the editor can produce, and any number of buttons and of keys in a frame
\* (conversation.cc, dialog.cc, ui_event_manager.cc).
THEOREM AnswersAlwaysLead == Spec => []AnswersLead
<1> DEFINE Inv == scene = "conversation" => ConversationInv
<1>1. Init => Inv
  BY DialogueAssumption, ConversationInit DEF Init
<1>2. Inv /\ [Next]_vars => Inv'
  <2> SUFFICES ASSUME Inv, [Next]_vars, scene' = "conversation"
               PROVE  ConversationInv'
    OBVIOUS
  <2>1. CASE ConversationsStep
    BY <2>1, DialogueAssumption, ConversationNext DEF ConversationsStep
  <2>2. CASE scene' = scene /\ UNCHANGED conversationsVars
    BY <2>2 DEF conversationsVars, ConversationInv, C!TypeOK, Attended, Displayed, Underway, Remembered
  <2>3. QED
    BY <2>1, <2>2 DEF Next, vars, WindowsStep, MovingStep, QuestsStep, ConversationsStep
<1>3. Inv => AnswersLead
  BY DialogueAssumption, ConversationLeads DEF AnswersLead, ConversationInv
<1>4. QED
  BY <1>1, <1>2, <1>3, PTL DEF Spec


-----------------------------------------------------------------------------
(***************************************************************************)
(* Windows and their input. A listener is made for one layout, and a layout *)
(* has at most one that is alive; scripts close one window at a time, so    *)
(* that the window above one that disappears is not on its way out too. An  *)
(* event goes through the listeners there were when it came, and none of    *)
(* their windows can disappear before it is delivered.                      *)
(***************************************************************************)

\* The state of the list of windows.
Stacked ==
  /\ Distinct (windows)
  /\ \A v, w \in ToSet (windows) : v.content = w.content => v = w
  /\ W!OrderedByType
  /\ \A v, w \in ToSet (windows) :
       ~ v.showing /\ ~ w.showing /\ v # w => ~ W!CanFocus (v.content) /\ ~ W!CanFocus (w.content)

\* A window of c is on display.
OnDisplay (c) == \E w \in ToSet (windows) : w.content = c /\ w.showing

\* Listeners are in the list as long as their layouts are on display, and live
\* until the layouts get new ones.
Attentive ==
  /\ Distinct (listeners)
  /\ \A l \in ToSet (listeners) : l \notin deleted
  /\ \A c \in Content : listener[c] # None =>
       listener[c] \notin deleted /\ Owner[listener[c]] = c /\ W!CanFocus (c)
  /\ \A c \in Content : W!CanFocus (c) => (OnDisplay (c) <=> listener[c] \in ToSet (listeners))
  /\ \A l \in Handle \ W!Script : l \in ToSet (listeners) => \E c \in Layout : listener[c] = l

\* An event is delivered between frames, to listeners that are alive.
Delivering ==
  /\ delivery.kind = "none" => delivery.rest = <<>>
  /\ delivery.calling => delivery.rest # <<>>
  /\ frame > 0 => delivery.kind = "none"
  /\ \A l \in ToSet (delivery.rest) :
       /\ l \notin deleted
       /\ \A c \in Content : l = listener[c] => \E w \in ToSet (windows) : w.content = c

WindowsInv == W!TypeOK /\ Stacked /\ Attentive /\ Delivering

\* What is known of the constants.
LEMMA WindowsConstants ==
  ASSUME W!WindowsAssumption
  PROVE  /\ \A c \in Content : W!Rank[WindowType[c]] \in Nat
         /\ \A c \in Content : \A d \in DOMAIN W!Direction : Far[c][d] \in Nat
         /\ FadeRate \in Nat
         /\ \A c \in Content : \A f \in Fades[c] : f \in {"NONE", "PLAIN", "FADE"} \cup DOMAIN W!Direction
         /\ None \notin Handle /\ None \notin Content /\ Layout \subseteq Content
<1>1. \A c \in Content : W!Rank[WindowType[c]] \in Nat
  BY DEF W!WindowsAssumption, W!Rank
<1>2. QED
  BY <1>1 DEF W!WindowsAssumption

\* The operators on lists that components use are the ones of the lemmas.
LEMMA WindowLists ==
  /\ \A s, e : W!Contains (s, e) <=> \E i \in 1 .. Len (s) : s[i] = e
  /\ \A s, p, e : W!InsertAt (s, p, e) = InsertAt (s, p, e)
  /\ \A s, p : W!RemoveAt (s, p) = RemoveAt (s, p)
  /\ \A s, e : W!RemoveFirst (s, e) = RemoveFirst (s, e)
<1>1. \A s, e : W!Contains (s, e) <=> \E i \in 1 .. Len (s) : s[i] = e
  BY DEF W!Contains
<1>2. \A s, p, e : W!InsertAt (s, p, e) = InsertAt (s, p, e)
  BY DEF W!InsertAt, InsertAt
<1>3. \A s, p : W!RemoveAt (s, p) = RemoveAt (s, p)
  BY DEF W!RemoveAt, RemoveAt
<1>4. ASSUME NEW s, NEW e
      PROVE  W!RemoveFirst (s, e) = RemoveFirst (s, e)
  <2>1. W!SelectInSeq (s, LAMBDA v : v = e) = SelectInSeq (s, LAMBDA v : v = e)
    BY DEF W!SelectInSeq, SelectInSeq, W!Min, Min
  <2>2. QED
    BY <2>1, <1>3 DEF W!RemoveFirst, RemoveFirst
<1>5. QED
  BY <1>1, <1>2, <1>3, <1>4

\* Pushing an element in front that is not there yet.
LEMMA InFrontNew ==
  ASSUME NEW S, NEW s \in Seq (S), NEW e \in S, Distinct (s), e \notin ToSet (s)
  PROVE  /\ <<e>> \o s \in Seq (S)
         /\ ToSet (<<e>> \o s) = ToSet (s) \cup {e}
         /\ Distinct (<<e>> \o s)
<1> DEFINE t == <<e>> \o s
<1>1. /\ Len (s) \in Nat /\ DOMAIN s = 1 .. Len (s)
      /\ <<e>> \in Seq (S) /\ Len (<<e>>) = 1 /\ <<e>>[1] = e
  BY LenProperties
<1>2. /\ t \in Seq (S) /\ Len (t) = 1 + Len (s)
      /\ \A i \in 1 .. 1 + Len (s) : t[i] = IF i <= 1 THEN e ELSE s[i - 1]
  BY <1>1, ConcatProperties
<1>3. DOMAIN t = 1 .. 1 + Len (s)
  BY <1>2, LenProperties
<1> HIDE DEF t
<1>4. \A i \in 1 .. Len (s) : s[i] # e /\ i + 1 \in DOMAIN t /\ t[i + 1] = s[i]
  BY <1>1, <1>2, <1>3 DEF ToSet
<1>5. 1 \in DOMAIN t /\ t[1] = e /\ \A i \in DOMAIN t : i = 1 \/ (i - 1 \in 1 .. Len (s) /\ t[i] = s[i - 1])
  BY <1>1, <1>2, <1>3
<1>6. ToSet (t) = ToSet (s) \cup {e}
  BY <1>1, <1>4, <1>5 DEF ToSet
<1>7. Distinct (t)
  <2>1. SUFFICES ASSUME NEW i \in DOMAIN t, NEW j \in DOMAIN t, t[i] = t[j]
                 PROVE  i = j
    BY DEF Distinct
  <2>2. i \in Int /\ j \in Int
    BY <1>3
  <2>3. CASE i = 1 \/ j = 1
    BY <1>4, <1>5, <2>1, <2>2, <2>3
  <2>4. CASE i # 1 /\ j # 1
    <3>1. i - 1 \in DOMAIN s /\ j - 1 \in DOMAIN s /\ s[i - 1] = s[j - 1]
      BY <1>1, <1>5, <2>1, <2>4
    <3>2. QED
      BY <2>2, <3>1 DEF Distinct
  <2>5. QED
    BY <2>3, <2>4
<1>8. QED
  BY <1>2, <1>6, <1>7 DEF t

\* Removing the element at a place from a list of distinct ones.
LEMMA RemoveAtDistinct ==
  ASSUME NEW S, NEW s \in Seq (S), NEW p \in 1 .. Len (s), Distinct (s)
  PROVE  /\ RemoveAt (s, p) \in Seq (S)
         /\ ToSet (RemoveAt (s, p)) = ToSet (s) \ {s[p]}
         /\ Distinct (RemoveAt (s, p))
<1>1. Len (s) \in Nat /\ DOMAIN s = 1 .. Len (s)
  BY LenProperties
<1>2. {k \in 1 .. Len (s) : s[k] = s[p]} = {p}
  BY <1>1 DEF Distinct
<1>3. SelectInSeq (s, LAMBDA v : v = s[p]) = p
  BY <1>2 DEF SelectInSeq, Min
<1>4. RemoveFirst (s, s[p]) = RemoveAt (s, p)
  BY <1>3 DEF RemoveFirst
<1>5. QED
  BY <1>4, RemoveFirstDistinct


\* A vector of which each component is a number.
LEMMA VectorType ==
  ASSUME W!WindowsAssumption
  PROVE  /\ \A v, u \in Int \X Int : W!Plus (v, u) \in Int \X Int
         /\ \A v \in Int \X Int : \A n \in Int : W!Times (n, v) \in Int \X Int
         /\ \A v, u \in Int \X Int : W!Cleared (v, u) \in Int \X Int
         /\ \A d \in DOMAIN W!Direction : W!Direction[d] \in Int \X Int
<1>1. \A v, u \in Int \X Int : W!Plus (v, u) \in Int \X Int
  BY DEF W!Plus
<1>2. ASSUME NEW v \in Int \X Int, NEW n \in Int
      PROVE  W!Times (n, v) \in Int \X Int
  <2>1. v[1] \in Int /\ v[2] \in Int
    OBVIOUS
  <2> DEFINE a == n * v[1]
             b == n * v[2]
  <2>2. a \in Int /\ b \in Int
    BY <2>1
  <2>3. W!Times (n, v) = <<a, b>>
    BY DEF W!Times
  <2> HIDE DEF a, b
  <2>4. QED
    BY <2>2, <2>3
<1>3. \A v, u \in Int \X Int : W!Cleared (v, u) \in Int \X Int
  BY DEF W!Cleared
<1>4. \A d \in DOMAIN W!Direction : W!Direction[d] \in Int \X Int
  BY DEF W!Direction
<1>5. QED
  BY <1>1, <1>2, <1>3, <1>4

\* Sliding changes nothing of a window but where it is.
LEMMA WindowFades ==
  ASSUME W!WindowsAssumption, NEW w \in W!Window
  PROVE  /\ W!Fade (w) \in W!Window
         /\ W!Fade (w).content = w.content /\ W!Fade (w).showing = w.showing
<1> DEFINE D == {"NONE", "PLAIN", "FADE"} \cup DOMAIN W!Direction
           Same (v) == v \in W!Window /\ v.content = w.content /\ v.showing = w.showing
           Arrived (o) == [w EXCEPT !.offset = o, !.fade = "NONE"]
           At (o) == [w EXCEPT !.offset = o]
           Still == [w EXCEPT !.fade = "NONE"]
<1>1. /\ w.content \in Content /\ w.showing \in BOOLEAN /\ w.fade \in D /\ w.offset \in Int \X Int
      /\ w = [content |-> w.content, showing |-> w.showing, fade |-> w.fade, offset |-> w.offset]
  BY DEF W!Window
<1>2. /\ \A o \in Int \X Int : Same (At (o)) /\ Same (Arrived (o))
      /\ Same (Still) /\ Same (w)
  BY DEF W!Window
<1>3. CASE w.fade \in DOMAIN W!Direction
  <2> DEFINE d == W!Direction[w.fade]
             far == Far[w.content][w.fade]
             start == IF w.offset = <<0, 0>> THEN W!Times (far, d) ELSE w.offset
             next == W!Plus (start, W!Times (- FadeRate, d))
             out == W!Plus (w.offset, W!Times (FadeRate, d))
             cleared == W!Cleared (next, d)
  <2>1. d \in Int \X Int /\ far \in Int /\ FadeRate \in Int /\ - FadeRate \in Int
    BY <1>1, <1>3, VectorType, WindowsConstants
  <2>2. W!SlideIn (w) = IF W!Along (next, d) < 0 THEN Arrived (cleared) ELSE At (next)
    BY DEF W!SlideIn
  <2>3. W!SlideOut (w) = At (out)
    BY DEF W!SlideOut
  <2> HIDE DEF d, far, Same, Arrived, At
  <2>4. start \in Int \X Int
    BY <1>1, <2>1, VectorType
  <2>5. W!Times (- FadeRate, d) \in Int \X Int /\ W!Times (FadeRate, d) \in Int \X Int
    BY <2>1, VectorType
  <2> HIDE DEF start
  <2>6. next \in Int \X Int /\ out \in Int \X Int
    BY <1>1, <2>4, <2>5, VectorType
  <2> HIDE DEF next, out
  <2>7. cleared \in Int \X Int
    BY <2>1, <2>6, VectorType
  <2> HIDE DEF cleared
  <2>8. Same (Arrived (cleared)) /\ Same (At (next)) /\ Same (At (out))
    BY <1>2, <2>6, <2>7
  <2>9. Same (W!SlideIn (w)) /\ Same (W!SlideOut (w))
    BY <2>2, <2>3, <2>8
  <2>10. w.fade # "PLAIN"
    BY <1>3 DEF W!Direction
  <2>11. W!Fade (w) = IF w.showing THEN W!SlideIn (w) ELSE W!SlideOut (w)
    <3> DEFINE x == W!SlideIn (w)
               y == W!SlideOut (w)
               sliding == w.fade \in DOMAIN W!Direction
    <3>1. W!Fade (w) = CASE sliding -> (IF w.showing THEN x ELSE y)
                         [] w.fade = "PLAIN" -> Still
                         [] OTHER -> w
      BY DEF W!Fade
    <3>2. sliding
      BY <1>3
    <3> HIDE DEF x, y, sliding, Still
    <3>3. W!Fade (w) = IF w.showing THEN x ELSE y
      BY <2>10, <3>1, <3>2
    <3>4. QED
      BY <3>3 DEF x, y
  <2>12. Same (W!Fade (w))
    BY <2>9, <2>11
  <2>13. QED
    BY <2>12 DEF Same
<1>4. CASE w.fade \notin DOMAIN W!Direction
  <2>1. W!Fade (w) = w \/ W!Fade (w) = Still
    BY <1>4 DEF W!Fade
  <2>2. QED
    BY <1>2, <2>1
<1>5. QED
  BY <1>3, <1>4

\* A window is opened to stay and closed to go.
LEMMA WindowOpens ==
  ASSUME W!WindowsAssumption, NEW c \in Content, NEW f \in Fades[c]
  PROVE  /\ W!NewWindow (c, f) \in W!Window
         /\ W!NewWindow (c, f).content = c /\ W!NewWindow (c, f).showing
         /\ \A w \in W!Window :
              /\ W!FadeOut (w, f) \in W!Window
              /\ W!FadeOut (w, f).content = w.content /\ ~ W!FadeOut (w, f).showing
<1>1. f \in {"NONE", "PLAIN", "FADE"} \cup DOMAIN W!Direction
  BY WindowsConstants
<1>2. W!NewWindow (c, f) \in W!Window /\ W!NewWindow (c, f).content = c /\ W!NewWindow (c, f).showing
  <2> DEFINE w == [content |-> c, showing |-> TRUE, fade |-> "NONE", offset |-> <<0, 0>>]
             Opened (v) == [v EXCEPT !.fade = f, !.showing = TRUE]
  <2>1. W!NewWindow (c, f) = Opened (w)
    BY DEF W!NewWindow, W!FadeIn
  <2>2. w \in W!Window /\ w.content = c
    BY DEF W!Window
  <2>3. \A v \in W!Window :
          Opened (v) \in W!Window /\ Opened (v).content = v.content /\ Opened (v).showing
    BY <1>1 DEF W!Window
  <2> HIDE DEF w, Opened
  <2>4. QED
    BY <2>1, <2>2, <2>3
<1>3. ASSUME NEW w \in W!Window
      PROVE  /\ W!FadeOut (w, f) \in W!Window
             /\ W!FadeOut (w, f).content = w.content /\ ~ W!FadeOut (w, f).showing
  <2>1. "PLAIN" \in {"NONE", "PLAIN", "FADE"} \cup DOMAIN W!Direction
    OBVIOUS
  <2> DEFINE Gone (g) == [w EXCEPT !.fade = g, !.showing = FALSE]
             h == IF f = "NONE" THEN "PLAIN" ELSE f
  <2>2. \A g \in {"NONE", "PLAIN", "FADE"} \cup DOMAIN W!Direction :
          Gone (g) \in W!Window /\ Gone (g).content = w.content /\ ~ Gone (g).showing
    BY DEF W!Window
  <2>3. W!FadeOut (w, f) = Gone (h)
    BY DEF W!FadeOut
  <2>4. h \in {"NONE", "PLAIN", "FADE"} \cup DOMAIN W!Direction
    BY <1>1
  <2> HIDE DEF Gone, h
  <2>5. QED
    BY <2>2, <2>3, <2>4
<1>4. QED
  BY <1>2, <1>3

\* The windows of the second list that stay keep their type.
LEMMA RelativeType ==
  ASSUME W!WindowsAssumption, relative \in Seq (W!Window), NEW r \in W!FadeRelative
  PROVE  r \in Seq (W!Window)
<1> DEFINE kept == {i \in DOMAIN relative : ~ W!FadedOut (relative[i])}
<1>1. Len (relative) \in Nat /\ \A i \in DOMAIN relative : relative[i] \in W!Window
  BY LenProperties, ElementOfSeq
<1>2. PICK f \in UNION {[1 .. n -> kept] : n \in 0 .. Len (relative)} :
        r = [i \in DOMAIN f |-> W!Fade (relative[f[i]])]
  BY DEF W!FadeRelative
<1>3. PICK n \in 0 .. Len (relative) : f \in [1 .. n -> kept]
  BY <1>2
<1>4. \A i \in 1 .. n : f[i] \in DOMAIN relative
  BY <1>3
<1>5. r = [i \in 1 .. n |-> W!Fade (relative[f[i]])]
  BY <1>2, <1>3
<1>6. \A i \in 1 .. n : W!Fade (relative[f[i]]) \in W!Window
  BY <1>1, <1>4, WindowFades
<1>7. r \in [1 .. n -> W!Window]
  BY <1>5, <1>6
<1>8. n \in Nat
  BY <1>1
<1>9. QED
  BY <1>7, <1>8


\* What the list of listeners is without one of them.
LEMMA WithoutListener ==
  ASSUME listeners \in Seq (Handle), Distinct (listeners), NEW l
  PROVE  /\ W!Without (l) \in Seq (Handle)
         /\ ToSet (W!Without (l)) = ToSet (listeners) \ {l}
         /\ Distinct (W!Without (l))
<1>1. W!Without (l) = RemoveFirst (listeners, l)
  BY WindowLists DEF W!Without
<1>2. QED
  BY <1>1, RemoveFirstDistinct

\* A layout that gets the focus has a new listener, and the one it had is gone.
LEMMA FocusReceived ==
  ASSUME W!WindowsAssumption, W!TypeOK, Attentive, NEW c \in Content,
         W!ReceiveFocus (c), W!CanFocus (c)
  PROVE  \E l \in Handle :
           /\ l \in deleted /\ Owner[l] = c /\ l \notin ToSet (delivery.rest)
           /\ listeners' \in Seq (Handle) /\ Distinct (listeners')
           /\ ToSet (listeners') = (ToSet (listeners) \ {listener[c]}) \cup {l}
           /\ listener' = [listener EXCEPT ![c] = l]
           /\ deleted' = (deleted \ {l}) \cup ({listener[c]} \ {None})
<1>1. PICK l \in Handle :
        /\ W!Fresh (c, l)
        /\ listeners' = W!AddInFront (W!Without (listener[c]), l)
        /\ listener' = [listener EXCEPT ![c] = l]
        /\ deleted' = (deleted \ {l}) \cup ({listener[c]} \ {None})
  BY DEF W!ReceiveFocus
<1>2. l \in deleted /\ Owner[l] = c /\ l \notin ToSet (delivery.rest)
  <2>1. delivery.rest \in Seq (Handle)
    BY DEF W!TypeOK, W!Delivery
  <2>2. DOMAIN delivery.rest = 1 .. Len (delivery.rest)
    BY <2>1, LenProperties
  <2>3. QED
    BY <1>1, <2>2, WindowLists DEF W!Fresh, ToSet
<1>3. listeners \in Seq (Handle) /\ Distinct (listeners) /\ l \notin ToSet (listeners)
  BY <1>2 DEF W!TypeOK, Attentive
<1> DEFINE s == W!Without (listener[c])
<1>4. s \in Seq (Handle) /\ Distinct (s) /\ ToSet (s) = ToSet (listeners) \ {listener[c]}
  BY <1>3, WithoutListener
<1>5. listeners' = <<l>> \o s
  BY <1>1 DEF W!AddInFront
<1> HIDE DEF s
<1>6. l \notin ToSet (s)
  BY <1>3, <1>4
<1>7. /\ listeners' \in Seq (Handle) /\ Distinct (listeners')
      /\ ToSet (listeners') = ToSet (s) \cup {l}
  BY <1>4, <1>5, <1>6, InFrontNew
<1>8. QED
  BY <1>1, <1>2, <1>4, <1>7

\* A layout that is shown gets the focus: the others keep their listeners.
LEMMA FocusKeeps ==
  ASSUME W!WindowsAssumption, W!TypeOK, Attentive, NEW c \in Content, W!ReceiveFocus (c),
         \A d \in Content : W!CanFocus (d) => (OnDisplay (d)' <=> OnDisplay (d) \/ d = c)
  PROVE  /\ Attentive'
         /\ listeners' \in Seq (Handle) /\ deleted' \subseteq Handle
         /\ listener' \in [Content -> Handle \cup {None}]
         /\ \A k \in ToSet (delivery.rest) : k \notin deleted /\ k # listener[c] =>
              k \notin deleted' /\ \A d \in Content : k = listener'[d] => k = listener[d]
<1>1. /\ listeners \in Seq (Handle) /\ deleted \subseteq Handle
      /\ listener \in [Content -> Handle \cup {None}] /\ delivery.rest \in Seq (Handle)
  BY DEF W!TypeOK, W!Delivery
<1>2. /\ Distinct (listeners)
      /\ \A l \in ToSet (listeners) : l \notin deleted
      /\ \A d \in Content : listener[d] # None =>
           listener[d] \notin deleted /\ Owner[listener[d]] = d /\ W!CanFocus (d)
      /\ \A d \in Content : W!CanFocus (d) => (OnDisplay (d) <=> listener[d] \in ToSet (listeners))
      /\ \A l \in Handle \ W!Script : l \in ToSet (listeners) => \E d \in Layout : listener[d] = l
  BY DEF Attentive
<1>a. ToSet (listeners) \subseteq Handle /\ ToSet (delivery.rest) \subseteq Handle
  BY <1>1, ElementOfSeq, LenProperties DEF ToSet
<1>b. None \notin Handle /\ None \notin Content /\ Layout \subseteq Content
  BY WindowsConstants
<1>3. CASE ~ W!CanFocus (c)
  <2>1. listeners' = listeners /\ listener' = listener /\ deleted' = deleted
    BY <1>3 DEF W!ReceiveFocus
  <2>2. \A d \in Content : W!CanFocus (d) => (OnDisplay (d)' <=> listener'[d] \in ToSet (listeners'))
    BY <1>2, <1>3, <2>1
  <2>3. QED
    BY <1>1, <1>2, <2>1, <2>2 DEF Attentive
<1>4. CASE W!CanFocus (c)
  <2>1. PICK l \in Handle :
           /\ l \in deleted /\ Owner[l] = c /\ l \notin ToSet (delivery.rest)
           /\ listeners' \in Seq (Handle) /\ Distinct (listeners')
           /\ ToSet (listeners') = (ToSet (listeners) \ {listener[c]}) \cup {l}
           /\ listener' = [listener EXCEPT ![c] = l]
           /\ deleted' = (deleted \ {l}) \cup ({listener[c]} \ {None})
    BY <1>4, FocusReceived
  <2>2. /\ listener'[c] = l /\ \A d \in Content : d # c => listener'[d] = listener[d]
        /\ listener' \in [Content -> Handle \cup {None}]
    BY <1>1, <2>1
  <2>3. deleted' \subseteq Handle
    BY <1>1, <2>1
  <2>4. \A d \in Content : d # c => listener[d] # l /\ (listener[d] # None => listener[d] # listener[c])
    BY <1>2, <1>b, <2>1
  <2>5. \A k \in ToSet (listeners') : k \notin deleted'
    BY <1>2, <1>a, <2>1
  <2>6. ASSUME NEW d \in Content, listener'[d] # None
        PROVE  listener'[d] \notin deleted' /\ Owner[listener'[d]] = d /\ W!CanFocus (d)
    <3>1. CASE d = c
      BY <1>2, <1>4, <2>1, <2>2, <3>1
    <3>2. CASE d # c
      BY <1>2, <2>1, <2>2, <2>4, <2>6, <3>2
    <3>3. QED
      BY <3>1, <3>2
  <2>7. ASSUME NEW d \in Content, W!CanFocus (d)
        PROVE  OnDisplay (d)' <=> listener'[d] \in ToSet (listeners')
    <3>1. CASE d = c
      BY <2>1, <2>2, <2>7, <3>1
    <3>2. CASE d # c
      <4>1. listener'[d] = listener[d] /\ listener[d] # l
        BY <2>2, <2>4, <3>2
      <4>2. listener[d] \in ToSet (listeners) <=> listener[d] \in ToSet (listeners')
        BY <1>a, <1>b, <2>1, <2>4, <3>2
      <4>3. OnDisplay (d)' <=> OnDisplay (d)
        BY <2>7, <3>2
      <4>4. QED
        BY <1>2, <2>7, <4>1, <4>2, <4>3
    <3>3. QED
      BY <3>1, <3>2
  <2>8. ASSUME NEW k \in Handle \ W!Script, k \in ToSet (listeners')
        PROVE  \E d \in Layout : listener'[d] = k
    <3>1. CASE k = l
      <4>1. c \in Layout
        BY <1>4 DEF W!CanFocus
      <4>2. QED
        BY <2>2, <3>1, <4>1
    <3>2. CASE k # l
      <4>1. k \in ToSet (listeners) /\ k # listener[c]
        BY <2>1, <2>8, <3>2
      <4>2. PICK d \in Layout : listener[d] = k
        BY <1>2, <4>1
      <4>3. QED
        BY <1>b, <2>2, <4>1, <4>2
    <3>3. QED
      BY <3>1, <3>2
  <2>9. ASSUME NEW k \in ToSet (delivery.rest), k \notin deleted, k # listener[c]
        PROVE  k \notin deleted' /\ \A d \in Content : k = listener'[d] => k = listener[d]
    BY <2>1, <2>2, <2>9
  <2>10. Attentive'
    BY <2>1, <2>5, <2>6, <2>7, <2>8 DEF Attentive
  <2>11. QED
    BY <2>1, <2>2, <2>3, <2>9, <2>10
<1>5. QED
  BY <1>3, <1>4

\* A layout that is closed loses the focus.
LEMMA FocusLost ==
  ASSUME W!WindowsAssumption, W!TypeOK, Attentive, NEW c \in Content, W!RemoveFocus (c),
         \A d \in Content : W!CanFocus (d) => (OnDisplay (d)' <=> OnDisplay (d) /\ d # c),
         UNCHANGED <<listener, deleted>>
  PROVE  Attentive' /\ listeners' \in Seq (Handle)
<1>1. /\ listeners \in Seq (Handle) /\ deleted \subseteq Handle
      /\ listener \in [Content -> Handle \cup {None}]
  BY DEF W!TypeOK
<1>2. /\ Distinct (listeners)
      /\ \A l \in ToSet (listeners) : l \notin deleted
      /\ \A d \in Content : listener[d] # None =>
           listener[d] \notin deleted /\ Owner[listener[d]] = d /\ W!CanFocus (d)
      /\ \A d \in Content : W!CanFocus (d) => (OnDisplay (d) <=> listener[d] \in ToSet (listeners))
      /\ \A l \in Handle \ W!Script : l \in ToSet (listeners) => \E d \in Layout : listener[d] = l
  BY DEF Attentive
<1>3. ToSet (listeners) \subseteq Handle /\ None \notin Handle /\ Layout \subseteq Content
  BY <1>1, WindowsConstants, ElementOfSeq, LenProperties DEF ToSet
<1>4. CASE ~ W!CanFocus (c)
  <2>1. listeners' = listeners
    BY <1>4 DEF W!RemoveFocus
  <2>2. \A d \in Content : W!CanFocus (d) => (OnDisplay (d)' <=> listener'[d] \in ToSet (listeners'))
    BY <1>2, <1>4, <2>1
  <2>3. QED
    BY <1>1, <1>2, <2>1, <2>2 DEF Attentive
<1>5. CASE W!CanFocus (c)
  <2>1. /\ listeners' \in Seq (Handle) /\ Distinct (listeners')
        /\ ToSet (listeners') = ToSet (listeners) \ {listener[c]}
    BY <1>1, <1>2, <1>5, WithoutListener DEF W!RemoveFocus
  <2>2. \A d \in Content : d # c /\ listener[d] \in ToSet (listeners) => listener[d] # listener[c]
    BY <1>2, <1>3
  <2>3. \A d \in Content : W!CanFocus (d) => (OnDisplay (d)' <=> listener'[d] \in ToSet (listeners'))
    BY <1>2, <2>1, <2>2
  <2>4. QED
    BY <1>2, <2>1, <2>3 DEF Attentive
<1>6. QED
  BY <1>4, <1>5


\* Windows that change in place display what they did.
LEMMA SameContents ==
  ASSUME windows \in Seq (W!Window), windows' \in Seq (W!Window), Stacked,
         DOMAIN windows' = DOMAIN windows,
         \A i \in DOMAIN windows : windows'[i].content = windows[i].content
  PROVE  /\ Distinct (windows')
         /\ \A v, w \in ToSet (windows') : v.content = w.content => v = w
         /\ W!OrderedByType'
         /\ \A c : (\E w \in ToSet (windows') : w.content = c) <=> (\E w \in ToSet (windows) : w.content = c)
<1>1. \A i, j \in DOMAIN windows : windows[i].content = windows[j].content => i = j
  BY DEF Stacked, ToSet, Distinct
<1>2. \A i, j \in DOMAIN windows' : windows'[i].content = windows'[j].content => i = j
  BY <1>1
<1>3. Distinct (windows')
  BY <1>2 DEF Distinct
<1>4. \A v, w \in ToSet (windows') : v.content = w.content => v = w
  BY <1>2 DEF ToSet
<1>5. W!OrderedByType'
  BY DEF Stacked, W!OrderedByType
<1>6. \A c : (\E w \in ToSet (windows') : w.content = c) <=> (\E w \in ToSet (windows) : w.content = c)
  BY DEF ToSet
<1>7. QED
  BY <1>3, <1>4, <1>5, <1>6

\* Where a new window goes.
LEMMA PlaceOrdered ==
  ASSUME W!WindowsAssumption, W!TypeOK, Stacked, NEW c \in Content
  PROVE  /\ W!Place (c) \in 1 .. Len (windows) + 1
         /\ \A i \in DOMAIN windows : i < W!Place (c) =>
              W!Rank[WindowType[windows[i].content]] >= W!Rank[WindowType[c]]
         /\ \A i \in DOMAIN windows : i >= W!Place (c) =>
              W!Rank[WindowType[c]] >= W!Rank[WindowType[windows[i].content]]
<1> DEFINE rank (d) == W!Rank[WindowType[d]]
           lower == {i \in DOMAIN windows : rank (c) > rank (windows[i].content)}
           p == W!Place (c)
<1>1. /\ Len (windows) \in Nat /\ DOMAIN windows = 1 .. Len (windows)
      /\ \A i \in DOMAIN windows : windows[i] \in W!Window
  BY LenProperties, ElementOfSeq DEF W!TypeOK
<1>2. \A i \in DOMAIN windows : rank (windows[i].content) \in Nat
  BY <1>1, WindowsConstants DEF W!Window
<1>3. rank (c) \in Nat
  BY WindowsConstants
<1>4. \A i, j \in DOMAIN windows : i < j => rank (windows[i].content) >= rank (windows[j].content)
  BY DEF Stacked, W!OrderedByType
<1>5. p = IF lower = {} THEN Len (windows) + 1 ELSE CHOOSE i \in lower : \A j \in lower : i <= j
  BY DEF W!Place
<1> HIDE DEF rank, p
<1>6. CASE lower = {}
  <2>1. p = Len (windows) + 1
    BY <1>5, <1>6
  <2>2. \A i \in DOMAIN windows : rank (windows[i].content) >= rank (c)
    BY <1>2, <1>3, <1>6
  <2>3. QED
    BY <1>1, <2>1, <2>2 DEF p, rank
<1>7. CASE lower # {}
  <2>1. lower \subseteq Nat
    BY <1>1
  <2>2. lower \subseteq DOMAIN windows /\ \A i \in DOMAIN windows : i \in lower <=> rank (c) > rank (windows[i].content)
    OBVIOUS
  <2> HIDE DEF lower
  <2>3. p \in lower /\ \A j \in lower : p <= j
    BY <1>5, <1>7, <2>1, LeastNatural
  <2>4. \A i \in DOMAIN windows : i < p => rank (windows[i].content) >= rank (c)
    BY <1>1, <1>2, <1>3, <2>2, <2>3
  <2>5. \A i \in DOMAIN windows : i >= p => rank (c) >= rank (windows[i].content)
    <3>1. TAKE i \in DOMAIN windows
    <3>2. HAVE i >= p
    <3>3. rank (c) > rank (windows[p].content) /\ p \in DOMAIN windows
      BY <2>2, <2>3
    <3>4. i = p \/ p < i
      BY <1>1, <2>2, <2>3, <3>2
    <3>5. rank (windows[p].content) >= rank (windows[i].content)
      BY <1>2, <1>4, <3>3, <3>4
    <3>6. QED
      BY <1>2, <1>3, <3>3, <3>5
  <2>6. p \in 1 .. Len (windows) + 1
    BY <1>1, <2>2, <2>3
  <2>7. QED
    BY <2>4, <2>5, <2>6 DEF p, rank
<1>8. QED
  BY <1>6, <1>7

LEMMA WindowsAdd ==
  ASSUME W!WindowsAssumption, WindowsInv, NEW c \in Content, NEW f \in Fades[c], W!Add (c, f)
  PROVE  WindowsInv'
<1> DEFINE n == W!NewWindow (c, f)
           p == W!Place (c)
<1>1. W!TypeOK /\ Stacked /\ Attentive /\ Delivering
  BY DEF WindowsInv
<1>2. /\ windows \in Seq (W!Window) /\ Len (windows) \in Nat /\ DOMAIN windows = 1 .. Len (windows)
      /\ \A i \in DOMAIN windows : windows[i] \in W!Window
  BY <1>1, LenProperties, ElementOfSeq DEF W!TypeOK
<1>3. n \in W!Window /\ n.content = c /\ n.showing
  BY WindowOpens
<1>4. /\ p \in 1 .. Len (windows) + 1
      /\ \A i \in DOMAIN windows : i < p => W!Rank[WindowType[windows[i].content]] >= W!Rank[WindowType[c]]
      /\ \A i \in DOMAIN windows : i >= p => W!Rank[WindowType[c]] >= W!Rank[WindowType[windows[i].content]]
  BY <1>1, PlaceOrdered
<1>5. /\ windows' = InsertAt (windows, p, n)
      /\ W!ReceiveFocus (c) /\ frame = 0
      /\ delivery' = delivery /\ relative' = relative /\ frame' = frame
      /\ \A w \in ToSet (windows) : w.content # c
  BY WindowLists DEF W!Add, W!Acting, W!IsOpen, ToSet
<1> HIDE DEF n, p
<1>6. n \notin ToSet (windows)
  BY <1>3, <1>5
<1>7. /\ windows' \in Seq (W!Window) /\ ToSet (windows') = ToSet (windows) \cup {n}
      /\ Distinct (windows')
  BY <1>1, <1>2, <1>3, <1>4, <1>5, <1>6, InsertNew DEF Stacked
<1>8. W!OrderedByType'
  <2>1. /\ DOMAIN windows' = 1 .. Len (windows) + 1
        /\ \A i \in 1 .. Len (windows) + 1 :
             windows'[i] = IF i < p THEN windows[i] ELSE IF i = p THEN n ELSE windows[i - 1]
    <3> DEFINE s == InsertAt (windows, p, n)
    <3>1. /\ Len (s) = Len (windows) + 1
          /\ \A i \in 1 .. Len (windows) + 1 :
               s[i] = IF i < p THEN windows[i] ELSE IF i = p THEN n ELSE windows[i - 1]
      BY <1>2, <1>3, <1>4, InsertAtElements
    <3>2. windows' = s /\ s \in Seq (W!Window)
      BY <1>5, <1>7
    <3> HIDE DEF s
    <3>3. DOMAIN s = 1 .. Len (s)
      BY <3>2, LenProperties
    <3>4. QED
      BY <3>1, <3>2, <3>3
  <2> DEFINE rank (w) == W!Rank[WindowType[w.content]]
  <2>2. /\ \A i, j \in DOMAIN windows : i < j => rank (windows[i]) >= rank (windows[j])
        /\ \A i \in DOMAIN windows : i < p => rank (windows[i]) >= rank (n)
        /\ \A i \in DOMAIN windows : i >= p => rank (n) >= rank (windows[i])
    BY <1>1, <1>3, <1>4 DEF Stacked, W!OrderedByType
  <2>3. rank (n) \in Nat /\ \A i \in DOMAIN windows : rank (windows[i]) \in Nat
    BY <1>2, <1>3, WindowsConstants DEF W!Window
  <2> HIDE DEF rank
  <2>4. ASSUME NEW i \in DOMAIN windows', NEW j \in DOMAIN windows', i < j
        PROVE  rank (windows'[i]) >= rank (windows'[j])
    <3>1. i \in 1 .. Len (windows) + 1 /\ j \in 1 .. Len (windows) + 1 /\ p \in Int
      BY <1>4, <2>1
    <3>2. CASE j < p
      <4>1. i \in DOMAIN windows /\ j \in DOMAIN windows /\ windows'[i] = windows[i] /\ windows'[j] = windows[j]
        BY <1>2, <1>4, <2>1, <2>4, <3>1, <3>2
      <4>2. QED
        BY <2>2, <2>4, <4>1
    <3>3. CASE j = p
      <4>1. i \in DOMAIN windows /\ i < p /\ windows'[i] = windows[i] /\ windows'[j] = n
        BY <1>2, <1>4, <2>1, <2>4, <3>1, <3>3
      <4>2. QED
        BY <2>2, <4>1
    <3>4. CASE j > p /\ i < p
      <4>1. /\ i \in DOMAIN windows /\ j - 1 \in DOMAIN windows /\ i < j - 1
            /\ windows'[i] = windows[i] /\ windows'[j] = windows[j - 1]
        BY <1>2, <1>4, <2>1, <2>4, <3>1, <3>4
      <4>2. QED
        BY <2>2, <4>1
    <3>5. CASE j > p /\ i = p
      <4>1. j - 1 \in DOMAIN windows /\ j - 1 >= p /\ windows'[i] = n /\ windows'[j] = windows[j - 1]
        BY <1>2, <1>4, <2>1, <2>4, <3>1, <3>5
      <4>2. QED
        BY <2>2, <4>1
    <3>6. CASE j > p /\ i > p
      <4>1. /\ i - 1 \in DOMAIN windows /\ j - 1 \in DOMAIN windows /\ i - 1 < j - 1
            /\ windows'[i] = windows[i - 1] /\ windows'[j] = windows[j - 1]
        BY <1>2, <1>4, <2>1, <2>4, <3>1, <3>6
      <4>2. QED
        BY <2>2, <4>1
    <3>7. QED
      BY <2>4, <3>1, <3>2, <3>3, <3>4, <3>5, <3>6
  <2>5. QED
    BY <2>4 DEF W!OrderedByType, rank
<1>9. Stacked'
  <2>1. \A v, w \in ToSet (windows') : v.content = w.content => v = w
    BY <1>1, <1>3, <1>5, <1>7 DEF Stacked
  <2>2. \A v, w \in ToSet (windows') :
          ~ v.showing /\ ~ w.showing /\ v # w => ~ W!CanFocus (v.content) /\ ~ W!CanFocus (w.content)
    BY <1>1, <1>3, <1>7 DEF Stacked
  <2>3. QED
    BY <1>7, <1>8, <2>1, <2>2 DEF Stacked
<1>10. \A d : OnDisplay (d)' <=> OnDisplay (d) \/ d = c
  BY <1>3, <1>7 DEF OnDisplay
<1>11. /\ Attentive'
       /\ listeners' \in Seq (Handle) /\ deleted' \subseteq Handle
       /\ listener' \in [Content -> Handle \cup {None}]
       /\ \A k \in ToSet (delivery.rest) : k \notin deleted /\ k # listener[c] =>
            k \notin deleted' /\ \A d \in Content : k = listener'[d] => k = listener[d]
  BY <1>1, <1>5, <1>10, FocusKeeps
<1>12. Delivering'
  <2>1. \A k \in ToSet (delivery.rest) :
          /\ k \notin deleted /\ k # listener[c]
          /\ \A d \in Content : k = listener[d] => \E w \in ToSet (windows) : w.content = d
    BY <1>1, <1>5 DEF Delivering
  <2>2. QED
    BY <1>1, <1>5, <1>7, <1>11, <2>1 DEF Delivering
<1>13. W!TypeOK'
  <2>1. Len (windows') \in Nat
    BY <1>7, LenProperties
  <2>2. QED
    BY <1>1, <1>5, <1>7, <1>11, <2>1 DEF W!TypeOK
<1>14. QED
  BY <1>9, <1>11, <1>12, <1>13 DEF WindowsInv

LEMMA WindowsClose ==
  ASSUME W!WindowsAssumption, Careless = {}, WindowsInv,
         NEW c \in Content, NEW f \in Fades[c], W!Close (c, f)
  PROVE  WindowsInv'
<1>1. W!TypeOK /\ Stacked /\ Attentive /\ Delivering
  BY DEF WindowsInv
<1>2. /\ windows \in Seq (W!Window) /\ Len (windows) \in Nat /\ DOMAIN windows = 1 .. Len (windows)
      /\ \A i \in DOMAIN windows : windows[i] \in W!Window
  BY <1>1, LenProperties, ElementOfSeq DEF W!TypeOK
<1>3. PICK i \in DOMAIN windows :
        windows[i].content = c /\ windows' = [windows EXCEPT ![i] = W!FadeOut (@, f)]
  BY DEF W!Close
<1> DEFINE n == W!FadeOut (windows[i], f)
<1>4. n \in W!Window /\ n.content = c /\ ~ n.showing
  BY <1>2, <1>3, WindowOpens
<1>5. /\ frame = 0 /\ W!RemoveFocus (c)
      /\ \A w \in ToSet (windows) : ~ w.showing /\ w.content # c =>
           ~ W!CanFocus (c) /\ ~ W!CanFocus (w.content)
      /\ UNCHANGED <<deleted, delivery, relative, listener, frame>>
  <2>1. \A d \in W!Closing \ {c} : ~ W!CanFocus (c) /\ ~ W!CanFocus (d)
    BY DEF W!Close
  <2>2. \A w \in ToSet (windows) : ~ w.showing => w.content \in W!Closing
    BY DEF W!Closing, ToSet
  <2>3. QED
    BY <2>1, <2>2 DEF W!Close, W!Acting
<1>6. /\ DOMAIN windows' = DOMAIN windows /\ windows'[i] = n
      /\ \A j \in DOMAIN windows : j # i => windows'[j] = windows[j]
  BY <1>3
<1> HIDE DEF n
<1>7. windows' \in Seq (W!Window) /\ Len (windows') = Len (windows)
  <2>1. windows' \in [1 .. Len (windows) -> W!Window]
    BY <1>2, <1>3, <1>4 DEF n
  <2>2. windows' \in Seq (W!Window)
    BY <1>2, <2>1
  <2>3. QED
    BY <1>2, <1>6, <2>2, LenProperties
<1>8. \A j \in DOMAIN windows : windows'[j].content = windows[j].content
  BY <1>3, <1>4, <1>6
<1>9. /\ Distinct (windows')
      /\ \A v, w \in ToSet (windows') : v.content = w.content => v = w
      /\ W!OrderedByType'
      /\ \A d : (\E w \in ToSet (windows') : w.content = d) <=> (\E w \in ToSet (windows) : w.content = d)
  BY <1>1, <1>2, <1>6, <1>7, <1>8, SameContents
<1>10. /\ \A w \in ToSet (windows) : w.content = c => w = windows[i]
       /\ ToSet (windows') = (ToSet (windows) \ {windows[i]}) \cup {n}
  <2>1. \A w \in ToSet (windows) : w.content = c => w = windows[i]
    BY <1>1, <1>3 DEF Stacked, ToSet
  <2>2. \A j \in DOMAIN windows : j # i => windows[j] # windows[i]
    BY <1>1, <1>3 DEF Stacked, Distinct
  <2>3. ToSet (windows') = (ToSet (windows) \ {windows[i]}) \cup {n}
    BY <1>6, <2>2 DEF ToSet
  <2>4. QED
    BY <2>1, <2>3
<1>11. Stacked'
  <2>1. ASSUME NEW v \in ToSet (windows'), NEW w \in ToSet (windows'), ~ v.showing, ~ w.showing, v # w
        PROVE  ~ W!CanFocus (v.content) /\ ~ W!CanFocus (w.content)
    <3>1. CASE v = n
      BY <1>4, <1>5, <1>9, <1>10, <2>1, <3>1
    <3>2. CASE w = n
      BY <1>4, <1>5, <1>9, <1>10, <2>1, <3>2
    <3>3. CASE v # n /\ w # n
      BY <1>1, <1>10, <2>1, <3>3 DEF Stacked
    <3>4. QED
      BY <3>1, <3>2, <3>3
  <2>2. QED
    BY <1>9, <2>1 DEF Stacked
<1>12. \A d : OnDisplay (d)' <=> OnDisplay (d) /\ d # c
  BY <1>3, <1>4, <1>10 DEF OnDisplay
<1>13. Attentive' /\ listeners' \in Seq (Handle)
  BY <1>1, <1>5, <1>12, FocusLost
<1>14. Delivering'
  BY <1>1, <1>5, <1>9 DEF Delivering
<1>15. W!TypeOK'
  BY <1>1, <1>5, <1>7, <1>13 DEF W!TypeOK
<1>16. QED
  BY <1>11, <1>13, <1>14, <1>15 DEF WindowsInv


\* Windows that fade while the frame is drawn.
LEMMA WindowsDraw ==
  ASSUME W!WindowsAssumption, WindowsInv, W!DrawWindow
  PROVE  WindowsInv'
<1> DEFINE n == W!Fade (windows[frame])
<1>1. W!TypeOK /\ Stacked /\ Attentive /\ Delivering
  BY DEF WindowsInv
<1>2. /\ windows \in Seq (W!Window) /\ Len (windows) \in Nat /\ DOMAIN windows = 1 .. Len (windows)
      /\ \A i \in DOMAIN windows : windows[i] \in W!Window
      /\ frame \in 1 .. Len (windows)
  BY <1>1, LenProperties, ElementOfSeq DEF W!TypeOK, W!DrawWindow
<1>3. /\ windows' = [windows EXCEPT ![frame] = n] /\ frame' = frame - 1
      /\ UNCHANGED <<listeners, deleted, delivery, listener>>
  BY DEF W!DrawWindow, W!inputVars
<1>4. n \in W!Window /\ n.content = windows[frame].content /\ n.showing = windows[frame].showing
  BY <1>2, WindowFades
<1> HIDE DEF n
<1>5. relative' \in Seq (W!Window)
  <2>1. relative' \in W!FadeRelative \/ relative' = relative
    BY DEF W!DrawWindow
  <2>2. QED
    BY <1>1, <2>1, RelativeType DEF W!TypeOK
<1>6. /\ DOMAIN windows' = DOMAIN windows /\ windows'[frame] = n
      /\ \A j \in DOMAIN windows : j # frame => windows'[j] = windows[j]
  BY <1>2, <1>3
<1>7. windows' \in Seq (W!Window) /\ Len (windows') = Len (windows)
  <2>1. windows' \in [1 .. Len (windows) -> W!Window]
    BY <1>2, <1>3, <1>4
  <2>2. windows' \in Seq (W!Window)
    BY <1>2, <2>1
  <2>3. QED
    BY <1>2, <1>6, <2>2, LenProperties
<1>8. \A j \in DOMAIN windows :
        windows'[j].content = windows[j].content /\ windows'[j].showing = windows[j].showing
  BY <1>4, <1>6
<1>9. /\ Distinct (windows')
      /\ \A v, w \in ToSet (windows') : v.content = w.content => v = w
      /\ W!OrderedByType'
      /\ \A d : (\E w \in ToSet (windows') : w.content = d) <=> (\E w \in ToSet (windows) : w.content = d)
  BY <1>1, <1>2, <1>6, <1>7, <1>8, SameContents
<1>10. Stacked'
  <2>1. ASSUME NEW v \in ToSet (windows'), NEW w \in ToSet (windows'), ~ v.showing, ~ w.showing, v # w
        PROVE  ~ W!CanFocus (v.content) /\ ~ W!CanFocus (w.content)
    <3>1. PICK i \in DOMAIN windows, j \in DOMAIN windows : v = windows'[i] /\ w = windows'[j]
      BY <1>6 DEF ToSet
    <3>2. i # j /\ ~ windows[i].showing /\ ~ windows[j].showing
      BY <1>8, <2>1, <3>1
    <3>3. windows[i] # windows[j] /\ windows[i] \in ToSet (windows) /\ windows[j] \in ToSet (windows)
      BY <1>1, <3>2 DEF Stacked, Distinct, ToSet
    <3>4. ~ W!CanFocus (windows[i].content) /\ ~ W!CanFocus (windows[j].content)
      BY <1>1, <3>2, <3>3 DEF Stacked
    <3>5. QED
      BY <1>8, <3>1, <3>4
  <2>2. QED
    BY <1>9, <2>1 DEF Stacked
<1>11. \A d : OnDisplay (d)' <=> OnDisplay (d)
  BY <1>6, <1>8 DEF OnDisplay, ToSet
<1>12. Attentive'
  BY <1>1, <1>3, <1>11 DEF Attentive
<1>13. Delivering'
  <2>1. delivery.kind = "none" /\ delivery.rest = <<>>
    BY <1>1, <1>2 DEF Delivering
  <2>2. QED
    BY <1>1, <1>3, <1>9, <2>1 DEF Delivering
<1>14. W!TypeOK'
  BY <1>1, <1>2, <1>3, <1>5, <1>7 DEF W!TypeOK
<1>15. QED
  BY <1>10, <1>12, <1>13, <1>14 DEF WindowsInv

\* The window above the one that disappears stays, if it can have the focus.
LEMMA WindowsRemove ==
  ASSUME W!WindowsAssumption, WindowsInv, W!RemoveFaded
  PROVE  WindowsInv'
<1> DEFINE gone == windows[frame]
<1>1. W!TypeOK /\ Stacked /\ Attentive /\ Delivering
  BY DEF WindowsInv
<1>2. /\ windows \in Seq (W!Window) /\ Len (windows) \in Nat /\ DOMAIN windows = 1 .. Len (windows)
      /\ \A i \in DOMAIN windows : windows[i] \in W!Window
      /\ frame \in 1 .. Len (windows)
  BY <1>1, LenProperties, ElementOfSeq DEF W!TypeOK, W!RemoveFaded
<1>3. /\ windows' = RemoveAt (windows, frame) /\ frame' = frame - 1 /\ ~ gone.showing
      /\ UNCHANGED <<delivery, relative>>
  BY WindowLists DEF W!RemoveFaded, W!FadedOut
<1>4. gone \in ToSet (windows)
  BY <1>2 DEF ToSet
<1> HIDE DEF gone
<1>5. windows' \in Seq (W!Window) /\ ToSet (windows') = ToSet (windows) \ {gone} /\ Distinct (windows')
  BY <1>1, <1>2, <1>3, RemoveAtDistinct DEF Stacked, gone
<1>6. /\ Len (windows') = Len (windows) - 1 /\ DOMAIN windows' = 1 .. Len (windows) - 1
      /\ \A i \in 1 .. Len (windows) - 1 : windows'[i] = IF i < frame THEN windows[i] ELSE windows[i + 1]
  <2> DEFINE s == RemoveAt (windows, frame)
  <2>1. /\ Len (s) = Len (windows) - 1
        /\ \A i \in 1 .. Len (windows) - 1 : s[i] = IF i < frame THEN windows[i] ELSE windows[i + 1]
    BY <1>2, RemoveAtElements
  <2>2. windows' = s /\ s \in Seq (W!Window)
    BY <1>3, <1>5
  <2> HIDE DEF s
  <2>3. DOMAIN s = 1 .. Len (s)
    BY <2>2, LenProperties
  <2>4. QED
    BY <2>1, <2>2, <2>3
<1>7. W!OrderedByType'
  <2> DEFINE rank (w) == W!Rank[WindowType[w.content]]
             from (i) == IF i < frame THEN i ELSE i + 1
  <2>1. \A i, j \in DOMAIN windows : i < j => rank (windows[i]) >= rank (windows[j])
    BY <1>1 DEF Stacked, W!OrderedByType
  <2>2. /\ \A i \in DOMAIN windows' : from (i) \in DOMAIN windows /\ windows'[i] = windows[from (i)]
        /\ \A i, j \in DOMAIN windows' : i < j => from (i) < from (j)
    BY <1>2, <1>6
  <2> HIDE DEF rank, from
  <2>3. \A i, j \in DOMAIN windows' : i < j => rank (windows'[i]) >= rank (windows'[j])
    BY <2>1, <2>2
  <2>4. QED
    BY <2>3 DEF W!OrderedByType, rank
<1>8. Stacked'
  BY <1>1, <1>5, <1>7 DEF Stacked
<1>9. \A d : OnDisplay (d)' <=> OnDisplay (d)
  BY <1>3, <1>5 DEF OnDisplay
<1>10. delivery.kind = "none" /\ delivery.rest = <<>>
  BY <1>1, <1>2 DEF Delivering
<1>11. /\ Attentive'
       /\ listeners' \in Seq (Handle) /\ deleted' \subseteq Handle
       /\ listener' \in [Content -> Handle \cup {None}]
  <2>1. CASE frame > 1
    <3> DEFINE above == windows[frame - 1]
               c == above.content
    <3>1. above \in ToSet (windows) /\ c \in Content
      <4>1. frame - 1 \in DOMAIN windows
        BY <1>2, <2>1
      <4>2. QED
        BY <1>2, <4>1 DEF W!Window, ToSet
    <3>2. above # gone
      <4>1. frame - 1 \in DOMAIN windows /\ frame \in DOMAIN windows /\ frame - 1 # frame
        BY <1>2, <2>1
      <4>2. QED
        BY <1>1, <4>1 DEF Stacked, Distinct, gone
    <3>3. W!ReceiveFocus (c)
      BY <2>1 DEF W!RemoveFaded
    <3> HIDE DEF above
    <3>4. W!CanFocus (c) => OnDisplay (c)
      BY <1>1, <1>3, <1>4, <3>1, <3>2 DEF Stacked, OnDisplay
    <3> HIDE DEF c
    <3>5. \A d \in Content : W!CanFocus (d) => (OnDisplay (d)' <=> OnDisplay (d) \/ d = c)
      BY <1>9, <3>4
    <3>6. QED
      BY <1>1, <3>1, <3>3, <3>5, FocusKeeps
  <2>2. CASE ~ (frame > 1)
    <3>1. UNCHANGED <<listeners, listener, deleted>>
      BY <2>2 DEF W!RemoveFaded
    <3>2. QED
      BY <1>1, <1>9, <3>1 DEF Attentive, W!TypeOK
  <2>3. QED
    BY <2>1, <2>2
<1>12. Delivering'
  <2>1. ToSet (delivery.rest) = {}
    BY <1>10 DEF ToSet
  <2>2. QED
    BY <1>1, <1>3, <1>10, <2>1 DEF Delivering
<1>13. W!TypeOK'
  BY <1>1, <1>2, <1>3, <1>5, <1>6, <1>11 DEF W!TypeOK
<1>14. QED
  BY <1>8, <1>11, <1>12, <1>13 DEF WindowsInv

\* The other actions of scripts.
LEMMA WindowsScripts ==
  ASSUME W!WindowsAssumption, Careless = {}, WindowsInv, W!Scripts
  PROVE  WindowsInv'
<1>1. W!TypeOK /\ Stacked /\ Attentive /\ Delivering
  BY DEF WindowsInv
<1>2. listeners \in Seq (Handle) /\ Distinct (listeners) /\ Len (listeners) \in Nat
  BY <1>1, LenProperties DEF W!TypeOK, Attentive
<1>3. /\ \A l \in Handle : W!Contains (listeners, l) <=> l \in ToSet (listeners)
      /\ \A l \in Handle : W!Contains (delivery.rest, l) <=> l \in ToSet (delivery.rest)
  <2>1. delivery.rest \in Seq (Handle)
    BY <1>1 DEF W!TypeOK, W!Delivery
  <2>2. DOMAIN listeners = 1 .. Len (listeners) /\ DOMAIN delivery.rest = 1 .. Len (delivery.rest)
    BY <1>2, <2>1, LenProperties
  <2>3. QED
    BY <2>2, WindowLists DEF ToSet
<1>4. /\ None \notin Content /\ Layout \subseteq Content /\ None \notin Handle
      /\ \A c \in Content : \A l \in W!Script : listener[c] # l
  BY <1>1, WindowsConstants DEF Attentive, W!Script
<1>5. ASSUME NEW c \in Content, NEW f \in Fades[c], W!AddRelative (c, f)
      PROVE  WindowsInv'
  <2>1. /\ relative' = <<W!NewWindow (c, f)>> \o relative
        /\ UNCHANGED <<listeners, deleted, delivery, windows, listener, frame>>
    BY <1>5 DEF W!AddRelative, W!inputVars
  <2>2. W!NewWindow (c, f) \in W!Window /\ relative \in Seq (W!Window)
    BY <1>1, WindowOpens DEF W!TypeOK
  <2>3. relative' \in Seq (W!Window)
    <3>1. <<W!NewWindow (c, f)>> \in Seq (W!Window)
      BY <2>2
    <3>2. QED
      BY <2>1, <2>2, <3>1, ConcatProperties
  <2>4. QED
    BY <1>1, <2>1, <2>3 DEF WindowsInv, W!TypeOK, Stacked, W!OrderedByType, Attentive, OnDisplay, Delivering
<1>6. ASSUME NEW c \in Content, NEW f \in Fades[c], W!CloseRelative (c, f)
      PROVE  WindowsInv'
  <2>1. /\ \E i \in DOMAIN relative : relative' = [relative EXCEPT ![i] = W!FadeOut (@, f)]
        /\ UNCHANGED <<listeners, deleted, delivery, windows, listener, frame>>
    BY <1>6 DEF W!CloseRelative, W!inputVars
  <2>2. PICK i \in DOMAIN relative : relative' = [relative EXCEPT ![i] = W!FadeOut (@, f)]
    BY <2>1
  <2>3. /\ relative \in Seq (W!Window) /\ Len (relative) \in Nat /\ DOMAIN relative = 1 .. Len (relative)
        /\ \A j \in DOMAIN relative : relative[j] \in W!Window
    BY <1>1, LenProperties, ElementOfSeq DEF W!TypeOK
  <2>4. W!FadeOut (relative[i], f) \in W!Window
    BY <2>2, <2>3, WindowOpens
  <2>5. relative' \in [1 .. Len (relative) -> W!Window]
    BY <2>2, <2>3, <2>4
  <2>6. relative' \in Seq (W!Window)
    BY <2>3, <2>5
  <2>7. QED
    BY <1>1, <2>1, <2>6 DEF WindowsInv, W!TypeOK, Stacked, W!OrderedByType, Attentive, OnDisplay, Delivering
<1>7. ASSUME NEW l \in W!Script, W!AddListener (l)
      PROVE  WindowsInv'
  <2>1. /\ l \in Handle /\ l \in deleted /\ l \notin ToSet (delivery.rest)
        /\ deleted' = deleted \ {l} /\ listeners' = Append (listeners, l)
        /\ UNCHANGED <<delivery, windows, relative, listener, frame>>
    BY <1>3, <1>7 DEF W!AddListener, W!AddLast, W!Script
  <2>2. l \notin ToSet (listeners)
    BY <1>1, <2>1 DEF Attentive
  <2>3. /\ listeners' \in Seq (Handle) /\ Distinct (listeners')
        /\ ToSet (listeners') = ToSet (listeners) \cup {l}
    BY <1>2, <2>1, <2>2, AppendNew
  <2>4. Attentive'
    BY <1>1, <1>4, <1>7, <2>1, <2>3 DEF Attentive, OnDisplay
  <2>5. QED
    BY <1>1, <2>1, <2>3, <2>4 DEF WindowsInv, W!TypeOK, Stacked, W!OrderedByType, Delivering
<1>8. ASSUME NEW l \in W!Script, W!FocusListener (l)
      PROVE  WindowsInv'
  <2>1. /\ l \in Handle /\ l \in ToSet (listeners)
        /\ listeners' = <<l>> \o W!Without (l)
        /\ UNCHANGED <<deleted, delivery, windows, relative, listener, frame>>
    BY <1>3, <1>8 DEF W!FocusListener, W!GiveFocus, W!Script
  <2> DEFINE s == W!Without (l)
  <2>2. s \in Seq (Handle) /\ ToSet (s) = ToSet (listeners) \ {l} /\ Distinct (s)
    BY <1>2, WithoutListener
  <2> HIDE DEF s
  <2>3. /\ <<l>> \o s \in Seq (Handle) /\ Distinct (<<l>> \o s)
        /\ ToSet (<<l>> \o s) = ToSet (s) \cup {l}
    BY <2>1, <2>2, InFrontNew
  <2>4. /\ listeners' \in Seq (Handle) /\ Distinct (listeners')
        /\ ToSet (listeners') = ToSet (listeners)
    BY <2>1, <2>2, <2>3 DEF s
  <2>5. Attentive'
    BY <1>1, <2>1, <2>4 DEF Attentive, OnDisplay
  <2>6. QED
    BY <1>1, <2>1, <2>4, <2>5 DEF WindowsInv, W!TypeOK, Stacked, W!OrderedByType, Delivering
<1>9. ASSUME NEW l \in W!Script, W!DeleteListener (l)
      PROVE  WindowsInv'
  <2>1. /\ l \in Handle /\ delivery.kind = "none"
        /\ listeners' = W!Without (l) /\ deleted' = deleted \cup {l}
        /\ UNCHANGED <<delivery, windows, relative, listener, frame>>
    BY <1>9 DEF W!DeleteListener, W!Script
  <2>2. /\ listeners' \in Seq (Handle) /\ Distinct (listeners')
        /\ ToSet (listeners') = ToSet (listeners) \ {l}
    BY <1>2, <2>1, WithoutListener
  <2>3. Attentive'
    BY <1>1, <1>4, <1>9, <2>1, <2>2 DEF Attentive, OnDisplay
  <2>4. Delivering'
    <3>1. ToSet (delivery.rest) = {}
      BY <1>1, <2>1 DEF Delivering, ToSet
    <3>2. QED
      BY <1>1, <2>1, <3>1 DEF Delivering
  <2>5. QED
    BY <1>1, <2>1, <2>2, <2>3, <2>4 DEF WindowsInv, W!TypeOK, Stacked, W!OrderedByType
<1>10. QED
  BY <1>5, <1>6, <1>7, <1>8, <1>9, WindowsAdd, WindowsClose DEF W!Scripts


\* Whoever hears the input now is alive and on display.
LEMMA ListenersAlive ==
  ASSUME W!WindowsAssumption, W!TypeOK, Attentive
  PROVE  \A l \in ToSet (listeners) :
           /\ l \notin deleted
           /\ \A c \in Content : l = listener[c] => \E w \in ToSet (windows) : w.content = c
<1>1. ToSet (listeners) \subseteq Handle
  BY ElementOfSeq, LenProperties DEF W!TypeOK, ToSet
<1>2. ASSUME NEW l \in ToSet (listeners), NEW c \in Content, l = listener[c]
      PROVE  \E w \in ToSet (windows) : w.content = c
  <2>1. listener[c] # None
    BY <1>1, <1>2, WindowsConstants
  <2>2. OnDisplay (c)
    BY <1>2, <2>1 DEF Attentive
  <2>3. QED
    BY <2>2 DEF OnDisplay
<1>3. QED
  BY <1>2 DEF Attentive

\* The delivery of an event does not change who listens.
LEMMA WindowsInput ==
  ASSUME W!WindowsAssumption, WindowsInv, W!Input
  PROVE  WindowsInv'
<1>1. W!TypeOK /\ Stacked /\ Attentive /\ Delivering
  BY DEF WindowsInv
<1>2. UNCHANGED <<listeners, deleted, windows, relative, listener, frame>>
  BY DEF W!Input, W!Raise, W!PassOver, W!Call, W!CallReturns, W!RaiseControl, W!Delivered
<1>3. /\ delivery.kind \in {"device", "control", "none"} /\ delivery.mapped \in BOOLEAN
      /\ delivery.rest \in Seq (Handle) /\ delivery.calling \in BOOLEAN
      /\ delivery = [kind |-> delivery.kind, mapped |-> delivery.mapped,
                     rest |-> delivery.rest, calling |-> delivery.calling]
  BY <1>1 DEF W!TypeOK, W!Delivery, W!Kind
<1>4. /\ delivery.kind = "none" => delivery.rest = <<>>
      /\ delivery.calling => delivery.rest # <<>>
      /\ frame > 0 => delivery.kind = "none"
  BY <1>1 DEF Delivering
<1>5. listeners \in Seq (Handle) /\ ToSet (<<>>) = {}
  BY <1>1 DEF W!TypeOK, ToSet
<1>6. delivery.rest # <<>> => /\ Tail (delivery.rest) \in Seq (Handle)
                              /\ ToSet (Tail (delivery.rest)) \subseteq ToSet (delivery.rest)
  <2> DEFINE s == delivery.rest
  <2>1. s \in Seq (Handle)
    BY <1>3
  <2> HIDE DEF s
  <2>2. ASSUME s # <<>>
        PROVE  Tail (s) \in Seq (Handle) /\ ToSet (Tail (s)) \subseteq ToSet (s)
    <3>1. /\ Len (s) \in Nat /\ DOMAIN s = 1 .. Len (s)
          /\ Tail (s) \in Seq (Handle) /\ Len (Tail (s)) = Len (s) - 1
          /\ \A i \in 1 .. Len (Tail (s)) : Tail (s)[i] = s[i + 1]
      BY <2>1, <2>2, HeadTailProperties, LenProperties
    <3>2. DOMAIN Tail (s) = 1 .. Len (Tail (s))
      BY <3>1, LenProperties
    <3>3. \A i \in DOMAIN Tail (s) : i + 1 \in DOMAIN s
      BY <3>1, <3>2
    <3>4. QED
      BY <3>1, <3>2, <3>3 DEF ToSet
  <2>3. QED
    BY <2>2 DEF s
<1>7. SUFFICES ASSUME NEW k \in {"device", "control", "none"}, NEW m \in BOOLEAN,
                      NEW r \in Seq (Handle), NEW b \in BOOLEAN,
                      delivery' = [kind |-> k, mapped |-> m, rest |-> r, calling |-> b],
                      k = "none" => r = <<>>, b => r # <<>>, frame > 0 => k = "none",
                      ToSet (r) \subseteq ToSet (delivery.rest) \/ r = listeners
               PROVE  WindowsInv'
  <2> DEFINE Goes (k, m, r, b) ==
        /\ k \in {"device", "control", "none"} /\ m \in BOOLEAN
        /\ r \in Seq (Handle) /\ b \in BOOLEAN
        /\ delivery' = [kind |-> k, mapped |-> m, rest |-> r, calling |-> b]
        /\ (k = "none" => r = <<>>) /\ (b => r # <<>>) /\ (frame > 0 => k = "none")
        /\ ToSet (r) \subseteq ToSet (delivery.rest) \/ r = listeners
  <2>1. ASSUME NEW mapped \in BOOLEAN, frame = 0, W!Raise (mapped)
        PROVE  WindowsInv'
    <3>1. Goes ("device", mapped, listeners, FALSE)
      BY <1>5, <2>1 DEF W!Raise
    <3>2. QED
      BY <3>1
  <2>2. CASE W!PassOver
    <3>1. Goes (delivery.kind, delivery.mapped, Tail (delivery.rest), delivery.calling)
      BY <1>3, <1>4, <1>6, <2>2 DEF W!PassOver, W!Waiting
    <3>2. QED
      BY <3>1
  <2>3. CASE W!Call
    <3>1. Goes (delivery.kind, delivery.mapped, delivery.rest, TRUE)
      BY <1>3, <1>4, <2>3 DEF W!Call, W!Waiting
    <3>2. QED
      BY <3>1
  <2>4. ASSUME NEW c \in BOOLEAN, W!CallReturns (c)
        PROVE  WindowsInv'
    <3>1. delivery.rest # <<>> /\ delivery.kind # "none"
      BY <1>4, <2>4 DEF W!CallReturns
    <3>2. CASE c
      <4>1. delivery' = [kind |-> delivery.kind, mapped |-> delivery.mapped, rest |-> <<>>, calling |-> FALSE]
        BY <1>3, <2>4, <3>2 DEF W!CallReturns
      <4>2. Goes (delivery.kind, delivery.mapped, <<>>, FALSE)
        BY <1>3, <1>4, <1>5, <3>1, <4>1
      <4>3. QED
        BY <4>2
    <3>3. CASE ~ c
      <4>1. delivery' = [kind |-> delivery.kind, mapped |-> delivery.mapped,
                         rest |-> Tail (delivery.rest), calling |-> FALSE]
        BY <1>3, <2>4, <3>3 DEF W!CallReturns
      <4>2. Goes (delivery.kind, delivery.mapped, Tail (delivery.rest), FALSE)
        BY <1>3, <1>4, <1>6, <3>1, <4>1
      <4>3. QED
        BY <4>2
    <3>4. QED
      BY <3>2, <3>3
  <2>5. CASE W!RaiseControl
    <3>1. Goes ("control", delivery.mapped, listeners, delivery.calling)
      BY <1>3, <1>4, <1>5, <2>5 DEF W!RaiseControl
    <3>2. QED
      BY <3>1
  <2>6. CASE W!Delivered
    <3>1. Goes ("none", FALSE, <<>>, FALSE)
      BY <1>5, <2>6 DEF W!Delivered, W!Idle
    <3>2. QED
      BY <3>1
  <2>7. QED
    BY <2>1, <2>2, <2>3, <2>4, <2>5, <2>6 DEF W!Input
<1>8. W!TypeOK'
  BY <1>1, <1>2, <1>7 DEF W!TypeOK, W!Delivery, W!Kind
<1>9. Stacked'
  BY <1>1, <1>2 DEF Stacked, W!OrderedByType
<1>10. Attentive'
  BY <1>1, <1>2 DEF Attentive, OnDisplay
<1>11. Delivering'
  <2>1. \A l \in ToSet (r) :
          /\ l \notin deleted
          /\ \A c \in Content : l = listener[c] => \E w \in ToSet (windows) : w.content = c
    BY <1>1, <1>7, ListenersAlive DEF Delivering
  <2>2. QED
    BY <1>2, <1>7, <2>1 DEF Delivering
<1>12. QED
  BY <1>8, <1>9, <1>10, <1>11 DEF WindowsInv

LEMMA WindowsNext ==
  ASSUME W!WindowsAssumption, Careless = {}, WindowsInv, W!Next
  PROVE  WindowsInv'
<1>1. CASE W!StartFrame
  <2>1. W!TypeOK /\ Stacked /\ Attentive /\ Delivering
    BY DEF WindowsInv
  <2>2. /\ frame' = Len (windows) /\ delivery.kind = "none"
        /\ UNCHANGED <<listeners, deleted, delivery, windows, relative, listener>>
    BY <1>1 DEF W!StartFrame, W!inputVars
  <2>3. Len (windows) \in Nat
    BY <2>1, LenProperties DEF W!TypeOK
  <2>4. W!TypeOK'
    BY <2>1, <2>2, <2>3 DEF W!TypeOK
  <2>5. Stacked' /\ Attentive' /\ Delivering'
    BY <2>1, <2>2 DEF Stacked, W!OrderedByType, Attentive, OnDisplay, Delivering
  <2>6. QED
    BY <2>4, <2>5 DEF WindowsInv
<1>2. QED
  BY <1>1, WindowsScripts, WindowsRemove, WindowsDraw, WindowsInput DEF W!Next, W!Update

LEMMA WindowsInit ==
  ASSUME W!WindowsAssumption, W!Init
  PROVE  WindowsInv
<1>1. /\ listeners = <<>> /\ deleted = Handle /\ delivery = W!Idle
      /\ windows = <<>> /\ relative = <<>> /\ listener = [c \in Content |-> None] /\ frame = 0
  BY DEF W!Init, W!InputInit
<1>2. ToSet (<<>>) = {} /\ DOMAIN <<>> = {} /\ Len (<<>>) = 0 /\ <<>> \in Seq (Handle) /\ <<>> \in Seq (W!Window)
  BY DEF ToSet
<1>3. W!TypeOK
  BY <1>1, <1>2 DEF W!TypeOK, W!Delivery, W!Kind, W!Idle
<1>4. Stacked
  BY <1>1, <1>2 DEF Stacked, Distinct, W!OrderedByType
<1>5. Attentive
  BY <1>1, <1>2 DEF Attentive, Distinct, OnDisplay
<1>6. Delivering
  BY <1>1, <1>2 DEF Delivering, W!Idle
<1>7. QED
  BY <1>3, <1>4, <1>5, <1>6 DEF WindowsInv

LEMMA WindowsListen ==
  ASSUME W!WindowsAssumption, WindowsInv
  PROVE  W!TypeOK /\ W!OrderedByType /\ W!DialogsListen /\ W!NoStaleDelivery
<1>1. W!TypeOK /\ Stacked /\ Attentive /\ Delivering
  BY DEF WindowsInv
<1>2. listeners \in Seq (Handle) /\ delivery.rest \in Seq (Handle)
  BY <1>1 DEF W!TypeOK, W!Delivery
<1>3. /\ \A l : W!Contains (listeners, l) <=> l \in ToSet (listeners)
      /\ ToSet (listeners) \subseteq Handle
  <2>1. DOMAIN listeners = 1 .. Len (listeners)
    BY <1>2, LenProperties
  <2>2. QED
    BY <1>2, <2>1, WindowLists, ElementOfSeq DEF ToSet
<1>4. \A c : c \in W!Open <=> OnDisplay (c)
  BY DEF W!Open, OnDisplay, ToSet
<1>5. W!DialogsListen
  <2>1. None \notin Handle /\ Layout \subseteq Content
    BY WindowsConstants
  <2>2. \A c \in Layout : W!CanFocus (c) =>
          (c \in W!Open <=> listener[c] # None /\ W!Contains (listeners, listener[c]))
    BY <1>1, <1>3, <1>4, <2>1 DEF Attentive
  <2>3. QED
    BY <1>1, <1>3, <2>2 DEF Attentive, W!DialogsListen
<1>6. W!NoStaleDelivery
  <2> DEFINE s == delivery.rest
  <2>1. s \in Seq (Handle) /\ \A l \in ToSet (s) : l \notin deleted
    BY <1>1, <1>2 DEF Delivering
  <2> HIDE DEF s
  <2>2. s # <<>> => Head (s) \in ToSet (s)
    BY <2>1, HeadNotAfter, EmptySeq, LenProperties DEF ToSet
  <2>3. QED
    BY <2>1, <2>2 DEF W!NoStaleDelivery, s
<1>7. QED
  BY <1>1, <1>5, <1>6 DEF Stacked

\* In whichever order windows are opened, closed and slide, and whatever the
\* handlers of input do in the middle of a delivery, dialogs stay on top, those
\* on display and no others hear the input, and no listener is called after it
\* has been deleted: as long as scripts close one window at a time and delete
\* no listener while it may be called (window_manager.cc, layout.cc, manager.cc).
THEOREM DialogsAlwaysListen == Careless = {} => (Spec => []DialogsListen)
<1> SUFFICES ASSUME Careless = {}
             PROVE  Spec => []DialogsListen
  OBVIOUS
<1> DEFINE Inv == scene = "windows" => WindowsInv
<1>1. Init => Inv
  BY WindowsAssumption, WindowsInit DEF Init
<1>2. Inv /\ [Next]_vars => Inv'
  <2> SUFFICES ASSUME Inv, [Next]_vars, scene' = "windows"
               PROVE  WindowsInv'
    OBVIOUS
  <2>1. CASE WindowsStep
    BY <2>1, WindowsAssumption, WindowsNext DEF WindowsStep
  <2>2. CASE scene' = scene /\ UNCHANGED windowsVars
    BY <2>2 DEF windowsVars, WindowsInv, W!TypeOK, Stacked, W!OrderedByType, Attentive, OnDisplay, Delivering
  <2>3. QED
    BY <2>1, <2>2 DEF Next, vars, ConversationsStep, MovingStep, QuestsStep, WindowsStep
<1>3. Inv => DialogsListen
  BY WindowsAssumption, WindowsListen DEF DialogsListen
<1>4. QED
  BY <1>1, <1>2, <1>3, PTL DEF Spec


-----------------------------------------------------------------------------
(***************************************************************************)
(* Quests. While callbacks complete further steps, several climbs are under *)
(* way; whatever does not agree yet, a parent with its parts or a listener *)
(* with a part, is what a climb that has begun has still to come to.       *)
(***************************************************************************)

\* Rule, for parts of which those are completed that "done" says.
Completes (done, p) ==
  IF Code[p] = {} THEN \A c \in Q!Children (p) : done[c]
  ELSE p \notin Unclosed /\ \E alt \in Code[p] : \A c \in alt : done[c]

\* A parent that is behind its parts is updated at the end of a climb.
Climbing ==
  /\ \A p \in Part : completed[p] => started[p] /\ Completes (completed, p)
  /\ \A p \in Part : started[p] /\ Parent[p] # None =>
       started[Parent[p]] \/ \E c \in ToSet (stack) : c.part = p
  /\ \A p \in Q!Composed : Completes (completed, p) /\ ~ completed[p] =>
       \E c \in ToSet (stack) : Parent[c.part] = p

\* The game is saved only when parents are up to date.
Archived ==
  /\ \A p \in Part : saved[2][p] => saved[1][p] /\ Completes (saved[2], p)
  /\ \A p \in Part : saved[1][p] /\ Parent[p] # None => saved[1][Parent[p]]
  /\ \A p \in Q!Composed : Completes (saved[2], p) => saved[2][p]

\* Each listener is in its list, and the walks stand at listeners.
Enlisted ==
  /\ \A h \in Q!Heads : Distinct (lists[h])
  /\ \A h \in Q!Heads : \A l \in ToSet (lists[h]) :
       partStatus[l] \in {"listed", "destroyed"} /\ h = Head (Pattern[l])
  /\ \A l \in QuestListener : partStatus[l] = "listed" /\ Head (Pattern[l]) \in Q!Heads =>
       l \in ToSet (lists[Head (Pattern[l])])
  /\ \A c \in ToSet (stack) : c.at # None =>
       partStatus[c.at] # "destroyed" /\ c.list \in 1 .. 3 /\ c.at \in ToSet (lists[Q!Lists (c.part)[c.list]])

\* Climb c has still to come to listener l.
Ahead (c, l) ==
  \E j \in 1 .. 3 :
    /\ Q!Lists (c.part)[j] = Head (Pattern[l])
    /\ \/ c.list < j
       \/ c.list = j /\ (c.at = None \/ (l # c.at /\ NotAfter (lists[Head (Pattern[l])], c.at, l)))

\* Who has not seen the present state of a part is about to.
Informed ==
  \A l \in QuestListener, p \in Part :
    partStatus[l] = "listed" /\ Q!Matches (Pattern[l], Q!FullName[p]) /\ heard[l][p] # Q!State (p) =>
      \E c \in ToSet (stack) : c.part = p /\ Ahead (c, l)

QuestsInv == Q!TypeOK /\ Climbing /\ Archived /\ Enlisted /\ Informed

\* What is known of the constants.
LEMMA QuestConstants ==
  ASSUME Q!QuestAssumption
  PROVE  /\ None \notin Part /\ None \notin QuestListener
         /\ \A p \in Part : Parent[p] \in Part \cup {None} /\ Parent[p] # p
         /\ \A p \in Part : \A alt \in Code[p] : alt # {} /\ alt \subseteq Q!Children (p)
         /\ \A p \in Part : \A j \in 1 .. 3 : Q!Lists (p)[j] \in Q!Heads
         /\ \A p \in Part : \A i, j \in 1 .. 3 : Q!Lists (p)[i] = Q!Lists (p)[j] => i = j
<1>1. \A p \in Part : /\ Q!Lists (p)[1] = Head (Q!FullName[p])
                      /\ Q!Lists (p)[2] = "*" /\ Q!Lists (p)[3] = ">"
  BY DEF Q!Lists
<1>2. \A p \in Part : /\ Head (Q!FullName[p]) \in Q!Heads /\ "*" \in Q!Heads /\ ">" \in Q!Heads
                      /\ Head (Q!FullName[p]) # "*" /\ Head (Q!FullName[p]) # ">"
  BY DEF Q!Heads, Q!QuestAssumption
<1>3. \A j \in 1 .. 3 : j = 1 \/ j = 2 \/ j = 3
  OBVIOUS
<1>4. \A p \in Part : \A j \in 1 .. 3 : Q!Lists (p)[j] \in Q!Heads
  BY <1>1, <1>2, <1>3
<1>5. \A p \in Part : \A i, j \in 1 .. 3 : Q!Lists (p)[i] = Q!Lists (p)[j] => i = j
  BY <1>1, <1>2, <1>3
<1>6. QED
  BY <1>4, <1>5 DEF Q!QuestAssumption

\* A part with a name that matches is looked up in the list the pattern is in.
LEMMA MatchesHead ==
  ASSUME Q!QuestAssumption, NEW l \in QuestListener, NEW p \in Part,
         Q!Matches (Pattern[l], Q!FullName[p])
  PROVE  \E j \in 1 .. 3 : Q!Lists (p)[j] = Head (Pattern[l])
<1> DEFINE x == Pattern[l]
           y == Q!FullName[p]
           common == 1 .. IF Len (x) < Len (y) THEN Len (x) ELSE Len (y)
<1>1. /\ x \in Seq (STRING) /\ x # <<>> /\ y \in Seq (STRING) /\ y # <<>>
      /\ Head (y) \notin {"*", ">"}
  BY DEF Q!QuestAssumption
<1>2. \/ \E i \in common : /\ ">" \in {x[i], y[i]}
                           /\ \A j \in common : j < i => ~ (x[j] # y[j] /\ "*" \notin {x[j], y[j]})
      \/ Len (x) = Len (y) /\ \A i \in common : ~ (x[i] # y[i] /\ "*" \notin {x[i], y[i]})
  BY DEF Q!Matches
<1> HIDE DEF x, y
<1>3. /\ Len (x) \in Nat \ {0} /\ Len (y) \in Nat \ {0} /\ Head (x) = x[1] /\ Head (y) = y[1]
  BY <1>1, EmptySeq, LenProperties, HeadTailProperties
<1>4. 1 \in common /\ \A i \in common : i \in Nat /\ (i = 1 \/ 1 < i)
  BY <1>3
<1> HIDE DEF common
<1>5. x[1] = ">" \/ x[1] = y[1] \/ x[1] = "*"
  BY <1>1, <1>2, <1>3, <1>4
<1>6. Head (x) \in {Q!Lists (p)[1], Q!Lists (p)[2], Q!Lists (p)[3]}
  BY <1>3, <1>5 DEF Q!Lists, y
<1>7. QED
  BY <1>6 DEF x

\* Completing parts never takes back that a rule is fulfilled.
LEMMA RuleFollowsChildren ==
  ASSUME Q!QuestAssumption
  PROVE  /\ \A p \in Part : Q!Rule (p) <=> Completes (completed, p)
         /\ \A p \in Part : \A a, b :
              (\A c \in Q!Children (p) : a[c] => b[c]) /\ Completes (a, p) => Completes (b, p)
<1>1. \A p \in Part : Q!Rule (p) <=> Completes (completed, p)
  BY DEF Q!Rule, Completes
<1>2. \A p \in Part : \A alt \in Code[p] : alt \subseteq Q!Children (p)
  BY QuestConstants
<1>3. \A p \in Part : \A a, b :
        (\A c \in Q!Children (p) : a[c] => b[c]) /\ Completes (a, p) => Completes (b, p)
  BY <1>2 DEF Completes
<1>4. QED
  BY <1>1, <1>3

\* Pushing on a stack, and popping from it.
LEMMA Pushed ==
  ASSUME NEW S, NEW s \in Seq (S), NEW e \in S
  PROVE  Append (s, e) \in Seq (S) /\ ToSet (Append (s, e)) = ToSet (s) \cup {e}
<1> DEFINE t == Append (s, e)
<1>1. /\ Len (s) \in Nat /\ DOMAIN s = 1 .. Len (s)
      /\ t \in Seq (S) /\ DOMAIN t = 1 .. Len (s) + 1
      /\ \A i \in 1 .. Len (s) : t[i] = s[i]
      /\ t[Len (s) + 1] = e
  BY AppendProperties, LenProperties
<1> HIDE DEF t
<1>2. \A i \in 1 .. Len (s) + 1 : i \in 1 .. Len (s) \/ i = Len (s) + 1
  BY <1>1
<1>3. ToSet (t) = ToSet (s) \cup {e}
  BY <1>1, <1>2 DEF ToSet
<1>4. QED
  BY <1>1, <1>3 DEF t

LEMMA TopBelow ==
  ASSUME Q!TypeOK, stack # <<>>
  PROVE  /\ Q!Below \in Seq (Q!Climb) /\ Q!Top \in Q!Climb
         /\ ToSet (stack) = ToSet (Q!Below) \cup {Q!Top}
<1> DEFINE n == Len (stack)
<1>1. /\ stack \in Seq (Q!Climb) /\ n \in Nat \ {0} /\ DOMAIN stack = 1 .. n
      /\ \A i \in 1 .. n : stack[i] \in Q!Climb
  BY EmptySeq, LenProperties, ElementOfSeq DEF Q!TypeOK
<1>2. \A m \in Nat \ {0} : \A i \in 1 .. m : i \in 1 .. m - 1 \/ i = m
  OBVIOUS
<1>3. /\ Q!Below \in Seq (Q!Climb) /\ Len (Q!Below) = n - 1
      /\ \A i \in 1 .. n - 1 : Q!Below[i] = stack[i]
  <2> DEFINE b == SubSeq (stack, 1, n - 1)
             m == n - 1
  <2>1. m \in Nat /\ \A i \in 1 .. m : stack[i] \in Q!Climb
    BY <1>1
  <2>2. Q!Below = SubSeq (stack, 1, m)
    BY DEF Q!Below
  <2> HIDE DEF m
  <2>3. /\ SubSeq (stack, 1, m) \in Seq (Q!Climb)
        /\ Len (SubSeq (stack, 1, m)) = IF 1 <= m THEN m - 1 + 1 ELSE 0
        /\ \A i \in 1 .. m - 1 + 1 : SubSeq (stack, 1, m)[i] = stack[1 + i - 1]
    BY <1>1, <2>1, SubSeqProperties
  <2>4. m - 1 + 1 = m /\ (IF 1 <= m THEN m - 1 + 1 ELSE 0) = m /\ \A i \in 1 .. m : 1 + i - 1 = i
    BY <2>1
  <2>5. /\ SubSeq (stack, 1, m) \in Seq (Q!Climb) /\ Len (SubSeq (stack, 1, m)) = m
        /\ \A i \in 1 .. m : SubSeq (stack, 1, m)[i] = stack[i]
    BY <2>3, <2>4
  <2>6. QED
    BY <2>2, <2>5 DEF m
<1>4. DOMAIN Q!Below = 1 .. n - 1
  BY <1>3, LenProperties
<1>5. \A i \in 1 .. n : i \in 1 .. n - 1 \/ i = n
  <2>1. n \in Nat \ {0}
    BY <1>1
  <2> HIDE DEF n
  <2>2. QED
    BY <1>2, <2>1
<1>6. Q!Top = stack[n] /\ n \in DOMAIN stack
  BY <1>1 DEF Q!Top
<1> HIDE DEF n
<1>7. ToSet (stack) = ToSet (Q!Below) \cup {Q!Top}
  BY <1>1, <1>3, <1>4, <1>5, <1>6 DEF ToSet
<1>8. QED
  BY <1>1, <1>3, <1>6, <1>7


\* The climb on top changes what it is at: f takes its place.
LEMMA TopChanges ==
  ASSUME Q!TypeOK, stack # <<>>, NEW f \in Q!Climb, stack' = Append (Q!Below, f)
  PROVE  stack' \in Seq (Q!Climb) /\ ToSet (stack') = ToSet (Q!Below) \cup {f}
<1>1. Q!Below \in Seq (Q!Climb)
  BY TopBelow
<1>2. QED
  BY <1>1, Pushed

\* A climb that goes on is still on its way to the same parts.
LEMMA ClimbGoesOn ==
  ASSUME Q!TypeOK, Climbing, stack # <<>>, NEW f \in Q!Climb, f.part = Q!Top.part,
         stack' = Append (Q!Below, f), UNCHANGED <<started, completed>>
  PROVE  Climbing'
<1>1. ToSet (stack) = ToSet (Q!Below) \cup {Q!Top} /\ ToSet (stack') = ToSet (Q!Below) \cup {f}
  BY TopBelow, TopChanges
<1>2. \A p : (\E c \in ToSet (stack) : c.part = p) => \E c \in ToSet (stack') : c.part = p
  BY <1>1
<1>3. \A p : (\E c \in ToSet (stack) : Parent[c.part] = p) => \E c \in ToSet (stack') : Parent[c.part] = p
  BY <1>1
<1>4. completed' = completed /\ started' = started
  OBVIOUS
<1>5. \A p \in Part : Completes (completed, p)' <=> Completes (completed, p)
  BY <1>4 DEF Completes
<1>6. QED
  BY <1>2, <1>3, <1>4, <1>5 DEF Climbing

\* The update of part p, in the middle of the climbs below. What is not up to
\* date but p itself is left to those.
LEMMA PartUpdates ==
  ASSUME Q!QuestAssumption, Q!TypeOK, Enlisted,
         NEW p \in Part, NEW below \in Seq (Q!Climb), ToSet (below) \subseteq ToSet (stack),
         Q!UpdatePart (p, below), UNCHANGED <<lists, partStatus, saved, heard>>,
         \A q \in Part : completed[q] => started[q] /\ Completes (completed, q),
         \A q \in Part : started[q] /\ Parent[q] # None /\ Parent[q] # p =>
           started[Parent[q]] \/ \E c \in ToSet (below) : c.part = q,
         \A q \in Q!Composed \ {p} : Completes (completed, q) /\ ~ completed[q] =>
           \E c \in ToSet (below) : Parent[c.part] = q,
         \A l \in QuestListener, q \in Part :
           partStatus[l] = "listed" /\ Q!Matches (Pattern[l], Q!FullName[q]) /\ heard[l][q] # Q!State (q) =>
             \E c \in ToSet (below) : c.part = q /\ Ahead (c, l)
  PROVE  Q!TypeOK' /\ Climbing' /\ Enlisted' /\ Informed'
<1> DEFINE done == completed[p] \/ Q!Rule (p)
           changed == ~ started[p] \/ done # completed[p]
           n == Q!NewClimb (p)
<1>1. /\ started \in [Part -> BOOLEAN] /\ completed \in [Part -> BOOLEAN]
      /\ lists \in [Q!Heads -> Seq (QuestListener)]
  BY DEF Q!TypeOK
<1>2. done \in BOOLEAN /\ (done <=> completed[p] \/ Completes (completed, p))
  BY <1>1, RuleFollowsChildren DEF Q!Rule
<1>3. /\ started' = [started EXCEPT ![p] = TRUE]
      /\ completed' = [completed EXCEPT ![p] = done]
      /\ stack' = IF changed THEN Append (below, n) ELSE below
  BY DEF Q!UpdatePart
<1>4. /\ n \in Q!Climb /\ n.part = p /\ n.list = 1 /\ n.at = None
  BY DEF Q!NewClimb, Q!Climb
<1> HIDE DEF done, n
<1>5. /\ started'[p] /\ completed'[p] = done
      /\ \A q \in Part : q # p => started'[q] = started[q] /\ completed'[q] = completed[q]
      /\ started' \in [Part -> BOOLEAN] /\ completed' \in [Part -> BOOLEAN]
  BY <1>1, <1>2, <1>3
<1>6. /\ stack' \in Seq (Q!Climb)
      /\ ToSet (stack') = IF changed THEN ToSet (below) \cup {n} ELSE ToSet (below)
  <2> HIDE DEF changed
  <2>1. Append (below, n) \in Seq (Q!Climb) /\ ToSet (Append (below, n)) = ToSet (below) \cup {n}
    BY <1>4, Pushed
  <2>2. QED
    BY <1>3, <2>1
<1>7. ~ changed => \A q \in Part : started'[q] = started[q] /\ completed'[q] = completed[q]
  BY <1>1, <1>2, <1>5
<1>8. completed[p] => done
  BY <1>2
<1> HIDE DEF changed
<1>9. \A q \in Part : completed[q] => completed'[q]
  BY <1>5, <1>8
<1>10. Q!TypeOK'
  BY <1>5, <1>6 DEF Q!TypeOK
<1>11. \A q \in Part : \A c \in Q!Children (q) : c \in Part /\ Parent[c] = q
  BY DEF Q!Children
<1>12. \A q \in Part : Completes (completed, q) => Completes (completed', q)
  BY <1>9, <1>11, RuleFollowsChildren
<1>13. \A q \in Part : completed'[q] => started'[q] /\ Completes (completed', q)
  <2>1. completed'[p] => Completes (completed, p)
    BY <1>2, <1>5
  <2>2. QED
    BY <1>5, <1>12, <2>1
<1>14. \A q \in Part : started'[q] /\ Parent[q] # None =>
         started'[Parent[q]] \/ \E c \in ToSet (stack') : c.part = q
  <2>1. SUFFICES ASSUME NEW q \in Part, started'[q], Parent[q] # None, Parent[q] # p,
                        ~ \E c \in ToSet (stack') : c.part = q
                 PROVE  started'[Parent[q]]
    BY <1>5
  <2>2. Parent[q] \in Part
    BY <2>1, QuestConstants
  <2>3. started[q]
    BY <1>4, <1>5, <1>6, <1>7, <2>1
  <2>4. ~ \E c \in ToSet (below) : c.part = q
    BY <1>6, <2>1
  <2>5. started[Parent[q]]
    BY <2>1, <2>3, <2>4
  <2>6. QED
    BY <1>5, <2>2, <2>5
<1>15. \A q \in Q!Composed : Completes (completed', q) /\ ~ completed'[q] =>
         \E c \in ToSet (stack') : Parent[c.part] = q
  <2>1. SUFFICES ASSUME NEW q \in Q!Composed, Completes (completed', q), ~ completed'[q],
                        ~ \E c \in ToSet (stack') : Parent[c.part] = q
                 PROVE  FALSE
    OBVIOUS
  <2>2. q \in Part
    BY DEF Q!Composed
  <2>3. Completes (completed, q)
    <3>1. CASE p \in Q!Children (q)
      <4>1. Parent[p] = q
        BY <1>11, <2>2, <3>1
      <4>2. ~ changed
        BY <1>4, <1>6, <2>1, <4>1
      <4>3. \A c \in Q!Children (q) : completed'[c] => completed[c]
        BY <1>7, <1>11, <2>2, <4>2
      <4>4. QED
        BY <2>1, <2>2, <4>3, RuleFollowsChildren
    <3>2. CASE p \notin Q!Children (q)
      <4>1. \A c \in Q!Children (q) : completed'[c] => completed[c]
        BY <1>5, <1>11, <2>2, <3>2
      <4>2. QED
        BY <2>1, <2>2, <4>1, RuleFollowsChildren
    <3>3. QED
      BY <3>1, <3>2
  <2>4. q # p
    BY <1>2, <1>5, <2>1, <2>3
  <2>5. ~ completed[q]
    BY <1>9, <2>1, <2>2
  <2>6. \E c \in ToSet (below) : Parent[c.part] = q
    BY <2>3, <2>4, <2>5
  <2>7. QED
    BY <1>6, <2>1, <2>6
<1>16. Climbing'
  <2>1. \A q : Completes (completed, q)' <=> Completes (completed', q)
    BY DEF Completes
  <2>2. QED
    BY <1>13, <1>14, <1>15, <2>1 DEF Climbing
<1>17. Enlisted'
  BY <1>4, <1>6 DEF Enlisted
<1>18. Informed'
  <2>1. SUFFICES ASSUME NEW l \in QuestListener, NEW q \in Part, partStatus[l] = "listed",
                        Q!Matches (Pattern[l], Q!FullName[q]), heard[l][q] # Q!State (q)'
                 PROVE  \E c \in ToSet (stack') : c.part = q /\ Ahead (c, l)'
    BY DEF Informed
  <2>2. \A c : Ahead (c, l)' <=> Ahead (c, l)
    BY DEF Ahead
  <2>3. CASE changed /\ q = p
    <3>1. PICK j \in 1 .. 3 : Q!Lists (p)[j] = Head (Pattern[l])
      BY <2>1, <2>3, MatchesHead
    <3>2. n.list < j \/ (n.list = j /\ n.at = None)
      BY <1>4, <3>1
    <3>3. Ahead (n, l)
      BY <1>4, <3>1, <3>2 DEF Ahead
    <3>4. QED
      BY <1>4, <1>6, <2>2, <2>3, <3>3
  <2>4. CASE ~ changed \/ q # p
    <3>1. Q!State (q)' = Q!State (q)
      <4>1. started'[q] = started[q] /\ completed'[q] = completed[q]
        BY <1>5, <1>7, <2>4
      <4>2. QED
        BY <4>1 DEF Q!State
    <3>2. PICK c \in ToSet (below) : c.part = q /\ Ahead (c, l)
      BY <2>1, <3>1
    <3>3. QED
      BY <1>6, <2>2, <3>2
  <2>5. QED
    BY <2>3, <2>4
<1>19. QED
  BY <1>10, <1>16, <1>17, <1>18


\* The walk through a list of listeners, at the climb on top.
LEMMA WalkAtList ==
  ASSUME Q!QuestAssumption, Q!TypeOK, Enlisted, Q!Raising
  PROVE  /\ stack # <<>> /\ Q!Top \in Q!Climb /\ Q!Top \in ToSet (stack)
         /\ Q!Top.part \in Part /\ Q!Top.list \in 1 .. 3 /\ ~ Q!Top.calling
         /\ Q!Lists (Q!Top.part)[Q!Top.list] \in Q!Heads
         /\ Q!CurrentList = lists[Q!Lists (Q!Top.part)[Q!Top.list]]
         /\ Q!CurrentList \in Seq (QuestListener) /\ Distinct (Q!CurrentList)
         /\ \A k \in ToSet (Q!CurrentList) : k \in QuestListener /\ k # None
<1>1. stack # <<>> /\ ~ Q!Top.calling /\ Q!Top.list <= 3
  BY DEF Q!Raising
<1>2. Q!Top \in Q!Climb /\ Q!Top \in ToSet (stack)
  BY <1>1, TopBelow
<1>3. Q!Top.part \in Part /\ Q!Top.list \in 1 .. 3
  BY <1>1, <1>2 DEF Q!Climb
<1>4. Q!Lists (Q!Top.part)[Q!Top.list] \in Q!Heads
  BY <1>3, QuestConstants
<1>5. Q!CurrentList = lists[Q!Lists (Q!Top.part)[Q!Top.list]]
  BY DEF Q!CurrentList
<1>6. Q!CurrentList \in Seq (QuestListener) /\ Distinct (Q!CurrentList)
  BY <1>4, <1>5 DEF Q!TypeOK, Enlisted
<1>7. \A k \in ToSet (Q!CurrentList) : k \in QuestListener
  BY <1>6, ElementOfSeq, LenProperties DEF ToSet
<1>8. None \notin QuestListener
  BY QuestConstants
<1>9. QED
  BY <1>1, <1>2, <1>3, <1>4, <1>5, <1>6, <1>7, <1>8

\* Going on to listener l leaves all others ahead that were.
LEMMA WalkGoesOn ==
  ASSUME Q!QuestAssumption, Q!TypeOK, Enlisted, Q!Raising,
         NEW l \in QuestListener, Q!Follows (l), NEW f \in Q!Climb,
         f.part = Q!Top.part, f.list = Q!Top.list, f.at = l,
         NEW k \in QuestListener, k # l, partStatus[k] = "listed", Ahead (Q!Top, k)
  PROVE  Ahead (f, k)
<1> DEFINE L == Q!CurrentList
           h == Head (Pattern[k])
<1>1. /\ Q!Top.part \in Part /\ Q!Top.list \in 1 .. 3
      /\ Q!Lists (Q!Top.part)[Q!Top.list] \in Q!Heads
      /\ L = lists[Q!Lists (Q!Top.part)[Q!Top.list]]
      /\ L \in Seq (QuestListener) /\ Distinct (L)
      /\ \A m \in ToSet (L) : m # None
  BY WalkAtList
<1>2. PICK j \in 1 .. 3 :
        /\ Q!Lists (Q!Top.part)[j] = h
        /\ \/ Q!Top.list < j
           \/ /\ Q!Top.list = j
              /\ Q!Top.at = None \/ (k # Q!Top.at /\ NotAfter (lists[h], Q!Top.at, k))
  BY DEF Ahead
<1>3. PICK i \in DOMAIN L : L[i] = l /\ IF i = 1 THEN Q!Top.at = None ELSE Q!Top.at = L[i - 1]
  BY DEF Q!Follows
<1>4. CASE Q!Top.list < j
  <2>1. f.list < j /\ Q!Lists (f.part)[j] = h
    BY <1>2, <1>4
  <2>2. QED
    BY <2>1 DEF Ahead
<1>5. CASE Q!Top.list = j
  <2>1. lists[h] = L /\ h \in Q!Heads
    BY <1>1, <1>2, <1>5
  <2>2. k \in ToSet (L)
    BY <2>1 DEF Enlisted
  <2> HIDE DEF L
  <2>3. DOMAIN L = 1 .. Len (L) /\ Len (L) \in Nat
    BY <1>1, LenProperties
  <2>4. \E b \in DOMAIN L : L[b] = k /\ i <= b
    <3>1. CASE Q!Top.at = None
      <4>1. i = 1
        <5>1. SUFFICES ASSUME i # 1
                       PROVE  FALSE
          OBVIOUS
        <5>2. i - 1 \in DOMAIN L
          BY <1>3, <2>3, <5>1
        <5>3. L[i - 1] \in ToSet (L)
          BY <5>2 DEF ToSet
        <5>4. QED
          BY <1>1, <1>3, <3>1, <5>1, <5>3
      <4>2. PICK b \in DOMAIN L : L[b] = k
        BY <2>2 DEF ToSet
      <4>3. QED
        BY <2>3, <4>1, <4>2
    <3>2. CASE Q!Top.at # None
      <4>1. i # 1 /\ Q!Top.at = L[i - 1]
        BY <1>3, <3>2
      <4>2. k # L[i - 1] /\ NotAfter (L, L[i - 1], k)
        BY <1>2, <1>5, <2>1, <3>2, <4>1
      <4>3. PICK a \in DOMAIN L, b \in DOMAIN L : a <= b /\ L[a] = L[i - 1] /\ L[b] = k
        BY <4>2 DEF NotAfter
      <4>4. i \in Int /\ i - 1 \in DOMAIN L /\ a \in Int /\ b \in Int
        BY <1>3, <2>3, <4>1
      <4>5. a = i - 1 /\ b # i - 1
        BY <1>1, <4>2, <4>3, <4>4 DEF Distinct
      <4>6. QED
        BY <4>3, <4>4, <4>5
    <3>3. QED
      BY <3>1, <3>2
  <2>5. NotAfter (L, l, k)
    BY <1>3, <2>4 DEF NotAfter
  <2>6. f.list = j /\ k # f.at /\ NotAfter (lists[h], f.at, k) /\ Q!Lists (f.part)[j] = h
    BY <1>2, <1>5, <2>1, <2>5
  <2>7. QED
    BY <2>6 DEF Ahead
<1>6. QED
  BY <1>2, <1>4, <1>5

\* At the end of a list nobody in it is ahead.
LEMMA WalkEnds ==
  ASSUME Q!QuestAssumption, Q!TypeOK, Enlisted, Q!Raising, Q!AtEnd, NEW f \in Q!Climb,
         f.part = Q!Top.part, f.list = Q!Top.list + 1, f.at = None,
         NEW k \in QuestListener, partStatus[k] = "listed", Ahead (Q!Top, k)
  PROVE  Ahead (f, k)
<1> DEFINE L == Q!CurrentList
           h == Head (Pattern[k])
<1>1. /\ Q!Top.part \in Part /\ Q!Top.list \in 1 .. 3
      /\ Q!Lists (Q!Top.part)[Q!Top.list] \in Q!Heads
      /\ L = lists[Q!Lists (Q!Top.part)[Q!Top.list]]
      /\ L \in Seq (QuestListener) /\ Distinct (L)
      /\ \A m \in ToSet (L) : m # None
  BY WalkAtList
<1>2. PICK j \in 1 .. 3 :
        /\ Q!Lists (Q!Top.part)[j] = h
        /\ \/ Q!Top.list < j
           \/ /\ Q!Top.list = j
              /\ Q!Top.at = None \/ (k # Q!Top.at /\ NotAfter (lists[h], Q!Top.at, k))
  BY DEF Ahead
<1>3. Q!Top.at = IF L = <<>> THEN None ELSE L[Len (L)]
  BY DEF Q!AtEnd, Q!Last
<1>4. CASE Q!Top.list < j
  <2>1. f.list < j \/ f.list = j
    BY <1>1, <1>2, <1>4
  <2>2. QED
    BY <1>2, <2>1 DEF Ahead
<1>5. CASE Q!Top.list = j
  <2>1. lists[h] = L /\ h \in Q!Heads
    BY <1>1, <1>2, <1>5
  <2>2. k \in ToSet (L)
    BY <2>1 DEF Enlisted
  <2> HIDE DEF L
  <2>3. DOMAIN L = 1 .. Len (L) /\ Len (L) \in Nat
    BY <1>1, LenProperties
  <2>4. L # <<>> /\ Len (L) \in DOMAIN L
    BY <1>1, <2>2, <2>3, EmptySeq DEF ToSet
  <2>5. Q!Top.at = L[Len (L)] /\ Q!Top.at # None
    BY <1>1, <1>3, <2>4 DEF ToSet
  <2>6. k # L[Len (L)] /\ NotAfter (L, L[Len (L)], k)
    BY <1>2, <1>5, <2>1, <2>5
  <2>7. PICK a \in DOMAIN L, b \in DOMAIN L : a <= b /\ L[a] = L[Len (L)] /\ L[b] = k
    BY <2>6 DEF NotAfter
  <2>8. a = Len (L) /\ b # Len (L)
    BY <1>1, <2>4, <2>6, <2>7 DEF Distinct
  <2>9. QED
    BY <2>3, <2>7, <2>8
<1>6. QED
  BY <1>2, <1>4, <1>5


\* The climb on top skips or calls a listener.
LEMMA QuestsWalk ==
  ASSUME Q!QuestAssumption, QuestsInv, NEW l \in QuestListener, Q!Skip (l) \/ Q!Execute (l)
  PROVE  QuestsInv'
<1>1. Q!TypeOK /\ Climbing /\ Archived /\ Enlisted /\ Informed
  BY DEF QuestsInv
<1>2. Q!Raising /\ Q!Follows (l) /\ partStatus[l] # "destroyed"
      /\ UNCHANGED <<started, completed, lists, partStatus, saved>>
  BY DEF Q!Skip, Q!Execute, Q!quests
<1>3. /\ stack # <<>> /\ Q!Top \in Q!Climb /\ Q!Top \in ToSet (stack)
      /\ Q!Top.part \in Part /\ Q!Top.list \in 1 .. 3
      /\ Q!Lists (Q!Top.part)[Q!Top.list] \in Q!Heads
      /\ Q!CurrentList = lists[Q!Lists (Q!Top.part)[Q!Top.list]]
  BY <1>1, <1>2, WalkAtList
<1>4. PICK f \in Q!Climb :
        f.part = Q!Top.part /\ f.list = Q!Top.list /\ f.at = l /\ stack' = Append (Q!Below, f)
  <2> DEFINE t == Q!Top
             g == [t EXCEPT !.at = l]
             e == [t EXCEPT !.at = l, !.calling = TRUE]
  <2>1. stack' = Append (Q!Below, g) \/ stack' = Append (Q!Below, e)
    BY DEF Q!Skip, Q!Execute, Q!SetTop
  <2>2. t \in Q!Climb
    BY <1>3
  <2> HIDE DEF t
  <2>3. /\ g \in Q!Climb /\ g.part = t.part /\ g.list = t.list /\ g.at = l
        /\ e \in Q!Climb /\ e.part = t.part /\ e.list = t.list /\ e.at = l
    BY <2>2 DEF Q!Climb
  <2> HIDE DEF g, e
  <2>4. QED
    BY <2>1, <2>3 DEF t
<1>5. /\ ToSet (stack) = ToSet (Q!Below) \cup {Q!Top}
      /\ stack' \in Seq (Q!Climb) /\ ToSet (stack') = ToSet (Q!Below) \cup {f}
  BY <1>1, <1>3, <1>4, TopBelow, TopChanges
<1>6. /\ heard' \in [QuestListener -> [Part -> Q!QuestPart]]
      /\ \A k \in QuestListener : \A p \in Part : k # l \/ p # Q!Top.part => heard'[k][p] = heard[k][p]
      /\ Q!Matches (Pattern[l], Q!FullName[Q!Top.part]) => heard'[l][Q!Top.part] = Q!State (Q!Top.part)
  <2>1. heard \in [QuestListener -> [Part -> Q!QuestPart]]
    BY <1>1 DEF Q!TypeOK
  <2>2. CASE Q!Skip (l)
    BY <2>1, <2>2 DEF Q!Skip
  <2>3. CASE Q!Execute (l)
    <3> DEFINE s == Q!State (Q!Top.part)
               p == Q!Top.part
    <3>1. heard' = [heard EXCEPT ![l][p] = s]
      BY <2>3 DEF Q!Execute
    <3>2. s \in Q!QuestPart
      BY <1>1, <1>3 DEF Q!State, Q!QuestPart, Q!TypeOK
    <3>3. p \in Part
      BY <1>3
    <3> HIDE DEF s, p
    <3>4. /\ heard' \in [QuestListener -> [Part -> Q!QuestPart]]
          /\ \A k \in QuestListener : \A q \in Part : k # l \/ q # p => heard'[k][q] = heard[k][q]
          /\ heard'[l][p] = s
      BY <2>1, <3>1, <3>2, <3>3
    <3>5. QED
      BY <3>4 DEF s, p
  <2>4. QED
    BY <2>2, <2>3
<1>7. Q!TypeOK'
  BY <1>1, <1>2, <1>5, <1>6 DEF Q!TypeOK
<1>8. Climbing'
  BY <1>1, <1>2, <1>3, <1>4, ClimbGoesOn
<1>9. Archived'
  BY <1>1, <1>2 DEF Archived, Completes
<1>10. l \in ToSet (Q!CurrentList)
  BY <1>2 DEF Q!Follows, ToSet
<1>11. Enlisted'
  BY <1>1, <1>2, <1>3, <1>4, <1>5, <1>10 DEF Enlisted
<1>12. Informed'
  <2>1. SUFFICES ASSUME NEW k \in QuestListener, NEW p \in Part, partStatus[k] = "listed",
                        Q!Matches (Pattern[k], Q!FullName[p]), heard'[k][p] # Q!State (p)
                 PROVE  \E c \in ToSet (stack') : c.part = p /\ Ahead (c, k)
    BY <1>2 DEF Informed, Ahead, Q!State
  <2>2. k # l \/ p # Q!Top.part
    BY <1>6, <2>1
  <2>3. PICK c \in ToSet (stack) : c.part = p /\ Ahead (c, k)
    BY <1>1, <1>6, <2>1, <2>2 DEF Informed
  <2>4. CASE c \in ToSet (Q!Below)
    BY <1>5, <2>3, <2>4
  <2>5. CASE c = Q!Top
    <3>1. k # l
      BY <2>2, <2>3, <2>5
    <3>2. Ahead (f, k)
      BY <1>1, <1>2, <1>4, <2>1, <2>3, <2>5, <3>1, WalkGoesOn
    <3>3. QED
      BY <1>4, <1>5, <2>3, <2>5, <3>2
  <2>6. QED
    BY <1>5, <2>4, <2>5
<1>13. QED
  BY <1>7, <1>8, <1>9, <1>11, <1>12 DEF QuestsInv

\* A callback returns, or a list has been gone through.
LEMMA QuestsStay ==
  ASSUME Q!QuestAssumption, QuestsInv, Q!Return \/ Q!NextList
  PROVE  QuestsInv'
<1>1. Q!TypeOK /\ Climbing /\ Archived /\ Enlisted /\ Informed
  BY DEF QuestsInv
<1>2. stack # <<>> /\ UNCHANGED <<started, completed, lists, partStatus, saved, heard>>
  BY DEF Q!Return, Q!NextList, Q!Raising, Q!quests
<1>3. Q!Top \in Q!Climb /\ Q!Top \in ToSet (stack)
  BY <1>1, <1>2, TopBelow
<1>4. PICK f \in Q!Climb :
        /\ f.part = Q!Top.part /\ stack' = Append (Q!Below, f)
        /\ f.at = None \/ (f.at = Q!Top.at /\ f.list = Q!Top.list)
        /\ \A k \in QuestListener : partStatus[k] = "listed" /\ Ahead (Q!Top, k) => Ahead (f, k)
  <2> DEFINE t == Q!Top
  <2>1. t \in Q!Climb
    BY <1>3
  <2>2. CASE Q!Return
    <3> DEFINE g == [t EXCEPT !.calling = FALSE]
    <3>1. stack' = Append (Q!Below, g)
      BY <2>2 DEF Q!Return, Q!SetTop
    <3> HIDE DEF t
    <3>2. g \in Q!Climb /\ g.part = t.part /\ g.list = t.list /\ g.at = t.at
      BY <2>1 DEF Q!Climb
    <3> HIDE DEF g
    <3>3. \A k : Ahead (t, k) => Ahead (g, k)
      BY <3>2 DEF Ahead
    <3>4. QED
      BY <3>1, <3>2, <3>3 DEF t
  <2>3. CASE Q!NextList
    <3> DEFINE g == [t EXCEPT !.list = t.list + 1, !.at = None]
    <3>1. stack' = Append (Q!Below, g) /\ Q!Raising /\ Q!AtEnd
      BY <2>3 DEF Q!NextList, Q!SetTop
    <3>2. t.list \in 1 .. 3
      BY <1>1, <3>1, WalkAtList
    <3> HIDE DEF t
    <3>3. t.list + 1 \in 1 .. 4
      BY <3>2
    <3>4. g \in Q!Climb /\ g.part = t.part /\ g.list = t.list + 1 /\ g.at = None
      BY <2>1, <3>3 DEF Q!Climb
    <3> HIDE DEF g
    <3>5. \A k \in QuestListener : partStatus[k] = "listed" /\ Ahead (Q!Top, k) => Ahead (g, k)
      BY <1>1, <3>1, <3>4, WalkEnds DEF t
    <3>6. QED
      BY <3>1, <3>4, <3>5 DEF t
  <2>4. QED
    BY <2>2, <2>3
<1>5. /\ ToSet (stack) = ToSet (Q!Below) \cup {Q!Top}
      /\ stack' \in Seq (Q!Climb) /\ ToSet (stack') = ToSet (Q!Below) \cup {f}
  BY <1>1, <1>2, <1>4, TopBelow, TopChanges
<1>6. Q!TypeOK'
  BY <1>1, <1>2, <1>5 DEF Q!TypeOK
<1>7. Climbing'
  BY <1>1, <1>2, <1>4, ClimbGoesOn
<1>8. Archived'
  BY <1>1, <1>2 DEF Archived, Completes
<1>9. Enlisted'
  BY <1>1, <1>2, <1>4, <1>5 DEF Enlisted
<1>10. Informed'
  <2>1. SUFFICES ASSUME NEW k \in QuestListener, NEW p \in Part, partStatus[k] = "listed",
                        Q!Matches (Pattern[k], Q!FullName[p]), heard[k][p] # Q!State (p)
                 PROVE  \E c \in ToSet (stack') : c.part = p /\ Ahead (c, k)
    BY <1>2 DEF Informed, Ahead, Q!State
  <2>2. PICK c \in ToSet (stack) : c.part = p /\ Ahead (c, k)
    BY <1>1, <2>1 DEF Informed
  <2>3. QED
    BY <1>4, <1>5, <2>1, <2>2
<1>11. QED
  BY <1>6, <1>7, <1>8, <1>9, <1>10 DEF QuestsInv

\* Steps completed by scripts, and parents by climbs.
LEMMA QuestsUpdate ==
  ASSUME Q!QuestAssumption, QuestsInv,
         Q!UpdateParent \/ \E p \in Part : Q!SetCompleted (Q!FullName[p])
  PROVE  QuestsInv'
<1>1. Q!TypeOK /\ Climbing /\ Archived /\ Enlisted /\ Informed
  BY DEF QuestsInv
<1>2. UNCHANGED <<lists, partStatus, saved, heard>>
  BY DEF Q!UpdateParent, Q!SetCompleted
<1>3. Archived'
  BY <1>1, <1>2 DEF Archived, Completes
<1>4. ASSUME NEW q \in Part, Q!SetCompleted (Q!FullName[q])
      PROVE  Q!TypeOK' /\ Climbing' /\ Enlisted' /\ Informed'
  <2> DEFINE p == Q!PartAt (Q!FullName[q])
  <2>1. p \in Part
    BY DEF Q!PartAt
  <2>2. Q!Children (p) = {} /\ Q!UpdatePart (p, stack)
    BY <1>4 DEF Q!SetCompleted
  <2> HIDE DEF p
  <2>3. stack \in Seq (Q!Climb)
    BY <1>1 DEF Q!TypeOK
  <2>4. \A r \in Part : started[r] /\ Parent[r] # None /\ Parent[r] # p =>
          started[Parent[r]] \/ \E c \in ToSet (stack) : c.part = r
    BY <1>1 DEF Climbing
  <2>5. \A r \in Q!Composed \ {p} : Completes (completed, r) /\ ~ completed[r] =>
          \E c \in ToSet (stack) : Parent[c.part] = r
    BY <1>1 DEF Climbing
  <2>6. \A r \in Part : completed[r] => started[r] /\ Completes (completed, r)
    BY <1>1 DEF Climbing
  <2>7. QED
    BY <1>1, <1>2, <2>1, <2>2, <2>3, <2>4, <2>5, <2>6, PartUpdates DEF Informed
<1>5. CASE Q!UpdateParent
  <2> DEFINE q == Q!Top.part
  <2>1. stack # <<>> /\ Q!Top.list = 4
    BY <1>5 DEF Q!UpdateParent
  <2>2. /\ Q!Below \in Seq (Q!Climb) /\ Q!Top \in Q!Climb
        /\ ToSet (stack) = ToSet (Q!Below) \cup {Q!Top}
    BY <1>1, <2>1, TopBelow
  <2>3. q \in Part /\ Parent[q] \in Part \cup {None} /\ None \notin Part
    BY <2>2, QuestConstants DEF Q!Climb
  <2>4. \A l \in QuestListener, r \in Part :
          partStatus[l] = "listed" /\ Q!Matches (Pattern[l], Q!FullName[r]) /\ heard[l][r] # Q!State (r) =>
            \E c \in ToSet (Q!Below) : c.part = r /\ Ahead (c, l)
    <3>1. \A l : ~ Ahead (Q!Top, l)
      BY <2>1 DEF Ahead
    <3>2. QED
      BY <1>1, <2>2, <3>1 DEF Informed
  <2>5. /\ \A r \in Part : completed[r] => started[r] /\ Completes (completed, r)
        /\ \A r \in Part : started[r] /\ Parent[r] # None /\ Parent[r] # Parent[q] =>
             started[Parent[r]] \/ \E c \in ToSet (Q!Below) : c.part = r
        /\ \A r \in Q!Composed \ {Parent[q]} : Completes (completed, r) /\ ~ completed[r] =>
             \E c \in ToSet (Q!Below) : Parent[c.part] = r
    BY <1>1, <2>2 DEF Climbing
  <2>6. CASE Parent[q] = None
    <3>1. stack' = Q!Below /\ UNCHANGED <<started, completed>>
      BY <1>5, <2>6 DEF Q!UpdateParent, Q!quests
    <3>2. Q!TypeOK'
      BY <1>1, <1>2, <2>2, <3>1 DEF Q!TypeOK
    <3>3. None \notin Q!Composed
      BY <2>3 DEF Q!Composed
    <3>4. Climbing'
      <4>1. \A r : Completes (completed, r)' <=> Completes (completed, r)
        BY <3>1 DEF Completes
      <4>2. QED
        BY <2>5, <2>6, <3>1, <3>3, <4>1 DEF Climbing
    <3>5. Enlisted'
      BY <1>1, <1>2, <2>2, <3>1 DEF Enlisted
    <3>6. Informed'
      BY <1>2, <2>4, <3>1 DEF Informed, Ahead, Q!State
    <3>7. QED
      BY <1>3, <3>2, <3>4, <3>5, <3>6 DEF QuestsInv
  <2>7. CASE Parent[q] # None
    <3>1. Q!UpdatePart (Parent[q], Q!Below)
      BY <1>5, <2>7 DEF Q!UpdateParent
    <3>2. Parent[q] \in Part /\ ToSet (Q!Below) \subseteq ToSet (stack)
      BY <2>2, <2>3, <2>7
    <3> DEFINE p == Parent[q]
               below == Q!Below
    <3>3. /\ p \in Part /\ below \in Seq (Q!Climb) /\ ToSet (below) \subseteq ToSet (stack)
          /\ Q!UpdatePart (p, below)
          /\ \A r \in Part : started[r] /\ Parent[r] # None /\ Parent[r] # p =>
               started[Parent[r]] \/ \E c \in ToSet (below) : c.part = r
          /\ \A r \in Q!Composed \ {p} : Completes (completed, r) /\ ~ completed[r] =>
               \E c \in ToSet (below) : Parent[c.part] = r
          /\ \A l \in QuestListener, r \in Part :
               partStatus[l] = "listed" /\ Q!Matches (Pattern[l], Q!FullName[r]) /\ heard[l][r] # Q!State (r) =>
                 \E c \in ToSet (below) : c.part = r /\ Ahead (c, l)
      BY <2>2, <2>4, <2>5, <3>1, <3>2
    <3>4. \A r \in Part : completed[r] => started[r] /\ Completes (completed, r)
      BY <2>5
    <3> HIDE DEF p, below
    <3>5. Q!TypeOK' /\ Climbing' /\ Enlisted' /\ Informed'
      BY <1>1, <1>2, <3>3, <3>4, PartUpdates
    <3>6. QED
      BY <1>3, <3>5 DEF QuestsInv
  <2>8. QED
    BY <2>6, <2>7
<1>6. QED
  BY <1>3, <1>4, <1>5 DEF QuestsInv


\* Whom a climb has still to come to it has while the lists keep their order.
LEMMA AheadStays ==
  ASSUME Q!QuestAssumption, Q!TypeOK, Enlisted, NEW c \in ToSet (stack), NEW k \in QuestListener,
         partStatus[k] = "listed", Ahead (c, k),
         Head (Pattern[k]) \in Q!Heads =>
           /\ k \in ToSet (lists'[Head (Pattern[k])])
           /\ SameOrder (lists[Head (Pattern[k])], lists'[Head (Pattern[k])]),
         c.at # None => c.at \in ToSet (lists'[Q!Lists (c.part)[c.list]])
  PROVE  Ahead (c, k)'
<1> DEFINE h == Head (Pattern[k])
<1>1. PICK j \in 1 .. 3 :
        /\ Q!Lists (c.part)[j] = h
        /\ c.list < j \/ (c.list = j /\ (c.at = None \/ (k # c.at /\ NotAfter (lists[h], c.at, k))))
  BY DEF Ahead
<1>2. c \in Q!Climb
  <2>1. stack \in Seq (Q!Climb)
    BY DEF Q!TypeOK
  <2>2. QED
    BY <2>1, ElementOfSeq, LenProperties DEF ToSet
<1>3. h \in Q!Heads
  <2>1. c.part \in Part
    BY <1>2 DEF Q!Climb
  <2>2. Q!Lists (c.part)[j] \in Q!Heads
    BY <1>1, <2>1, QuestConstants
  <2>3. QED
    BY <1>1, <2>2
<1>4. k \in ToSet (lists[h]) /\ k \in ToSet (lists'[h]) /\ SameOrder (lists[h], lists'[h])
  BY <1>3 DEF Enlisted
<1>5. CASE c.list < j \/ c.at = None
  BY <1>1, <1>5 DEF Ahead
<1>6. CASE c.list = j /\ c.at # None
  <2>1. c.at \in ToSet (lists[h]) /\ c.at \in ToSet (lists'[h])
    BY <1>1, <1>6 DEF Enlisted
  <2>2. NotAfter (lists'[h], c.at, k) /\ k # c.at
    <3>1. NotAfter (lists[h], c.at, k) /\ k # c.at
      <4>1. ~ c.list < j
        <5>1. c.list \in Nat
          BY <1>2 DEF Q!Climb
        <5>2. QED
          BY <1>6, <5>1
      <4>2. QED
        BY <1>1, <1>6, <4>1
    <3>2. QED
      BY <1>4, <2>1, <3>1 DEF SameOrder
  <2>3. QED
    BY <1>1, <1>6, <2>2 DEF Ahead
<1>7. QED
  BY <1>1, <1>5, <1>6

\* One listener comes or goes. It is none that a walk stands at, and when it
\* comes it knows all parts.
LEMMA ListenersChange ==
  ASSUME Q!QuestAssumption, QuestsInv, UNCHANGED <<started, completed, stack, saved>>,
         lists' \in [Q!Heads -> Seq (QuestListener)],
         partStatus' \in [QuestListener -> {"new", "listed", "destroyed", "deleted"}],
         heard' \in [QuestListener -> [Part -> Q!QuestPart]],
         NEW l \in QuestListener,
         \A k \in QuestListener \ {l} : partStatus'[k] = partStatus[k] /\ heard'[k] = heard[k],
         partStatus'[l] = "listed" => \A p \in Part : heard'[l][p] = Q!State (p),
         \A h \in Q!Heads : /\ Distinct (lists'[h]) /\ SameOrder (lists[h], lists'[h])
                            /\ \A k : k # l => (k \in ToSet (lists'[h]) <=> k \in ToSet (lists[h])),
         \A h \in Q!Heads : l \in ToSet (lists'[h]) =>
           partStatus'[l] \in {"listed", "destroyed"} /\ h = Head (Pattern[l]),
         partStatus'[l] = "listed" /\ Head (Pattern[l]) \in Q!Heads => l \in ToSet (lists'[Head (Pattern[l])]),
         \A c \in ToSet (stack) : c.at # l
  PROVE  QuestsInv'
<1>1. Q!TypeOK /\ Climbing /\ Archived /\ Enlisted /\ Informed
  BY DEF QuestsInv
<1>2. Q!TypeOK'
  BY <1>1 DEF Q!TypeOK
<1>3. Climbing' /\ Archived'
  BY <1>1 DEF Climbing, Archived, Completes
<1>4. \A c \in ToSet (stack) : c.part \in Part /\ c.list \in 1 .. 4 /\ c.at \in QuestListener \cup {None}
  <2>1. stack \in Seq (Q!Climb)
    BY <1>1 DEF Q!TypeOK
  <2>2. \A c \in ToSet (stack) : c \in Q!Climb
    BY <2>1, ElementOfSeq, LenProperties DEF ToSet
  <2>3. QED
    BY <2>2 DEF Q!Climb
<1>5. \A h \in Q!Heads : ToSet (lists[h]) \subseteq QuestListener /\ ToSet (lists'[h]) \subseteq QuestListener
  <2>1. TAKE h \in Q!Heads
  <2>2. lists[h] \in Seq (QuestListener) /\ lists'[h] \in Seq (QuestListener)
    BY <1>1 DEF Q!TypeOK
  <2>3. QED
    BY <2>2, ElementOfSeq, LenProperties DEF ToSet
<1>6. \A c \in ToSet (stack) : c.at # None =>
        /\ partStatus'[c.at] # "destroyed" /\ c.list \in 1 .. 3
        /\ c.at \in ToSet (lists'[Q!Lists (c.part)[c.list]])
  <2>1. SUFFICES ASSUME NEW c \in ToSet (stack), c.at # None
                 PROVE  /\ partStatus'[c.at] # "destroyed" /\ c.list \in 1 .. 3
                        /\ c.at \in ToSet (lists'[Q!Lists (c.part)[c.list]])
    OBVIOUS
  <2>2. /\ partStatus[c.at] # "destroyed" /\ c.list \in 1 .. 3
        /\ c.at \in ToSet (lists[Q!Lists (c.part)[c.list]])
    BY <1>1, <2>1 DEF Enlisted
  <2>3. Q!Lists (c.part)[c.list] \in Q!Heads
    BY <1>4, <2>2, QuestConstants
  <2>4. c.at # l /\ c.at \in QuestListener
    BY <1>4, <2>1
  <2>5. QED
    BY <2>2, <2>3, <2>4
<1>7. Enlisted'
  <2>1. \A h \in Q!Heads : \A k \in ToSet (lists'[h]) :
          partStatus'[k] \in {"listed", "destroyed"} /\ h = Head (Pattern[k])
    <3>1. TAKE h \in Q!Heads
    <3>2. TAKE k \in ToSet (lists'[h])
    <3>3. k \in QuestListener
      BY <1>5
    <3>4. CASE k = l
      BY <3>4
    <3>5. CASE k # l
      BY <1>1, <3>3, <3>5 DEF Enlisted
    <3>6. QED
      BY <3>4, <3>5
  <2>2. \A k \in QuestListener : partStatus'[k] = "listed" /\ Head (Pattern[k]) \in Q!Heads =>
          k \in ToSet (lists'[Head (Pattern[k])])
    BY <1>1 DEF Enlisted
  <2>3. QED
    BY <1>6, <2>1, <2>2 DEF Enlisted
<1>8. Informed'
  <2>1. SUFFICES ASSUME NEW k \in QuestListener, NEW p \in Part, partStatus'[k] = "listed",
                        Q!Matches (Pattern[k], Q!FullName[p]), heard'[k][p] # Q!State (p)
                 PROVE  \E c \in ToSet (stack) : c.part = p /\ Ahead (c, k)'
    BY DEF Informed, Q!State, Ahead
  <2>2. partStatus[k] = "listed" /\ heard[k][p] # Q!State (p)
    BY <2>1
  <2>3. PICK c \in ToSet (stack) : c.part = p /\ Ahead (c, k)
    BY <1>1, <2>1, <2>2 DEF Informed
  <2>4. Head (Pattern[k]) \in Q!Heads =>
          /\ k \in ToSet (lists'[Head (Pattern[k])])
          /\ SameOrder (lists[Head (Pattern[k])], lists'[Head (Pattern[k])])
    BY <1>7, <2>1 DEF Enlisted
  <2>5. Ahead (c, k)'
    BY <1>1, <1>6, <2>2, <2>3, <2>4, AheadStays
  <2>6. QED
    BY <2>3, <2>5
<1>9. QED
  BY <1>2, <1>3, <1>7, <1>8 DEF QuestsInv

\* The operators on lists that quests use are the ones of the lemmas.
LEMMA QuestLists == \A s, e : Q!RemoveFirst (s, e) = RemoveFirst (s, e)
<1>1. TAKE s, e
<1>2. Q!SelectInSeq (s, LAMBDA v : v = e) = SelectInSeq (s, LAMBDA v : v = e)
  BY DEF Q!SelectInSeq, SelectInSeq, Q!Min, Min
<1>3. \A p : Q!RemoveAt (s, p) = RemoveAt (s, p)
  BY DEF Q!RemoveAt, RemoveAt
<1>4. QED
  BY <1>2, <1>3 DEF Q!RemoveFirst, RemoveFirst

\* Listeners are registered, destroyed, and erased by the walk.
LEMMA QuestsListeners ==
  ASSUME Q!QuestAssumption, QuestsInv, NEW l \in QuestListener,
         Q!Register (l) \/ Q!Destroy (l) \/ Q!DeleteDestroyed (l)
  PROVE  QuestsInv'
<1> DEFINE h == Head (Pattern[l])
<1>1. Q!TypeOK /\ Enlisted
  BY DEF QuestsInv
<1>2. UNCHANGED <<started, completed, stack, saved>>
  BY DEF Q!Register, Q!Destroy, Q!DeleteDestroyed, Q!quests
<1>3. /\ lists \in [Q!Heads -> Seq (QuestListener)]
      /\ partStatus \in [QuestListener -> {"new", "listed", "destroyed", "deleted"}]
      /\ heard \in [QuestListener -> [Part -> Q!QuestPart]]
      /\ None \notin QuestListener
  BY <1>1, QuestConstants DEF Q!TypeOK
<1>4. /\ \A g \in Q!Heads : Distinct (lists[g]) /\ SameOrder (lists[g], lists[g])
      /\ \A g \in Q!Heads : l \in ToSet (lists[g]) => partStatus[l] \in {"listed", "destroyed"} /\ g = h
      /\ partStatus[l] = "listed" /\ h \in Q!Heads => l \in ToSet (lists[h])
  BY <1>1 DEF Enlisted, SameOrder
<1>5. \A c \in ToSet (stack) : c.part \in Part
  <2>1. \A c \in ToSet (stack) : c \in Q!Climb
    BY <1>1, ElementOfSeq, LenProperties DEF ToSet, Q!TypeOK
  <2>2. QED
    BY <2>1 DEF Q!Climb
<1>6. CASE Q!Register (l)
  <2>1. /\ partStatus[l] = "new" /\ partStatus' = [partStatus EXCEPT ![l] = "listed"]
        /\ lists' = [lists EXCEPT ![h] = Append (lists[h], l)]
        /\ heard' = [heard EXCEPT ![l] = [p \in Part |-> Q!State (p)]]
    BY <1>6 DEF Q!Register
  <2>2. \A g \in Q!Heads : l \notin ToSet (lists[g])
    BY <1>4, <2>1
  <2>3. h \in Q!Heads =>
          /\ Append (lists[h], l) \in Seq (QuestListener)
          /\ ToSet (Append (lists[h], l)) = ToSet (lists[h]) \cup {l}
          /\ Distinct (Append (lists[h], l))
          /\ SameOrder (lists[h], Append (lists[h], l))
    BY <1>3, <1>4, <2>2, AppendNew
  <2> DEFINE s == Append (lists[h], l)
  <2> HIDE DEF s, h
  <2>4. /\ lists' \in [Q!Heads -> Seq (QuestListener)]
        /\ h \in Q!Heads => lists'[h] = s
        /\ \A g \in Q!Heads : g # h => lists'[g] = lists[g]
    BY <1>3, <2>1, <2>3 DEF s
  <2>5. /\ partStatus' \in [QuestListener -> {"new", "listed", "destroyed", "deleted"}]
        /\ partStatus'[l] = "listed" /\ \A k \in QuestListener \ {l} : partStatus'[k] = partStatus[k]
    BY <1>3, <2>1
  <2>6. /\ heard' \in [QuestListener -> [Part -> Q!QuestPart]]
        /\ \A k \in QuestListener \ {l} : heard'[k] = heard[k]
        /\ \A p \in Part : heard'[l][p] = Q!State (p)
    <3>1. \A p \in Part : Q!State (p) \in Q!QuestPart
      BY <1>1 DEF Q!State, Q!QuestPart, Q!TypeOK
    <3>2. QED
      BY <1>3, <2>1, <3>1
  <2>7. \A g \in Q!Heads : /\ Distinct (lists'[g]) /\ SameOrder (lists[g], lists'[g])
                           /\ \A k : k # l => (k \in ToSet (lists'[g]) <=> k \in ToSet (lists[g]))
    BY <1>4, <2>3, <2>4 DEF s
  <2>8. \A g \in Q!Heads : l \in ToSet (lists'[g]) => g = h
    BY <2>2, <2>4
  <2>9. h \in Q!Heads => l \in ToSet (lists'[h])
    BY <2>3, <2>4 DEF s
  <2>10. \A c \in ToSet (stack) : c.at # l
    <3>1. SUFFICES ASSUME NEW c \in ToSet (stack), c.at = l
                   PROVE  FALSE
      OBVIOUS
    <3>2. c.list \in 1 .. 3 /\ l \in ToSet (lists[Q!Lists (c.part)[c.list]])
      BY <1>1, <1>3, <3>1 DEF Enlisted
    <3>3. Q!Lists (c.part)[c.list] \in Q!Heads
      BY <1>5, <3>1, <3>2, QuestConstants
    <3>4. QED
      BY <2>2, <3>2, <3>3
  <2>11. QED
    BY <1>2, <2>4, <2>5, <2>6, <2>7, <2>8, <2>9, <2>10, ListenersChange DEF h
<1>7. CASE Q!Destroy (l)
  <2>1. /\ partStatus[l] = "listed" /\ partStatus' = [partStatus EXCEPT ![l] = "destroyed"]
        /\ lists' = lists /\ heard' = heard /\ l \notin Q!Executing
    BY <1>7 DEF Q!Destroy
  <2>2. /\ partStatus' \in [QuestListener -> {"new", "listed", "destroyed", "deleted"}]
        /\ partStatus'[l] = "destroyed" /\ \A k \in QuestListener \ {l} : partStatus'[k] = partStatus[k]
    BY <1>3, <2>1
  <2>3. \A c \in ToSet (stack) : c.at # l
    BY <2>1 DEF Q!Executing, ToSet
  <2>4. \A g \in Q!Heads : l \in ToSet (lists[g]) => g = h
    BY <1>4
  <2> HIDE DEF h
  <2>5. QED
    BY <1>2, <1>3, <1>4, <2>1, <2>2, <2>3, <2>4, ListenersChange DEF h
<1>8. CASE Q!DeleteDestroyed (l)
  <2>1. /\ partStatus[l] = "destroyed" /\ partStatus' = [partStatus EXCEPT ![l] = "deleted"]
        /\ lists' = [lists EXCEPT ![h] = Q!RemoveFirst (lists[h], l)] /\ heard' = heard
        /\ Q!Raising /\ Q!Follows (l)
    BY <1>8 DEF Q!DeleteDestroyed
  <2>2. h \in Q!Heads
    <3>1. /\ Q!Lists (Q!Top.part)[Q!Top.list] \in Q!Heads
          /\ Q!CurrentList = lists[Q!Lists (Q!Top.part)[Q!Top.list]]
      BY <1>1, <2>1, WalkAtList
    <3>2. l \in ToSet (Q!CurrentList)
      BY <2>1 DEF Q!Follows, ToSet
    <3>3. QED
      BY <1>4, <3>1, <3>2
  <2> DEFINE s == RemoveFirst (lists[h], l)
  <2> HIDE DEF h
  <2>3. /\ s \in Seq (QuestListener) /\ ToSet (s) = ToSet (lists[h]) \ {l} /\ Distinct (s)
        /\ SameOrder (lists[h], s)
    <3>1. lists[h] \in Seq (QuestListener) /\ Distinct (lists[h])
      BY <1>3, <1>4, <2>2
    <3>2. /\ s \in Seq (QuestListener) /\ ToSet (s) = ToSet (lists[h]) \ {l} /\ Distinct (s)
      BY <3>1, RemoveFirstDistinct
    <3>3. SameOrder (lists[h], s)
      BY <3>1, RemoveFirstOrder
    <3>4. QED
      BY <3>2, <3>3
  <2>4. lists' = [lists EXCEPT ![h] = s]
    BY <2>1, QuestLists
  <2> HIDE DEF s
  <2>5. /\ lists' \in [Q!Heads -> Seq (QuestListener)] /\ lists'[h] = s
        /\ \A g \in Q!Heads : g # h => lists'[g] = lists[g]
    BY <1>3, <2>2, <2>3, <2>4
  <2>6. /\ partStatus' \in [QuestListener -> {"new", "listed", "destroyed", "deleted"}]
        /\ partStatus'[l] = "deleted" /\ \A k \in QuestListener \ {l} : partStatus'[k] = partStatus[k]
    BY <1>3, <2>1
  <2>7. \A g \in Q!Heads : /\ Distinct (lists'[g]) /\ SameOrder (lists[g], lists'[g])
                           /\ \A k : k # l => (k \in ToSet (lists'[g]) <=> k \in ToSet (lists[g]))
    BY <1>4, <2>3, <2>5
  <2>8. \A g \in Q!Heads : l \notin ToSet (lists'[g])
    BY <1>4, <2>3, <2>5
  <2>9. \A c \in ToSet (stack) : c.at # l
    BY <1>1, <1>3, <2>1 DEF Enlisted
  <2>10. QED
    BY <1>2, <1>3, <2>1, <2>5, <2>6, <2>7, <2>8, <2>9, ListenersChange DEF h
<1>9. QED
  BY <1>6, <1>7, <1>8


\* The game is saved, and loaded.
LEMMA QuestsSaved ==
  ASSUME Q!QuestAssumption, QuestsInv, CarelessCalls = {}, Q!Save \/ Q!Load
  PROVE  QuestsInv'
<1>1. Q!TypeOK /\ Climbing /\ Archived /\ Enlisted /\ Informed
  BY DEF QuestsInv
<1>2. stack = <<>> /\ stack' = stack /\ lists' = lists /\ partStatus' = partStatus
  BY DEF Q!Save, Q!Load
<1>3. ToSet (stack) = {}
  BY <1>2 DEF ToSet
<1>4. Enlisted'
  BY <1>1, <1>2 DEF Enlisted
<1>5. CASE Q!Save
  <2>1. saved' = <<started, completed>> /\ started' = started /\ completed' = completed /\ heard' = heard
    BY <1>5 DEF Q!Save, Q!quests
  <2>2. Q!TypeOK'
    BY <1>1, <1>2, <2>1 DEF Q!TypeOK
  <2>3. Climbing'
    BY <1>1, <1>2, <2>1 DEF Climbing, Completes
  <2>4. Informed'
    BY <1>1, <1>2, <2>1 DEF Informed, Ahead, Q!State
  <2>5. saved'[1] = started /\ saved'[2] = completed
    BY <2>1
  <2>6. Archived'
    <3>1. /\ \A p \in Part : completed[p] => started[p] /\ Completes (completed, p)
          /\ \A p \in Part : started[p] /\ Parent[p] # None => started[Parent[p]]
          /\ \A p \in Q!Composed : Completes (completed, p) => completed[p]
      BY <1>1, <1>3 DEF Climbing
    <3>2. QED
      BY <2>5, <3>1 DEF Archived
  <2>7. QED
    BY <1>4, <2>2, <2>3, <2>4, <2>6 DEF QuestsInv
<1>6. CASE Q!Load
  <2> DEFINE a == saved[1]
             d == saved[2]
  <2>1. /\ started' = a /\ completed' = d /\ saved' = saved
        /\ heard' = [l \in QuestListener |-> [p \in Part |-> [started |-> a[p], completed |-> d[p]]]]
    BY <1>6 DEF Q!Load
  <2>2. a \in [Part -> BOOLEAN] /\ d \in [Part -> BOOLEAN]
    BY <1>1 DEF Q!TypeOK
  <2>3. /\ \A p \in Part : d[p] => a[p] /\ Completes (d, p)
        /\ \A p \in Part : a[p] /\ Parent[p] # None => a[Parent[p]]
        /\ \A p \in Q!Composed : Completes (d, p) => d[p]
    BY <1>1 DEF Archived
  <2>4. Archived'
    BY <1>1, <2>1 DEF Archived
  <2> HIDE DEF a, d
  <2>5. \A l \in QuestListener : \A p \in Part :
          /\ heard'[l][p] = [started |-> started'[p], completed |-> completed'[p]]
          /\ heard'[l][p] \in Q!QuestPart
    BY <2>1, <2>2 DEF Q!QuestPart
  <2>6. heard' \in [QuestListener -> [Part -> Q!QuestPart]]
    BY <2>1, <2>2 DEF Q!QuestPart
  <2>7. Q!TypeOK'
    BY <1>1, <1>2, <2>1, <2>2, <2>6 DEF Q!TypeOK
  <2>8. Climbing'
    BY <2>1, <2>3 DEF Climbing
  <2>9. Informed'
    BY <2>5 DEF Informed, Q!State
  <2>10. QED
    BY <1>4, <2>4, <2>7, <2>8, <2>9 DEF QuestsInv
<1>7. QED
  BY <1>5, <1>6

LEMMA QuestsNext ==
  ASSUME Q!QuestAssumption, QuestsInv, CarelessCalls = {}, Q!Next
  PROVE  QuestsInv'
<1>1. \/ \E p \in Part : Q!SetCompleted (Q!FullName[p])
      \/ \E l \in QuestListener : Q!Register (l) \/ Q!Destroy (l) \/ Q!DeleteDestroyed (l)
      \/ \E l \in QuestListener : Q!Skip (l) \/ Q!Execute (l)
      \/ Q!Save \/ Q!Load \/ Q!NextList \/ Q!UpdateParent \/ Q!Return
  BY DEF Q!Next, Q!Script, Q!Raise
<1>2. QED
  BY <1>1, QuestsUpdate, QuestsListeners, QuestsWalk, QuestsSaved, QuestsStay

LEMMA QuestsInit ==
  ASSUME Q!QuestAssumption, Q!Init
  PROVE  QuestsInv
<1>1. /\ started = [p \in Part |-> FALSE] /\ completed = [p \in Part |-> FALSE]
      /\ lists = [h \in Q!Heads |-> <<>>]
      /\ partStatus = [l \in QuestListener |-> "new"]
      /\ stack = <<>> /\ saved = <<started, completed>>
      /\ heard = [l \in QuestListener |-> [p \in Part |-> Q!State (p)]]
  BY DEF Q!Init
<1>2. ToSet (<<>>) = {} /\ DOMAIN <<>> = {} /\ <<>> \in Seq (QuestListener) /\ <<>> \in Seq (Q!Climb)
  BY DEF ToSet
<1>3. \A p \in Part : ~ started[p] /\ ~ completed[p] /\ Q!State (p) \in Q!QuestPart
  BY <1>1 DEF Q!State, Q!QuestPart
<1>4. Q!TypeOK
  <2>1. heard \in [QuestListener -> [Part -> Q!QuestPart]]
    BY <1>1, <1>3
  <2>2. QED
    BY <1>1, <1>2, <2>1 DEF Q!TypeOK
<1>5. \A p \in Q!Composed : ~ Completes (completed, p)
  <2>1. \A p \in Q!Composed : p \in Part /\ Q!Children (p) # {} /\ Q!Children (p) \subseteq Part
    BY DEF Q!Composed, Q!Children
  <2>2. \A p \in Part : \A alt \in Code[p] : alt # {} /\ alt \subseteq Q!Children (p)
    BY QuestConstants
  <2>3. TAKE p \in Q!Composed
  <2>4. \E c \in Q!Children (p) : ~ completed[c]
    BY <1>3, <2>1
  <2>5. \A alt \in Code[p] : \E c \in alt : ~ completed[c]
    BY <1>3, <2>1, <2>2
  <2>6. QED
    BY <2>4, <2>5 DEF Completes
<1>6. Climbing
  BY <1>3, <1>5 DEF Climbing
<1>7. Archived
  <2>1. saved[1] = started /\ saved[2] = completed
    BY <1>1
  <2>2. QED
    BY <1>3, <1>5, <2>1 DEF Archived
<1>8. Enlisted
  BY <1>1, <1>2 DEF Enlisted, Distinct
<1>9. Informed
  BY <1>1 DEF Informed
<1>10. QED
  BY <1>4, <1>6, <1>7, <1>8, <1>9 DEF QuestsInv

\* Between climbs nothing is left to be brought up to date.
LEMMA QuestsUpToDate ==
  ASSUME Q!QuestAssumption, QuestsInv
  PROVE  Q!TypeOK /\ Q!RulesAgree /\ Q!ListenersUpToDate
<1>1. Q!TypeOK /\ Climbing /\ Informed
  BY DEF QuestsInv
<1>2. stack = <<>> => ToSet (stack) = {}
  BY DEF ToSet
<1>3. \A p \in Q!Composed : p \in Part /\ (Q!Rule (p) <=> Completes (completed, p))
  BY RuleFollowsChildren DEF Q!Composed
<1>4. Q!RulesAgree
  BY <1>1, <1>2, <1>3 DEF Q!RulesAgree, Climbing
<1>5. Q!ListenersUpToDate
  BY <1>1, <1>2 DEF Q!ListenersUpToDate, Informed
<1>6. QED
  BY <1>1, <1>4, <1>5

\* Whatever callbacks do in the middle of the climbs under way, complete other
\* steps, register listeners or destroy them: when the outermost call returns
\* each part of a quest is completed just if its rule says so, and every
\* listener has seen the present state of the parts it listens for; so it is
\* after loading a game, as long as no callback saves one (quest.cc).
THEOREM QuestsAlwaysAgree == CarelessCalls = {} => (Spec => []QuestsAgree)
<1> SUFFICES ASSUME CarelessCalls = {}
             PROVE  Spec => []QuestsAgree
  OBVIOUS
<1> DEFINE Inv == scene = "quests" => QuestsInv
<1>1. Init => Inv
  BY QuestAssumption, QuestsInit DEF Init
<1>2. Inv /\ [Next]_vars => Inv'
  <2> SUFFICES ASSUME Inv, [Next]_vars, scene' = "quests"
               PROVE  QuestsInv'
    OBVIOUS
  <2>1. CASE QuestsStep
    BY <2>1, QuestAssumption, QuestsNext DEF QuestsStep
  <2>2. CASE scene' = scene /\ UNCHANGED questsVars
    <3>1. /\ started' = started /\ completed' = completed /\ lists' = lists /\ partStatus' = partStatus
          /\ stack' = stack /\ saved' = saved /\ heard' = heard /\ QuestsInv
      BY <2>2 DEF questsVars
    <3>2. Q!TypeOK'
      BY <3>1 DEF QuestsInv, Q!TypeOK
    <3>3. Climbing'
      BY <3>1 DEF QuestsInv, Climbing, Completes
    <3>4. Archived'
      BY <3>1 DEF QuestsInv, Archived, Completes
    <3>5. Enlisted' /\ Informed'
      BY <3>1 DEF QuestsInv, Enlisted, Informed, Ahead, Q!State
    <3>6. QED
      BY <3>2, <3>3, <3>4, <3>5 DEF QuestsInv
  <2>3. QED
    BY <2>1, <2>2 DEF Next, vars, ConversationsStep, MovingStep, QuestsStep, WindowsStep
<1>3. Inv => QuestsAgree
  BY QuestAssumption, QuestsUpToDate DEF QuestsAgree
<1>4. QED
  BY <1>1, <1>2, <1>3, PTL DEF Spec

=============================================================================
