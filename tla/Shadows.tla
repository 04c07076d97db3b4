------------------------------ MODULE Shadows -------------------------------
(***************************************************************************)
(* world::shadow: the shadow of a moving character on the objects below    *)
(* it.  Each time the character moves, moving::update takes the shadow off *)
(* the objects it lies on, moves the character and casts the shadow again, *)
(* on one object after the other from the top: each takes the pieces of    *)
(* the remaining shadow that lie over its surface.                         *)
(***************************************************************************)
EXTENDS DrawingAreas, FiniteSets

CONSTANTS
    Grounds,        \* objects that may be below: by z-order, their surfaces
    Length, Width,  \* size of the shadow's image
    Places          \* where the character can be

ShadowsAssumption ==
    /\ Length \in Nat \ {0} /\ Width \in Nat \ {0}
    /\ Places \subseteq Nat \X Nat

VARIABLES
    Tiles,          \* the objects below: sequences of solid surfaces
    Pos,            \* position of the character
    Remaining,      \* parts of the shadow that lie on nothing yet
    TilesWithShadow, \* chunk_info's with shadow, in order
    Shadow          \* tile -> surface -> its shadow_info's

shadowVars == <<Tiles, Pos, Remaining, TilesWithShadow, Shadow>>

Entire(pos) == drawing_area(pos[1], pos[2], Length, Width)

(* cast_on, for one surface of a tile that is scenery and solid. *)
Touches(area, surface) ==
    ~(area.x >= surface.x + surface.w \/ area.y >= surface.y + surface.h
      \/ area.x + area.w <= surface.x \/ area.y + area.h <= surface.y)
Cut(area, surface) == subtract_area(area, surface)
(* Mutation: what a surface has caught of the shadow goes on below it. *)
CutNot(area, surface) == {area}
Left(area, surface) == Cut(area, surface)
shadow_info(pos, areas) == [x |-> pos[1], y |-> pos[2], area |-> areas]
CastOnSurface(st, pos, t, k) ==
    LET surface == Tiles[t][k]
        under == {a \in st.remaining : Touches(a, surface)}
        info == shadow_info(pos, {setup_rects(a, <<surface>>) : a \in under})
    IN  IF under = {} THEN st
        ELSE [remaining |-> (st.remaining \ under) \cup UNION {Left(a, surface) : a \in under},
              tiles     |-> Append(st.tiles, t),
              shadow    |-> [st.shadow EXCEPT ![t][k] = Append(@, info)]]
cast_on(st, pos, t) ==
    IF st.remaining = {} THEN st
    ELSE FoldLeft(LAMBDA s, k : CastOnSurface(s, pos, t, k), st, [k \in 1..Len(Tiles[t]) |-> k])

(* remove_shadow: the first one that was cast from this position.          *)
FirstWith(infos, pos) == SelectInSeq(infos, LAMBDA i : i.x = pos[1] /\ i.y = pos[2])
remove_shadow(surfaces, pos) ==
    LET k == SelectInSeq(surfaces, LAMBDA infos : FirstWith(infos, pos) # 0)
    IN  IF k = 0 THEN surfaces
        ELSE [surfaces EXCEPT ![k] = RemoveAt(@, FirstWith(@, pos))]
Taken(shadow, pos, tiles) ==
    FoldLeft(LAMBDA s, t : [s EXCEPT ![t] = remove_shadow(@, pos)], shadow, tiles)

(* shadow::init and calculate_ground_pos: cast on the tiles in their order.*)
Casted(pos, tiles, shadow) ==
    FoldLeft(LAMBDA s, t : cast_on(s, pos, t),
             [remaining |-> {Entire(pos)}, tiles |-> tiles, shadow |-> shadow],
             [t \in 1..Len(Tiles) |-> t])

Cast(pos, tiles, shadow) ==
    LET st == Casted(pos, tiles, shadow)
    IN  /\ Remaining' = st.remaining
        /\ TilesWithShadow' = st.tiles
        /\ Shadow' = st.shadow

Init ==
    /\ Tiles \in Grounds
    /\ Pos \in Places
    /\ LET st == Casted(Pos, <<>>, [t \in 1..Len(Tiles) |-> [k \in 1..Len(Tiles[t]) |-> <<>>]])
       IN  Remaining = st.remaining /\ TilesWithShadow = st.tiles /\ Shadow = st.shadow

(* moving::update: shadow::reset, while the character is where it was when *)
(* the shadow was cast, before it moves.                                   *)
update(pos) ==
    /\ Pos' = pos
    /\ Cast(pos, <<>>, Taken(Shadow, Pos, TilesWithShadow))
    /\ UNCHANGED Tiles

Next == \E pos \in Places : update(pos)

Spec == Init /\ [][Next]_shadowVars

-----------------------------------------------------------------------------
Infos == {<<t, k, n>> \in (1..Len(Tiles)) \X (1..4) \X (1..8) :
              k \in 1..Len(Tiles[t]) /\ n \in 1..Len(Shadow[t][k])}
Pieces == UNION {{<<i, a>> : a \in Shadow[i[1]][i[2]][i[3]].area} : i \in Infos}

(* Every point of the shadow is painted once: it is in one piece of it, on *)
(* the topmost tile below that point, or remains.                          *)
ShadowIsWhole ==
    \A p \in Pixels(Entire(Pos)) :
        LET on == {q \in Pieces : p \in Pixels(q[2])}
            below == {t \in 1..Len(Tiles) : \E k \in 1..Len(Tiles[t]) : p \in Pixels(Tiles[t][k])}
            rest == {a \in Remaining : p \in Pixels(a)}
        IN  IF below = {} THEN on = {} /\ Cardinality(rest) = 1
            ELSE rest = {} /\ Cardinality(on) = 1 /\ \A q \in on : q[1][1] = Min(below)

(* No tile keeps a shadow of where the character was before. *)
NoShadowLeftBehind ==
    \A i \in Infos : LET info == Shadow[i[1]][i[2]][i[3]]
                     IN  info.x = Pos[1] /\ info.y = Pos[2]
=============================================================================
