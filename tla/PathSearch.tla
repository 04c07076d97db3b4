----------------------------- MODULE PathSearch -----------------------------
(***************************************************************************)
(* The search for a path (src/world/pathfinding.cc): A* on a grid of tiles *)
(* with an open list (open_list.h), a bank of nodes (node_bank.h) and a    *)
(* cache that knows which positions have a node (node_cache.h).            *)
(*                                                                         *)
(* From a node, the search only goes on in the direction it came from, and *)
(* to the sides of it. Nodes on the level of the goal come first. Ground   *)
(* may be up to 10 higher than the last node, or 25 lower; positions are   *)
(* looked up on the level of the node they are reached from.               *)
(***************************************************************************)
EXTENDS Integers, Sequences, FiniteSets, SequencesExt

CONSTANTS
  Tile,        \* the tiles of the map, <<x, y>>
  Maps,        \* level of the ground of each tile, or Hole
  Hole,
  Impassable,  \* tiles whose terrain costs 0, which the character must not enter
  Bonus,       \* pathfinding_costs of the terrain of each tile
  Start,       \* tile the character is on
  Goal1,       \* goal area in pixels, x, y and z
  Goal2,
  Height,      \* height of the character
  MaxRev       \* bound on the iterations

Step == 20
Climb == 10
Drop == 25

PathSearchAssumption ==
  /\ Start \in Tile /\ Bonus \in [Tile -> Nat] /\ Impassable \subseteq Tile
  /\ \A f \in Maps : DOMAIN f = Tile

VARIABLES
  surface,     \* the map
  nodes,       \* the nodes in use, in the order they were taken from the bank
  open,        \* m_openList
  cache,       \* m_nodeCache: the node of each position that has one
  result,      \* "searching", "found" or "failed"
  path,        \* what find_path returns
  rev          \* iterations

vars == <<surface, nodes, open, cache, result, path, rev>>

Abs (x) == IF x < 0 THEN -x ELSE x

\* pos and z: position; parent: the node itself for the first one; moveCost: 16 bits
\* of it from the tile; listAssignedTo: in open, or not
Node (pos, z, parent, cost, total) ==
  [pos |-> pos, z |-> z, parent |-> parent, moveCost |-> cost, total |-> total,
   levelDist |-> Abs (Goal1[3] - z) \div 40]

\* node_cache::search_node, add_node
Key (pos, z) == <<pos, z>>
SearchNode (m, pos, z) == IF Key (pos, z) \in DOMAIN m THEN m[Key (pos, z)] ELSE 0
AddToCache (m, pos, z, n) == [k \in DOMAIN m \cup {Key (pos, z)} |-> IF k = Key (pos, z) THEN n ELSE m[k]]

Mid (i) == (Goal1[i] + Goal2[i]) \div 2

\* calc_heuristics: diagonal steps cost 1.4 times as much.
Heuristics (pos) ==
  LET dx == Abs (pos[1] * Step - Mid (1))
      dy == Abs (pos[2] * Step - Mid (2))
  IN IF dx > dy THEN (14 * dy + 10 * (dx - dy)) \div 10 ELSE (14 * dx + 10 * (dy - dx)) \div 10

\* verify_goal
VerifyGoal (n) ==
  /\ \A i \in 1 .. 2 : n.pos[i] >= Goal1[i] \div Step /\ n.pos[i] <= Goal2[i] \div Step
  /\ n.z + Height >= Goal1[3] /\ n.z <= Goal2[3]

-----------------------------------------------------------------------------
(* Tiles next to a node *)

At (pos, dx, dy) == <<pos[1] + dx, pos[2] + dy>>

\* Mutation: no turning back to the side behind.
AdjacentForward (n, from) ==
  LET dx == n[1] - from[1]
      dy == n[2] - from[2]
  IN IF dx = 0 /\ dy = 0
     THEN <<At (n, 1, 1), At (n, 1, 0), At (n, 1, -1), At (n, 0, -1),
            At (n, -1, 1), At (n, -1, 0), At (n, -1, -1), At (n, 0, 1)>>
     ELSE IF dx # 0 /\ dy # 0 THEN <<At (n, 0, dy), At (n, dx, dy), At (n, dx, 0)>>
     ELSE IF dx # 0 THEN <<At (n, dx, -1), At (n, dx, 0), At (n, dx, 1)>>
     ELSE <<At (n, -1, dy), At (n, 0, dy), At (n, 1, dy)>>

\* calc_adjacent_nodes
Adjacent (n, from) ==
  LET dx == n[1] - from[1]
      dy == n[2] - from[2]
  IN IF dx = 0 /\ dy = 0
     THEN <<At (n, 1, 1), At (n, 1, 0), At (n, 1, -1), At (n, 0, -1),
            At (n, -1, 1), At (n, -1, 0), At (n, -1, -1), At (n, 0, 1)>>
     ELSE IF dx # 0 /\ dy # 0
     THEN <<At (n, 0, dy), At (n, dx, dy), At (n, dx, 0), At (n, dx, -dy), At (n, -dx, dy)>>
     ELSE IF dx # 0 THEN <<At (n, dx, -1), At (n, dx, 0), At (n, dx, 1)>>
     ELSE <<At (n, -1, dy), At (n, 0, dy), At (n, 1, dy)>>

\* check_node: the terrain may be forbidden, and makes the step cheaper.
CheckNode (pos) == pos \notin Impassable

MoveCost (from, pos) ==
  LET cost == IF from[1] # pos[1] /\ from[2] # pos[2] THEN 28 ELSE 20
  IN (cost - (IF pos \in Tile THEN Bonus[pos] ELSE 0)) % 65536

\* is_hole, and nothing solid below
IsHole (pos, z) ==
  pos \notin Tile \/ surface[pos] = Hole \/ surface[pos] < z - Drop

\* An obstacle: ground that rises above the feet.
Blocked (pos, z) == surface[pos] > z

\* is_stairs, with ground that is level all over the tile
IsStairs (pos, z) == surface[pos] <= z + Climb

CanEnter (pos, z) == ~ IsHole (pos, z) /\ (Blocked (pos, z) => IsStairs (pos, z))

-----------------------------------------------------------------------------
(* find_path *)

\* node_bank::get_node: the next one; the bank grows before it is used up.
TakeNode (s, n) == Append (s, n)

\* The node of a tile that is on the open list: it may have become cheaper.
Rebalance (s, old, new) ==
  IF old \in s.open /\ new.total < s.nodes[old].total
  THEN [s EXCEPT !.nodes[old].moveCost = new.moveCost, !.nodes[old].total = new.total,
                 !.nodes[old].parent = new.parent]
  ELSE s

\* Holes get a closed node, obstacles none.
AddNode (s, new) ==
  IF IsHole (new.pos, new.z)
  THEN [s EXCEPT !.nodes = TakeNode (@, new), !.cache = AddToCache (@, new.pos, new.z, Len (s.nodes) + 1)]
  ELSE IF ~ CanEnter (new.pos, new.z) THEN s
  ELSE LET z == surface[new.pos]
           n == Node (new.pos, z, new.parent, new.moveCost, new.total)
       IN [nodes |-> TakeNode (s.nodes, n), open |-> s.open \cup {Len (s.nodes) + 1},
           cache |-> AddToCache (s.cache, n.pos, z, Len (s.nodes) + 1)]

Visit (s, top, pos) ==
  LET from == s.nodes[top]
      cost == from.moveCost + MoveCost (from.pos, pos)
      new == Node (pos, from.z, top, cost, cost + Heuristics (pos))
      old == SearchNode (s.cache, pos, from.z)
  IN IF ~ CheckNode (pos) THEN s
     ELSE IF old # 0 THEN Rebalance (s, old, new)
     ELSE AddNode (s, new)

\* open_list: the first of the nodes on the level of the goal; equal ones in any order.
Before (a, b) ==
  nodes[a].levelDist < nodes[b].levelDist
    \/ (nodes[a].levelDist = nodes[b].levelDist /\ nodes[a].total < nodes[b].total)

Top == {a \in open : \A b \in open : ~ Before (b, a)}

RECURSIVE PathTo (_)

\* From the node after the first one, or just that.
PathTo (n) ==
  LET from == nodes[n].parent
  IN IF nodes[from].parent = from THEN <<nodes[n].pos>> ELSE Append (PathTo (from), nodes[n].pos)

Init ==
  /\ surface \in {f \in Maps : f[Start] # Hole}
  /\ nodes = <<Node (Start, surface[Start], 1, 0, 0)>>
  /\ open = {1} /\ cache = AddToCache (<<>>, Start, surface[Start], 1)
  /\ result = "searching" /\ path = <<>> /\ rev = 0

Iterate ==
  /\ result = "searching" /\ rev < MaxRev /\ open # {}
  /\ \E top \in Top :
       IF VerifyGoal (nodes[top])
       THEN result' = "found" /\ path' = PathTo (top) /\ UNCHANGED <<nodes, open, cache>>
       ELSE /\ LET from == nodes[top]
                   done == FoldLeft (LAMBDA s, pos : Visit (s, top, pos),
                                     [nodes |-> nodes, open |-> open \ {top}, cache |-> cache],
                                     Adjacent (from.pos, nodes[from.parent].pos))
               IN nodes' = done.nodes /\ open' = done.open /\ cache' = done.cache
            /\ UNCHANGED <<result, path>>
  /\ rev' = rev + 1 /\ UNCHANGED surface

\* The list is empty; the task ends when its frames are used up.
Fail ==
  /\ result = "searching" /\ open = {}
  /\ result' = "failed" /\ UNCHANGED <<surface, nodes, open, cache, path, rev>>

Next == Iterate \/ Fail

Spec == Init /\ [][Next]_vars

-----------------------------------------------------------------------------
(* Properties. *)

NextTo (a, b) == a # b /\ Abs (a[1] - b[1]) <= 1 /\ Abs (a[2] - b[2]) <= 1

CanWalk (a, b) == NextTo (a, b) /\ b \notin Impassable /\ CanEnter (b, surface[a])

RECURSIVE Reachable (_)

Reachable (S) ==
  LET more == {b \in Tile : b \in S \/ \E a \in S : CanWalk (a, b)}
  IN IF more = S THEN S ELSE Reachable (more)

\* A path that is found can be walked: each tile of it is next to the one before,
\* neither a hole nor forbidden, nor too high, and the last one is in the goal area.
PathIsWalkable ==
  result = "found" =>
    LET all == <<Start>> \o path
    IN /\ \A i \in 1 .. Len (path) : CanWalk (all[i], all[i + 1]) \/ (i = 1 /\ path = <<Start>>)
       /\ VerifyGoal ([pos |-> Last (path), z |-> surface[Last (path)]])

\* When the search runs out of nodes there is no way to the goal, although it
\* never looks back: what it leaves out is reached from another tile.
NoWayLeft ==
  result = "failed" =>
    \A t \in Reachable ({Start}) : ~ VerifyGoal ([pos |-> t, z |-> surface[t]])
=============================================================================
