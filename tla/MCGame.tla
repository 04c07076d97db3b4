------------------------------- MODULE MCGame --------------------------------
(* Instances of Game for TLC. *)
EXTENDS Game

-----------------------------------------------------------------------------
(* A view of the world with a speech bubble and two dialogs. No distance is  *)
(* a multiple of the rate: a window would slide in for ever. Listeners of    *)
(* layouts hear devices, that of the script everything; a layout needs a     *)
(* second one when it has the focus again.                                   *)

MCWindowType == [c \in Content |->
  CASE c = "view" -> "WORLD_VIEW" [] c = "bubble" -> "WORLD_RELATIVE" [] OTHER -> "DIALOG"]
MCFar == [c \in Content |-> [d \in {"LEFT", "RIGHT", "TOP", "BOTTOM"} |-> IF c = "A" THEN 5 ELSE 3]]
MCFades == [c \in Content |->
  CASE c = "A" -> {"NONE", "LEFT"} [] c = "B" -> {"TOP"} [] OTHER -> {"NONE"}]
MCOwner == <<"A", "A", "B", "B", None>>
MCConnects == [l \in Handle |-> IF l = 5 THEN {"device", "control"} ELSE {"device"}]

-----------------------------------------------------------------------------
(* A greeting (1), two questions that are asked once (3) or with a condition *)
(* (4), a farewell (5), one of two lines at random (2, 6) that lead back to  *)
(* the questions, and a line that nothing follows (7).                       *)

MCFollowers == [t \in Text |->
  CASE t = 0 -> <<1>> [] t \in {1, 2, 6} -> <<3, 4, 5>> [] t \in {3, 4} -> <<2, 6>>
    [] t = 5 -> <<7>> [] t = 7 -> <<>>]

-----------------------------------------------------------------------------
(* A player and another character on a floor with a step.                    *)

MCCharOrder == <<"player", "npc">>
MCStart == [c \in {"player", "npc"} |-> IF c = "player" THEN 0 ELSE 1]
MCGround == [x \in 0 .. MaxX |-> x]
MCMinSpeed == -10

-----------------------------------------------------------------------------
(* A quest with a step and a part of two steps, completed by either of them, *)
(* and a quest that is a step itself. Steps of different parts have the same *)
(* name. The first listener hears of one part, the second of all parts of    *)
(* parts.                                                                    *)

MCParent == [p \in Part |->
  CASE p \in {"Q", "R"} -> None [] p \in {"A", "s3"} -> "Q" [] OTHER -> "A"]
MCId == [p \in Part |-> IF p = "s3" THEN "s1" ELSE p]
MCCode == [p \in Part |-> IF p = "Q" THEN {{"A"}, {"s3"}} ELSE {}]
MCPattern == << <<"Q", "*">>, <<">">> >>
=============================================================================
