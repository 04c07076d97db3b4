--------------------------- MODULE MCInventories ---------------------------
EXTENDS Inventories, TLC

CONSTANTS t1, t2, t3, stick, arrow, pack, belt, chest

MCKindOf == [o \in {t1, t2, t3, stick, arrow} |->
               IF o \in {t1, t2, t3} THEN "torch" ELSE o]
MCStackOf == [k \in {"torch", stick, arrow} |-> IF k = arrow THEN 1 ELSE 2]

\* The pack has two slots and the belt one; the chest grows.
MCInitSlots == (pack :> <<1, 2>>) @@ (belt :> <<3>>) @@ (chest :> <<>>)

\* A torch is recharged with a stick, which is used up; with a torch, sticks
\* are turned into arrows.
Recharge == [target |-> "torch", agent |-> stick, result |-> Self, consumes |-> TRUE]
Transform == [target |-> stick, agent |-> "torch", result |-> arrow, consumes |-> FALSE]

MCRecipes == {Recharge, Transform}
MCWearable == {"torch", arrow}

ASSUME RecipesFit

Torches == Permutations ({t1, t2, t3})
=============================================================================
