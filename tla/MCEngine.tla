------------------------------ MODULE MCEngine -------------------------------
(* Instances of Engine for TLC. *)
EXTENDS Engine, TLC

-----------------------------------------------------------------------------
(* Saved games: two maps, one serializer beside theirs, the slots for quick  *)
(* and for new saves.                                                        *)

MCPlain == <<"date">>
MCUserDirs == <<"000">>
MCSaveSlots == {-4, -2}

-----------------------------------------------------------------------------
(* Configuration: two options; texts that are empty, a number in and out of  *)
(* the range, no number, and one with an entity; files with a comment before *)
(* an option.                                                                *)

MCOptions == << <<"Video", "Scale">>, <<"Video", "Width">> >>
MCNumber == [v \in Values |->
  CASE v \in {"", "0"} -> 0 [] v = "1" -> 1 [] v = "9" -> 9 [] OTHER -> NaN]
MCPieces == [v \in Values |->
  CASE v = "" -> <<>> [] v = "a&b" -> <<"a", "&", "b">> [] OTHER -> <<v>>]
MCNumberText == [n \in {0, 1, 9} |-> CASE n = 0 -> "0" [] n = 1 -> "1" [] OTHER -> "9"]
MCRanges == {<<9, 1>>}
MCLabels == [l \in {"one", "two"} |-> IF l = "one" THEN "1" ELSE "a&b"]
Entry (k, v, c) == [key |-> k, value |-> v, comment |-> c]
MCFirstFiles ==
  {[there |-> TRUE, whole |-> TRUE,
    entries |-> <<Entry (MCOptions[1], v, "c"), Entry (MCOptions[2], w, "")>>] : v \in {"", "1"}, w \in {"1", "a&b"}}

-----------------------------------------------------------------------------
(* Two actions, four keys of which one is unknown, a button and an axis,     *)
(* mapped in all ways that share a control or leave one unmapped.            *)

MCKeyTrans == [k \in Scancode |->
  CASE k = "k82" -> "up" [] k = "k225" -> "shift" [] k = "k57" -> "caps" [] OTHER -> "unknown"]
MCFore == [a \in Axis |-> "fore"]
MCBack == [a \in Axis |-> "back"]
MCActions == <<"north", "run">>
MCDefault == [a \in {"north", "run"} |-> IF a = "north" THEN "up" ELSE "shift"]
MCConfigs == [{"north", "run"} -> {<<>>, <<"unknown">>}]
  \cup {[north |-> <<"fore">>, run |-> <<"back">>], [north |-> <<"b0">>, run |-> <<"up">>]}

\* What PlayerAlwaysObeys is proved for.
ASSUME OneControlEach == I!Unambiguous /\ ~ Flips

-----------------------------------------------------------------------------
(* Two models that share images, and a character in two colours that share    *)
(* its background, with a cache that does not take all of the images.        *)

MCImageOrder == <<"41_ff", "41_ffff", "41_ffffff", "a", "b", "c">>
MCSize == [n \in {"41_ff", "41_ffff", "41_ffffff", "a", "b", "c"} |-> IF n \in {"a", "b", "c"} THEN 1 ELSE 4]
MCGlyphFore == [g \in Glyph |-> IF g = "red A" THEN "41_ff" ELSE "41_ffff"]
MCGlyphBack == [g \in Glyph |-> "41_ffffff"]
MCModels == Permutations (Model)
MCShapeOrder == <<"stand", "walk">>
Frame (image, delay) == [image |-> image, delay |-> delay]
MCAnims ==
  [knight |-> [stand |-> <<Frame ("a", 0)>>, walk |-> <<Frame ("a", 125), Frame ("b", 125)>>],
   lamp |-> [stand |-> <<Frame ("c", 125), Frame ("a", 125)>>]]

\* What SpritesAlwaysAgree is proved for.
ASSUME ImagesAndAnimations == G!GlyphsUnique /\ G!AnimationsGoOn
=============================================================================
