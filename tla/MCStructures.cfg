SPECIFICATION Spec
CONSTANTS
  Scenes = {"areas", "chunks", "placeables", "search", "rendering", "shadows", "widgets", "files"}
  None = None
INVARIANTS LoadShowsSaved TreeAgrees BoxesFit SearchFindsWays HiddenIsHidden ShadowIsWhole CursorBetweenCharacters ReadAsWritten
PROPERTY FocusFollowsSelection
CHECK_DEADLOCK FALSE
