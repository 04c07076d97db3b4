SPECIFICATION Spec
CONSTANTS
  Scenes = {"games", "configuration", "application", "sounds", "devices", "sprites"}
  None = None
  Plain <- MCPlain
  Map = {"town", "wood"}
  StartMap = "town"
  UserDirs <- MCUserDirs
  MaxVersion = 1
  MaxTainted = 1
  MaxEnds = 1
  SaveSlots <- MCSaveSlots
  FindsSaves = TRUE
  Options <- MCOptions
  Values = {"", "0", "1", "9", "b", "a&b", "a", "&"}
  Given = {"", "9", "a&b"}
  NaN = 99
  Number <- MCNumber
  Pieces <- MCPieces
  NumberText <- MCNumberText
  Ranges <- MCRanges
  Labels <- MCLabels
  Comments = {"", "c"}
  FirstFiles <- MCFirstFiles
  Requests = {
    {"GFX", "INPUT", "GUI"}, {"PYTHON", "EVENT", "RPG"}, {"GFX", "AUDIO", "WORLD"}, {"EVENT", "GUI"},
    {"PYTHON", "EVENT", "GFX", "INPUT", "AUDIO", "RPG", "WORLD", "GUI"}}
  Hosted = FALSE
  MaxCalls = 3
  Sounds = {"s1", "s2"}
  SoundFiles = {"f1", "f2"}
  Channels = {0, 1}
  Brief = {}
  Gone = Gone
  MaxPlays = 3
  Scancode = {"k82", "k225", "k57", "k101"}
  KeyTrans <- MCKeyTrans
  Button = {"b0"}
  Axis = {0}
  Fore <- MCFore
  Back <- MCBack
  CapsLock = "k57"
  Actions <- MCActions
  Default <- MCDefault
  Configs <- MCConfigs
  MaxQueue = 2
  Flips = FALSE
  ImageOrder <- MCImageOrder
  Size <- MCSize
  CacheSize = 3
  WordSize = 8
  Model = {m1, m2}
  ShapeOrder <- MCShapeOrder
  Anims <- MCAnims
  SpriteFiles = {"knight", "lamp"}
  Second = 125
  Pinned = {"c"}
  MaxPins = 1
  Glyph = {"red A", "yellow A"}
  GlyphFore <- MCGlyphFore
  GlyphBack <- MCGlyphBack
INVARIANTS LoadRestores TypesAlive ChannelsAgree PlayerObeys CacheAgrees
PROPERTY SettingsKept
SYMMETRY MCModels
CHECK_DEADLOCK FALSE
