SPECIFICATION FairSpec
CONSTANTS
  Scenes = {"windows", "conversation", "moving", "quests"}
  None = None
  Handle = {1, 2, 3, 4, 5}
  Connects <- MCConnects
  Content = {"view", "bubble", "A", "B"}
  WindowType <- MCWindowType
  Layout = {"A", "B"}
  Far <- MCFar
  FadeRate = 4
  Fades <- MCFades
  Owner <- MCOwner
  Careless = {}
  Text = {0, 1, 2, 3, 4, 5, 6, 7}
  Player = {3, 4, 5}
  Followers <- MCFollowers
  Conditional = {4}
  Loop = {4, 6}
  Listener = {1, 2, 3, 4, 5, 6, 7}
  MaxOptions = 2
  MaxPending = 3
  CharOrder <- MCCharOrder
  PlayerCharacter = {"player"}
  MaxX = 1
  Ground <- MCGround
  Ceiling = 2
  Step = 1
  JumpSpeed = 25
  Gravity = 10
  Slowdown = 10
  MinSpeed <- MCMinSpeed
  Zone = {{0}}
  Keys = {"west", "east", "south"}
  PathDirs = {{}, {"west"}}
  Walkers = {"player"}
  Start <- MCStart
  Part = {"Q", "A", "s1", "s2", "s3", "R"}
  Parent <- MCParent
  Id <- MCId
  Code <- MCCode
  Unclosed = {}
  QuestListener = {1, 2}
  Pattern <- MCPattern
  CarelessCalls = {}
INVARIANTS DialogsListen AnswersLead QuestsAgree
PROPERTIES WindowsSettle SchedulesResume CharactersAgree
