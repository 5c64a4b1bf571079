SPECIFICATION Spec
CONSTANTS
  LinkHeaderSize = 2
  ReplySize = 2
  AuthSize = 1
  MiniSize = 2
  MaxMessages = 4
  BodySizes <- MCBodySizes
  Modifiers <- MCModifiers
  Recognised <- MCRecognised
  Buttons <- MCButtons
  Places <- MCPlaces
  Bunch = 2
  MaxEvents = 6
  Undefined = Undefined
INVARIANTS
  InStep
  ToldOnce
  MotionWindow
  GuestAgrees
PROPERTIES
  HandshakeEnds
  DeliversStream
  MotionResumes
CHECK_DEADLOCK FALSE
