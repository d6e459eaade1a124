SPECIFICATION Spec
CONSTANTS
  NChannels = 2
  Levels = {0, 8, 10, 12}
  OnDb = 10
  OffDb = 6
  MinFrames = 2
  HangFrames = 3
  FrameLengths = {2}
  MaxFrames = 5
INVARIANTS
  EventsInOrder
PROPERTIES
  ImplementsSquelch
CHECK_DEADLOCK FALSE
