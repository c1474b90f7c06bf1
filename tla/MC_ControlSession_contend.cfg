SPECIFICATION Spec
CONSTANTS
  c1 = c1
  c2 = c2
  Controllers <- TwoControllers
  Interrupts = TRUE
  Kills = TRUE
  SeqSpace = 2
  MaxCommands = 2
  MaxFrames = 2
INVARIANTS
  AwaitedAnswerIsOwn
  SessionIsSound
PROPERTIES
  AttemptsEnd
CHECK_DEADLOCK FALSE
