SPECIFICATION Spec
CONSTANTS
  c1 = c1
  c2 = c2
  Controllers <- TwoControllers
  Interrupts = TRUE
  Kills = FALSE
  SeqSpace = 3
  MaxCommands = 2
  MaxFrames = 1
SYMMETRY ControllerSymmetry
INVARIANTS
  AnswerIsOwn
CHECK_DEADLOCK FALSE
