SPECIFICATION AppSpec
CONSTANTS
  Trainings = 2
  Waiters = {w1, w2}
  MaxCloses = 3
  Polls = 2
  NoCode = NoCode
INVARIANT FailedSaveKeepsWindow
CHECK_DEADLOCK FALSE
