SPECIFICATION AppFairSpec
CONSTANTS
  Trainings = 2
  Waiters = {w1, w2}
  MaxCloses = 3
  Polls = 2
  NoCode = NoCode
INVARIANTS OneTrainer OneWaiter NothingLeftBehind
PROPERTY LeavingEnds
CHECK_DEADLOCK FALSE
