SPECIFICATION ServingSpec
CONSTANTS
  Workers = {w1, w2}
  Paths = {p1, p2}
  MaxId = 3
  ModelLimit = 2
  MaxSwaps = 1
  Nobody = Nobody
  NoPath = NoPath
  ChatNames = {c1, c2}
  Prompts = {q1, q2}
  NoText = NoText
  Nowhere = Nowhere
  MaxMessages = 4
  MaxActions = 2
SYMMETRY Symmetry
INVARIANTS SnapshotsStayValid RunsWhatWasAsked RegistryIsExact ChatsAreOrdered
