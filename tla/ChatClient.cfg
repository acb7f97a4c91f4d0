SPECIFICATION Spec
CONSTANTS
  Ids = {c1, c2}
  Prompts = {p1, p2}
  NoText = NoText
  Nowhere = Nowhere
  MaxMessages = 4
  MaxActions = 2
PROPERTY
  HistoryIsKept
