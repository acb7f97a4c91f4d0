SPECIFICATION Spec
CONSTANTS
  Unset = Unset
  End = 0
  Windows = {1, 3}
  Tokens <- MCTokens
  Prompts <- MCPrompts
  Limits <- MCLimits
  Best <- MCBest
  Likely <- MCLikely
  Guess <- MCGuess
INVARIANTS
  ExactTexts
  CountsAreExact
PROPERTY
  IsGeneration
CHECK_DEADLOCK FALSE
