SPECIFICATION ImportFairSpec
CONSTANTS
  i1 = i1
  i2 = i2
  h = h
  task = task
  NoValue = NoValue
  Imports <- TwoImports
  Hosted <- OneHosted
  Names <- OneName
  Settings <- SomeSettings
  MaxSteps = 2
CHECK_DEADLOCK FALSE
PROPERTIES StrangersExplained AnsweredIsFinal Answered
