CONSTANTS
  VocabSize = 3
  Eos = 0
  Models <- MCModels
  Prompt = 1
  K = 2
  D = 4
  Draws <- MCDraws
  MaxText = 2
  Rows = {1, 2}
  Vocabulary = {0, 1, 2}
  Runners <- MCRunners
  FirstToken = 1
  k = 2
  MaxSteps = 1
CHECK_DEADLOCK FALSE
SPECIFICATION BothSpec
INVARIANTS
  OutputFollowsTarget
  CheckedTokensFollow
PROPERTIES
  DecodesAsTarget
