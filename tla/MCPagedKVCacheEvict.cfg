CONSTANTS
  s1 = s1
  s2 = s2
  s3 = s3
  a = a
  b = b
  SeqIds = {s1, s2}
  NumBlocks = 3
  BlockSize = 2
  EnablePrefixCaching = TRUE
  Prompts <- MCPrompts
  AppendSizes <- MCAppends
  MaxTokens = 5
  MaxOrphans = 1
  Forks = FALSE
  EvictedPromptsReturn = TRUE
CHECK_DEADLOCK FALSE
SPECIFICATION Spec
INVARIANTS
  SharedOnlyByPrefix
