SPECIFICATION FairSpec
CONSTANTS
  MAXJOBS = 2
  MaxPid = 3
  Builtins = {}
  Keys = {"INT"}
INVARIANT PromptWithoutForeground
PROPERTIES JobsStay ZombiesReaped WaitEnds
