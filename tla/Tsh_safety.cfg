SPECIFICATION Spec
CONSTANTS
  MAXJOBS = 2
  MaxPid = 2
  Builtins = {"fg", "bg"}
  Keys = {"INT", "TSTP"}
INVARIANTS TypeOK ListMatches NoChangeMissed 
