SPECIFICATION Spec
CONSTANTS
  MAXJOBS = 2
  MaxPid = 2
  Builtins = {"fg"}
  Keys = {"INT", "TSTP"}
INVARIANT OneForeground
