CONSTANTS
  k1 = k1  k2 = k2  lib = lib  exe = exe
  Collectors <- MCCollectors
  Libs <- MCLibs
  Exe = exe
  MaxUpdates = 3
  Args <- MCDefaultArg
SPECIFICATION Spec
INVARIANT DestroyLeavesRunning
