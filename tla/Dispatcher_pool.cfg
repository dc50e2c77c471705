CONSTANTS
  w1 = w1  w2 = w2  w3 = w3  w4 = w4  a = a  b = b  c = c  x = x  none = none
  Workers <- MCWorkers
  Cmds <- MCCmds3
  ExitCmds <- MCExitCmds
  NoCmd = none
  EXT_MAX = 3
SPECIFICATION Spec
INVARIANTS SerializedStart CountersMatchWhileRunning
PROPERTIES WaitPrevReturns QueuedCommandsComplete ExitShutsDown
CHECK_DEADLOCK FALSE
