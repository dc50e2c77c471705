CONSTANTS
  t1 = t1  t2 = t2  exe = exe  lib = lib  null = null
  Tids <- MCTids
  Exe = exe
  Lib = lib
  NoTid = null
  RealPid = 4242
  LauncherFirst = TRUE
  Redeliverable = {"loaded"}
  MaxRedeliver = 1
  Modes = {"symtab"}
  Sampled = {}
  BufferLast = TRUE
SPECIFICATION Spec
INVARIANT LoadedIdempotent
