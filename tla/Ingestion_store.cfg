CONSTANTS
  t1 = t1  t2 = t2  exe = exe  lib = lib  null = null
  Tids <- MCTids
  Exe = exe
  Lib = lib
  NoTid = null
  RealPid = 4242
  LauncherFirst = TRUE
  Redeliverable = {"symtab"}
  MaxRedeliver = 1
  Modes = {"symtab", "abuf", "offline"}
  Sampled <- MCSampled
  BufferLast = TRUE
SPECIFICATION Spec
INVARIANTS StoreKeysUnique ThreadsResolved
