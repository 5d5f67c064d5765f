\* One program main and one test1, each with its own file system.  CHECK_DEADLOCK is
\* on: the file systems go on changing.
SPECIFICATION MemorySpec
CONSTANTS
  MainPrograms = {m1}
  Test1Programs = {t1}
INVARIANTS
  NothingLeftBehind
  OnlySparseFaults
