SPECIFICATION FairSpec
CONSTANTS
  a = a
  b = b
  c = c
  Procs = {p1, p2}
  NoProc = NoProc
  Packages = {a, b}
  Size <- MCSizes
  MaxSize = 1
  Low = 1
  MinDuration = 1
  DownloadTimeout = 2
  AgeCap = 2
  MaxDirs = 3
INVARIANTS CacheTypeOK IndexedIsComplete CopiedIsWhole TotalCoversIndex
PROPERTIES WaitEnds
