CONSTANTS
  s1 = s1
  s2 = s2
  t0 = t0
  t2 = t2
  t3 = t3
  t4 = t4
  sys = sys
  usr = usr
  q = q
  h1 = h1
  nt = nt
  da = da
  db = db
  States = {s1, s2}
  InitState = s1
  NoState = NoState
  Threads = {t0, t2, t3, t4}
  ThreadPid <- MCThreadPid
  UserThreads <- MCUserThreads
  Unset = Unset
  Zero = Zero
  KpcrReads = {TRUE}
  StartPids = {sys, usr}
  Pids = {}
  NoPid = NoPid
  Handles = {h1}
  Drivers = {nt}
  BootDrivers <- MCBootDrivers
  Imports <- MCImports
  Garbage = Garbage
  ReadsFail = FALSE
  Booted = TRUE
SPECIFICATION Spec
INVARIANTS
  TypeOK
  CacheFreshInUserMode
  CachedPidCurrent
