CONSTANTS
  proc = proc
  multi = multi
  photo = photo
  logcat = logcat
  fproc = fproc
  fscreen = fscreen
  flog = flog
  Threads = {proc, multi, photo, logcat}
  Creator = creator
  NoThread = none
  Flags = {fproc, fscreen, flog}
  NoFlag = noflag
  FlagOf <- MCFlagOf
  Resets <- MCResets
  Lowers <- MCLowers
  Finite = {photo}
SPECIFICATION Spec
INVARIANTS ListIsRight DestroyedIsQuiet StopLostOnlyLate
PROPERTIES DestructorReturns IsThreadGroup
CHECK_DEADLOCK FALSE
