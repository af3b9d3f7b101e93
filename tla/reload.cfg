CONSTANTS
  Dirs = {d1}
  Files = {f1}
  DirOf <- MCDirOf
  Listeners = {reloader}
  Reloader = reloader
  Perishable = {}
  Keys = {k1}
  NoKey = nokey
  NoDir = nodir
  NoFile = nofile
  MaxRegister = 1
  MaxReloads = 1
SPECIFICATION FairSpec
INVARIANTS
  PendingHasFlush
PROPERTIES
  DeliveredIsReloaded
CHECK_DEADLOCK FALSE
