CONSTANTS
  Dirs = {d1}
  Files = {}
  DirOf <- MCDirOf
  Listeners = {reloader, editor}
  Reloader = reloader
  Perishable = {d1}
  Keys = {k1, k2, k3}
  NoKey = nokey
  NoDir = nodir
  NoFile = nofile
  MaxRegister = 1
  MaxReloads = 1
SPECIFICATION FairSpec
PROPERTIES
  WatchTakesHold
CHECK_DEADLOCK FALSE
