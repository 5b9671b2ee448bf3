CONSTANTS
  web = web
  dead = dead
  Key = {web, dead}
  Refused = {dead}
  TerLimit = 0
  LocalData = 2
  RemoteData = 1
SPECIFICATION Spec
CHECK_DEADLOCK FALSE
INVARIANT ReadsPackets
