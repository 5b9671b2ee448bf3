CONSTANTS
  web = web
  dead = dead
  Key = {web, dead}
  Refused = {dead}
  TerLimit = 0
  LocalData = 2
  RemoteData = 1
SPECIFICATION FairSpec
CHECK_DEADLOCK FALSE
INVARIANTS OneFlowPerKey OneSiteAnswers WritesToLivingFlow
 
