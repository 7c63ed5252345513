CONSTANTS
  FirstChats = 2
  Asked <- OneTwo
  MaxChats = 3
  PageSize = 2
  MaxStreams = 2
  MaxLoads = 2
  MaxClicks = 3
SPECIFICATION ChatSpec
INVARIANTS CutsOwnChat
CHECK_DEADLOCK FALSE
