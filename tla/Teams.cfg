SPECIFICATION FairSpec
CONSTANTS
  nRanks = 3
  Buf = 1
  max_num_teams = 4
  NUM_RESERVED_TEAMS = 2
  Programs <- HostPrograms
INVARIANTS AllOrNone Exact OneSlot OneTeamPerAxis
PROPERTIES EveryoneEnds
