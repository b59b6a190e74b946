SPECIFICATION FairSpec
CONSTANTS
  c1 = c1
  c2 = c2
  home = home
  other = other
  None = None
  Clients <- MCClients
  Roots <- MCRoots
  DefaultRoot = home
  MaxSessions = 2
  MaxAgents = 2
INVARIANTS TypeOK NoAgentLost NoSessionLost SyncOnSession
PROPERTY Answered
