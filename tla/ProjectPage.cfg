SPECIFICATION Spec
CONSTANTS
  StopWords <- MCStopWords
  RoleWords <- MCRoleWords
  Parts <- MCParts
  TopLines = 2
  FooterLines = 12
  SectionLines = 2
  EnoughWords = 2
  Pages <- MCPages
  Opened <- MCOpened
  OwnCompany <- MCOwnCompany
  OwnRole <- MCOwnRole
  Label <- MCLabel
  MaxStarted = 3
  MaxWire = 2
INVARIANTS PageCatchesUp 
CHECK_DEADLOCK FALSE
