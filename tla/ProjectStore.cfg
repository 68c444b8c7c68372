SPECIFICATION MCSpec
CONSTANTS
  Docs = {d1, d2, d3}
  Requests = {r1}
  Jobs = {j1}
  First <- FirstList
  Lists <- AllLists
  MaxRequests = 3
  LateRequests = FALSE
  Crashes = TRUE
  NoFile = NoFile
  NoDoc = NoDoc
  Ids = {u1, u2}
  Text = Text
  Pin = Pin
  Files <- MCFiles
  ChunkSize = 2
  MaxBytes = 4
SYMMETRY Symmetry
INVARIANTS
  DocumentsHaveFiles
  AnswerFollowsQuestion
  ChoicesKept
  ReadyIsCurrent
  VerdictIsTrue
  FailureHasReason
CHECK_DEADLOCK FALSE
