SPECIFICATION LiveSpec
CONSTANTS
  i1 = i1
  i2 = i2
  k1 = k1
  k2 = k2
  Issues = {i1, i2}
  Keys = {k1, k2}
  OwnKey <- MCOwnKey
  Answers <- MCAnswers
  Reviewers = {1, 2}
  Modes = {"realtime", "deep"}
  MaxQuoted = 1
  MaxRounds = 3
  MaxGuidance = 2
INVARIANTS LedgerConsistent FinalIsReviewed DraftOnDisk
PROPERTY DiscussionRests
CHECK_DEADLOCK FALSE
