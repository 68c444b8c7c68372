SPECIFICATION BoardSpec
CONSTANTS
  Users = {u1, u2}
  NoUser = NoUser
  Claims = {c1, c2}
  NoClaim = NoClaim
  Tries = {t1, t2}
  MaxPolls = 1
  Production = FALSE
  MaxFaults = 1
INVARIANT PairedUserHears
PROPERTY GuideFindsRunner
CHECK_DEADLOCK FALSE
