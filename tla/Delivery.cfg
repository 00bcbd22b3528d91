SPECIFICATION FairSpec
CONSTANT
  Notices = {"first"}
INVARIANTS
  KeptOrHeard
  CopiesNeedSilence
  LettersAreEarned
PROPERTY
  EveryCallEnds
CHECK_DEADLOCK FALSE
