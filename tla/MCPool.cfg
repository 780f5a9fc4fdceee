SPECIFICATION FairSpec
CONSTANTS
  N = 4
  Workers = 2
INVARIANTS ClaimedOnce NoneSkippedBelowLimit AnswerIsTheWalk
PROPERTIES Implements Returns
