SPECIFICATION FairSpec
CONSTANTS
  Requests = {r1, r2}
  MaxReplacements = 1
  MaxFaults = 2
CHECK_DEADLOCK FALSE
INVARIANTS
  CompletedMeansPublished
  OnePublisher
  RowsAgreeWithGitHub
PROPERTIES
  PublishingEnds
