\* Two branches that share their counters and BTB entry, a second gshare counter reached through the history, two branches in flight.
CONSTANTS
  IndexBits = 1
  BTBBits = 1
  HistoryLength = 2
  PCs <- AliasedPCs
  Targets = {a, b}
  MaxInFlight = 2
SPECIFICATION Spec
INVARIANT TypeOK
INVARIANT LearnsAStableBranch
INVARIANT KnownTargetIsLast
INVARIANT CountsPredictions
