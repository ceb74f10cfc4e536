SPECIFICATION FairSpec
CONSTANTS
  w1 = w1
  w2 = w2
  p1 = p1
  p2 = p2
  pr = pr
  odd = odd
  issue = issue
  NoOne = NoOne
  Workers = {w1, w2}
  Partitions = {p1, p2}
  Messages = {pr, odd, issue}
  PartitionOf <- TwoPartitions
  Kind <- MCKind
  Equipped = {w1}
  Patchers = {w1}
  MaxCopies = 1
  MaxFaults = 1
  MaxDisruptions = 1
CHECK_DEADLOCK FALSE
INVARIANTS CopiesWithinFaults IInv
PROPERTIES ProcessesThenCommits NeverStalls
