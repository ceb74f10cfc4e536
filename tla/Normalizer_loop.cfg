SPECIFICATION FairSpec
CONSTANTS
  w1 = w1
  w2 = w2
  p1 = p1
  p2 = p2
  t1 = t1
  t2 = t2
  push = push
  review = review
  poison = poison
  ping = ping
  late = late
  NoOne = NoOne
  Workers = {w1, w2}
  Partitions = {p1, p2}
  Messages = {push, review, late, poison, ping}
  Anonymous = {late}
  PartitionOf <- TwoPartitions
  Kind <- MCKind
  Events <- MCEvents
  TenantOf <- MCTenantOf
  Tenants = {t1, t2}
  Onboarded = {t1}
  MaxCopies = 2
  MaxWrites = 2
  MaxFaults = 1
  MaxDisruptions = 1
CHECK_DEADLOCK FALSE
INVARIANTS OneRowPerEvent DeadLetteredHasNoEffect IInv
PROPERTIES AppliesWholeDeliveries ProcessesThenCommits EveryMessageSettles
