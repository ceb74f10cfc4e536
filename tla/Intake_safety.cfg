SPECIFICATION FairIntakeSpec
CONSTANTS
  w1 = w1
  w2 = w2
  p1 = p1
  i1 = i1
  i2 = i2
  t1 = t1
  t2 = t2
  late = late
  nameless = nameless
  r1 = r1
  r2 = r2
  NoOne = NoOne
  NoInstallation = NoInstallation
  NoName = NoName
  Workers = {w1, w2}
  Partitions = {p1}
  Messages = {late, nameless}
  PartitionOf <- OnePartition
  Installations = {i1, i2}
  InstallationOf <- MCInstallationOf
  Tenants = {t1, t2}
  TenantOf <- MCTenantOf
  Onboarded = {i1}
  Names = {late, NoName}
  NameOf <- MCNameOf
  Posts = {r1, r2}
  DeliveryOf <- MCDeliveryOf
  MaxPosts = 1
  TopicLimit = 2
  MaxWrites = 2
  MaxStops = 1
  MaxDays = 1
  MaxFaults = 1
  MaxDisruptions = 1
CHECK_DEADLOCK FALSE
INVARIANTS NeverMisfiled PassedIsReplayable IInv AcceptedIsOnTopic
PROPERTIES NeverOverwritten CleanStopDropsNothing ProcessesThenCommits EveryMessageArchived DrainEnds AcceptedIsArchived
