SPECIFICATION Spec
CONSTANTS
  w1 = w1
  w2 = w2
  p1 = p1
  i1 = i1
  i2 = i2
  t1 = t1
  t2 = t2
  usual = usual
  late = late
  nameless1 = nameless1
  nameless2 = nameless2
  NoOne = NoOne
  NoInstallation = NoInstallation
  NoName = NoName
  Workers = {w1, w2}
  Partitions = {p1}
  Messages = {usual}
  PartitionOf <- OnePartition
  Installations = {i1, i2}
  InstallationOf <- MCInstallationOf
  Tenants = {t1, t2}
  TenantOf <- MCTenantOf
  Onboarded = {i1}
  Names = {usual, late, NoName}
  NameOf <- MCNameOf
  MaxDays = 1
  MaxWrites = 1
  MaxFaults = 0
  MaxDisruptions = 1
CHECK_DEADLOCK FALSE
INVARIANT RedeliveriesAreNoOps
