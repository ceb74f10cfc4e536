SPECIFICATION FairSpec
CONSTANTS
  w1 = w1
  w2 = w2
  r1 = r1
  r2 = r2
  t1 = t1
  t2 = t2
  push = push
  issue = issue
  check = check
  None = None
  Writers = {w1, w2}
  Relays = {r1, r2}
  Deliveries = {push, check}
  Tenants = {t1, t2}
  TenantOf <- MCTenantOf
  Events <- MCEvents
  BatchSize = 2
  MaxAborts = 1
  MaxFaults = 2
CHECK_DEADLOCK FALSE
INVARIANTS StampedIsPublished CopiesWithinFaults EventsInOrder SafetyInv
PROPERTIES NeverAfterStamp EventuallyStamped
