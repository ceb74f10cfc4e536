SPECIFICATION Spec
CONSTANTS
  w1 = w1
  w2 = w2
  r1 = r1
  r2 = r2
  t1 = t1
  t2 = t2
  push = push
  issue = issue
  check = check
  None = None
  Writers = {w1, w2}
  Relays = {r1}
  Deliveries = {push, issue}
  Tenants = {t1, t2}
  TenantOf <- MCTenantOf
  Events <- MCEvents
  BatchSize = 2
  MaxAborts = 0
  MaxFaults = 0
CHECK_DEADLOCK FALSE
INVARIANT TenantOrder
