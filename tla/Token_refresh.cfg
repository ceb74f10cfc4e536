SPECIFICATION FairSpec
CONSTANTS
  Callers = {c1, c2, c3}
  Installations = {i1, i2}
  TTL = 3
  Skew = 1
  MaxTime = 4
  NoToken = NoToken
  NoOne = NoOne
INVARIANTS NoWastedMint IInv
PROPERTIES NeverShortens EveryCallReturns
