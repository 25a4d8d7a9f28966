SPECIFICATION Spec
CONSTANTS
  k1 = k1  k2 = k2  b1 = b1  b2 = b2
  Clients <- TwoClients
  Bindings <- TwoBindings
  Creds = {1, 2, 3, 4, 5, 6}
  None = None
  CodeLifetime = 1  TokenLifetime = 1
  EndOfTime = 2  MaxFamilies = 2
SYMMETRY Symmetry
INVARIANTS TypeOK PairsArePaidFor TokensHaveOwner
PROPERTIES InvalidForGood IndependentSessions
