SPECIFICATION FairSpec
CONSTANTS
  Loans = {l1, l2}
  Clients = {c1}
  ClientOf <- OneClient
  Parts = {p1, p2}
  Gone = Gone
  Marts = {m1, m2}
  Home <- AllAtHome
  Shadows <- OneAway
  MaxTx = 2
  MaxFaults = 1
INVARIANTS TypeOK FactIsOwed MartIsOwed
PROPERTY MartsCatchUp
CHECK_DEADLOCK FALSE
