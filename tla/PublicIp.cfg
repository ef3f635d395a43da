CONSTANTS
  a1 = a1
  a2 = a2
  a3 = a3
  IPs <- ThreeIPs
  None = None
  MaxEvents = 3
SPECIFICATION FairSpec
INVARIANT TypeOK
PROPERTIES NeverUnlisted Follows DeliversLatest
