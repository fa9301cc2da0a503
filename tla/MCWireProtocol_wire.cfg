\* Two calls, keys that are replaced, arrays that are reused, limits of a datagram.
SPECIFICATION Spec
CONSTANTS
  s1 = s1  s2 = s2
  k1 = k1  k2 = k2  k3 = k3  k4 = k4  k5 = k5
  n1 = n1  n2 = n2
  None = None
  Refused = Refused
  Tenants <- MCTenants
  ApiKeys <- MCApiKeys
  Names = {n1, n2}
  Requests <- MCRequests
  Policies <- MCPolicies
  Reports = {0, 34, 35, 36}
  UInt32 = {0, 1, 2, 8}
  MaxRequests = 2
  MaxAnswered = 2
INVARIANTS
  PacketIsWhole
  SealedWithCurrentKey
  ResultIsTheDecision
CHECK_DEADLOCK FALSE
