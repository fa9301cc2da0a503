\* Keys at the edges of the quotas, foreign payloads, one slip in copying.
SPECIFICATION Spec
CONSTANTS
  NotPower = NotPower
  Unlimited = Unlimited
  Refused = Refused
  None = None
  Keys <- MCKeys
  Published <- MCPublished
  Foreign <- MCForeign
  Codes <- MCCodes
  MaxDamages = 1
INVARIANTS
  KeyOrRefusal
  AcceptedIsCanonical
  ChecksumIsRemainder
CHECK_DEADLOCK FALSE
