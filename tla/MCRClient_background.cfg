SPECIFICATION FairSpec
CONSTANTS
  r1 = r1
  r2 = r2
  r3 = r3
  l1 = l1
  l2 = l2
  s1 = s1
  s2 = s2
  s3 = s3
  None = None
  Ops <- MCFewOps
  Reports <- MCFewReports
  Throwers = {}
  Sockets <- MCFewSockets
PROPERTIES
  BackgroundRefresh
