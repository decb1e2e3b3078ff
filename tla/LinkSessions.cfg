SPECIFICATION FairSpec
CONSTANTS
  ConnectTimeout = 1
  AliveTimeout <- SomeAliveTimeout
  MaxAttempts = 2
  MaxCalls = 2
INVARIANTS LinkTypeOK OneReport MapsAgree
PROPERTIES ReportedUnlessKeptAlive HalfOpenEnds
