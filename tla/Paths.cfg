SPECIFICATION FairSpec
CONSTANTS
  NumHops = 3
  NumDesiredPaths = 1
  BuildTimeout = 1
  LatencyInterval = 1
  AliveTimeout = 2
  ReanimationTimeout = 3
  Lifetime = 4
  MaxBuilds = 1
  MaxCrashes = 1
INVARIANTS PathsTypeOK ConfirmedIsCommitted FailureReleasesHops TimedOutIsUnreachable ReadyWasHeardOf
PROPERTIES ClientExpiresFirst EverythingIsReleased
