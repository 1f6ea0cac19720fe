\* Two uploads, two gateways, one trouble of any kind.
CONSTANTS
  MaxUploads = 2
  Gateways = 2
  Retries = 1
  MaxPlaintext = 2
  Tag = 1
  PhotoSizes <- BoundarySizes
  SessionTtl = 1
  Deadline = 0
  MaxTime = 1
  MaxTroubles = 1
  MaxReviews = 1
  MaxLoads = 2
SPECIFICATION FairSpec
INVARIANTS RecordedProofsOpen ViewerShowsOnlyThatPhoto
PROPERTIES EveryUploadEnds
CHECK_DEADLOCK FALSE
