SPECIFICATION KeystoreSpec
CONSTANTS
  Instances = {i1, i2}
  Manual <- NoManual
  Keep = 2
  HandKeeps = {1, 2, 3}
  Fresh = TRUE
  MaxKeys = 3
  MaxCrashes = 1
  MaxByHand = 1
  MaxFailures = 2
  Free = Free
PROPERTIES ScheduledRotationsAreKept OnlyAgedKeysRotate NeverBackToOldKeys AgedKeyIsReplaced PollCatchesUp
