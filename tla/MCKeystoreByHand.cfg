SPECIFICATION KeystoreSpec
CONSTANTS
  Instances = {i1, i2}
  Manual <- ByHand
  Keep = 2
  HandKeeps = {1, 2, 3}
  Fresh = FALSE
  MaxKeys = 3
  MaxCrashes = 0
  MaxByHand = 1
  MaxFailures = 0
  Free = Free
PROPERTIES ScheduledRotationsAreKept NeverBackToOldKeys
