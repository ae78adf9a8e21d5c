CONSTANTS
  PoolThreads = 1
  MaxRequests = 2
  MaxFailures = 0
SPECIFICATION Spec
INVARIANTS UploadSeesWholePicture
CHECK_DEADLOCK FALSE
