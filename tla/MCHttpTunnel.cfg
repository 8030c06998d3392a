CONSTANTS
  upload = upload
  download = download
  Streams <- MCStreams
  Up <- MCUp
  Down <- MCDown
  QueueMax = 1
  BodyCap = 1
SPECIFICATION Spec
INVARIANTS
  BodiesInOrder
  EndMeansWhole
PROPERTIES
  NothingLeftOver
CHECK_DEADLOCK FALSE
