SPECIFICATION FairSpec
CONSTANTS
  None = None
  Cap = 5
  ChunkSizes = {0, 1, 2, 4, 7}
  PartSize = 3
  MaxBytes = 12
INVARIANTS
  TypeOK
  BufferIsBody
  OnlyWholeBodies
  SkippedOnlyAboveCap
  NoPartsAfterAck
PROPERTIES
  EndedUploadsAnswered
  ImplementsWriteThrough
\* One upload, which ends.
CHECK_DEADLOCK FALSE
