SPECIFICATION AuditSpec
CONSTANTS
  MaxEvents = 1
  ChunkSize = 1
  MaxAuditFaults = 1
  NoOffset = NoOffset
PROPERTY PolledLinesArrive
