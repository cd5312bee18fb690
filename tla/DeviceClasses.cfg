SPECIFICATION FairSpec
CONSTANTS
  c1 = c1
  c2 = c2
  da = da
  db = db
  dc = dc
  rel = rel
  Classes = {c1, c2}
  Candidates <- AllCandidates
  Devices = {da, db, dc, rel}
  Relative = {rel}
  OwnedKeys = {"device-class"}
  ReservedLabels = {"managed-by"}
  ChunkLimits <- Limits
  MetaLimits <- Limits
  ChunkDefault = 2
  MetaDefault = 2
  HostChunk = 2
  HostMeta = 1
  MaxUpdates = 3
  MaxErrors = 1
INVARIANTS
  AdmittedAsAssumed
  BuiltFitsConfig
  StorageClassPatchable
PROPERTIES
  
  DefaultServed
