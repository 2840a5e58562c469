SPECIFICATION FairSpec
CONSTANTS
  Components = {calibrate, stream}
  Versions <- MCVersions
  Metadata <- MCMetadata
  Names <- MCNames
  HintIds <- MCHintIds
  MaxInterventions = 1
INVARIANTS
  ReleaseIsConsistent
  InitNotAhead
  IInv
PROPERTIES
  YakerizeOkMeansRepacked
  VersionsOnlyRise
  ToolsEnd
