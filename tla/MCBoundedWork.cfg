SPECIFICATION WorkSpec
CONSTANTS
  Contents <- MCContents
  Rewritten <- MCRewritten
  Needles <- MCNeedles
  MaxArtifactBytes = 4
  MaxTotalArtifactBytes = 6
  ReadChunkBytes = 2
  MaxNeedleBytes = 3
  MaxRewrites = 1
  ArtifactCounts = {0, 1, 2, 3}
  Shapes <- MCShapes
  ManifestBytes = 2
  MaxScanBytes = 2
  MaxTotalBytes = 7
  MaxArtifacts = 2
  MaxFileChanges = 1
  Traces <- MCTraces
  Overheads = {1, 6, 20}
  OmittedBytes = 1
  ReasonBytes = 2
  TargetBytes = 14
  TraceBytes = 16
  e1 = e1
  e2 = e2
  e3 = e3
  Exporters <- MCExporters
  NoFile = NoFile
  Foreign = Foreign
  Members = 2
  MaxUserSteps = 2
  ObservationBytes = 2
  ChunkBytes = 4
  HasChannel = TRUE
  MaxInput = 6
SYMMETRY Sym
INVARIANTS
  VerdictExact
  PassedGateSawAll
  ForgivenScanIsBounded
  TrimExact
  ReportFaithful
  TemporaryRemoved
  WireExact
  ObservedMatchesReference
  ObservedBeforeForwarded
PROPERTIES
  PublishesAtomically
CHECK_DEADLOCK FALSE
