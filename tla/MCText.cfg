\* The parser: a cap of eight units, events of three fields within and over it,
\* texts that outgrow it by up to four, in chunks of every size. The recorder:
\* one payload of any kind, or four calls of two tools within three seconds.
CONSTANTS
  LF = LF
  CR = CR
  Endpoint = Endpoint
  Message = Message
  Data = Data
  NoData = NoData
  LocalData = LocalData
  Text = Text
  MaxEvent = 8
  Streams <- MCStreams
  Symbols <- MCSymbols
  Patterns <- MCPatterns
  Hints <- MCHints
  Allowlist <- MCAllowlist
  DestinationKeys <- MCDestinationKeys
  Workloads <- MCWorkloads
  Observations <- MCObservations
  Tools = {"t", "u", "v"}
  TierForTool <- MCTierForTool
  Samples = 2
  Multiplier = 2
  BootstrapSpike = 12
  BaselineCapacity = 2
  BaselineFloor = 4
  RepeatCount = 2
  RepeatWindow = 2
  FanoutCount = 3
  EventCapacity = 3
  MaxString = 2
  ArrayHead = 1
  ArrayTail = 1
  PreviewSize = 3
  EnvelopeSize = 1
  MaxRecords = 1
SPECIFICATION TextSpec
INVARIANTS
  BytesAreKept
  EventsAreTheStreams
  EndpointIsRewritten
  NoSecretIsStored
  BurstIsFlaggedOnce
CHECK_DEADLOCK FALSE
