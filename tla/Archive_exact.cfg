SPECIFICATION ArchiveSpec
CONSTANTS
  Numbers <- SmallNumbers
  SeqNos <- SomeSeqNos
  Texts <- SmallTexts
  Types <- SmallTypes
  Payloads <- SmallPayloads
  Overlong <- AnyOverlong
  Samples <- SmallSamples
  Levels = 4
  Write <- WriteBy
  Read <- ReadBy
  IsType <- IsTypeBy
  IsValue <- IsValueBy
  Broken <- BrokenBy
  Reported <- ReportedBy
INVARIANTS
  CoderExact
  AutoSizeExact
  VarintCoderExact
  RoundTrip
  ErrorsReported
  ErrorStaysInside
