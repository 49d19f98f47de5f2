SPECIFICATION CodecSpec
CONSTANTS
  Numbers <- FirstCalls
  SeqNos <- Only0
  Texts <- OnlyEmpty
  Types <- SmallTypes
  Payloads <- OnlyEmpty
  Overlong <- AnyOverlong
INVARIANT VarintRoundTrip
