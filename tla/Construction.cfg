SPECIFICATION Spec
CONSTANTS
  Types <- MCTypes
  WordBits = 6
  ByteBits = 2
  Program <- MCProgram
  Main = "main"
  MaxDepth = 4
  Given <- MCGiven
  Received <- MCReceived
  Abroad = FALSE
INVARIANTS
  
  
  ReflectionFaithful
  BytesRoundTrip
PROPERTIES
  FinishesWhatWasPut
