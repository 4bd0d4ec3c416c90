CONSTANTS
  Native <- MCNative
  Answer <- MCAnswer
  Listing <- MCListing
  ResultsSize = 2
  Port = {65007}
  Value <- MCValue
  Milliseconds = {0, 1, 999, 1000, 2001}
  Device <- MCDevice
  Group <- MCGroup
  Local <- MCLocal
  SourceAddress = {s1}
  MaxIndex = 2
  NoName = NoName
  NoSource = NoSource
SPECIFICATION Spec
INVARIANTS ParseIsRight HashAgrees PortSurvives URIReadsBack
           OptionInv GettersTell LingerIsEnough
PROPERTIES ParseStaysInside KeepsOtherFlags ManagesWhatIsAsked
CONSTRAINT DualMatters
