CONSTANTS
  Value <- MCValue
  Milliseconds = {0, 1000}
  Device <- MCDevice
  Group <- MCGroup
  Local <- MCLocal
  SourceAddress = {s1}
  MaxIndex = 1
  NoName = NoName
  NoSource = NoSource
SPECIFICATION OptionSpec
INVARIANT SendInterfaceIsSet
