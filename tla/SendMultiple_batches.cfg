CONSTANTS
  a1 = a1
  a2 = a2
  Thread = {t1}
  MaxLength = 2
  MaxBytes = 2
  Address = {a1, a2}
  PartAddress = {a1, a2, NoAddress}
  NoAddress = NoAddress
  Socket <- MCSocket
  HasSendMMsg = TRUE
  Error = {"EAGAIN"}
  NoError = "0"
SPECIFICATION FairSpec
INVARIANTS IndInv EmulationAddresses
PROPERTIES SendsBatch CallsReturn
