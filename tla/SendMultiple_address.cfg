CONSTANTS
  a1 = a1
  a2 = a2
  Thread = {t1}
  MaxLength = 1
  MaxBytes = 1
  Address = {a1, a2}
  PartAddress = {a1}
  NoAddress = NoAddress
  Socket <- MCSocket
  HasSendMMsg = TRUE
  Error = {"EAGAIN"}
  NoError = "0"
SPECIFICATION Spec
INVARIANT ToItsAddress
