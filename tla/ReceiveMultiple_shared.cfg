CONSTANTS
  t1 = t1
  t2 = t2
  Thread <- MCThread
  MaxLength = 2
  MaxArrivals = 4
  PartAddress = {TRUE}
  HasRecvMMsg = TRUE
  Error = {"EAGAIN"}
  NoError = "0"
SPECIFICATION Spec
SYMMETRY Symmetry
INVARIANTS IndInv ReceivedOnce
PROPERTY ReceivesBatch
