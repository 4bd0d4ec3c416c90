CONSTANTS
  Item = {i1, i2}
  Socket = {0, 1}
  SignBit = 4
  Monitor = {{}, {"POLLIN", "POLLOUT", "POLLERR"}}
SPECIFICATION Spec
SYMMETRY Symmetry
INVARIANTS IndInv RefusalIsTold
