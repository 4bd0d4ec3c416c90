CONSTANTS
  Item = {i1}
  Socket = {0}
  SignBit = 4
  Monitor = {{}}
SPECIFICATION Spec
INVARIANT FailureIsRefusal
