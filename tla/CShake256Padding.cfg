\* Does the padding of the preamble stop at the rate?
SPECIFICATION Spec
CONSTANTS
  Rate = 4
  BufSize = 5
  UintnBytes = 3
  Strings <- MCStrings
  DataBytes = {0, 4}
  MaxPiece = 5
  OutputLens = {1}
  MaxData = 5
  Junk = 200
INVARIANT PaddingUpToRate
