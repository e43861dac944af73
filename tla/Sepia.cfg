\* None, one and two groups of four pixels, with every remainder; black, white and
\* grey images (stride 0) and images of no two equal neighbours.
CONSTANTS
  MaxPixels = 9
  Strides = {0, 37, 101}
  Firsts = {0, 128, 255}
  Sources <- MCSources
SPECIFICATION CommandSpec
INVARIANTS
  SameAsScalar
  ExitTellsResult
