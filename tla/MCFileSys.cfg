SPECIFICATION Spec
CONSTANTS
  NumSectors = 10
  SectorSize = 2
  NumDirEntries = 4
  NumSlots = 4
  a = a
  c = c
  Names <- MCNames
  FileName <- MCFileName
  Handles = {h1}
  Byte = {0, 1}
  Sizes = {1}
  Counts = {2}
  Positions = {0, 2}
  Writes <- MCWrites
  Sources <- MCSources
  TransferSize = 2
  TestFile = "b2"
  TestContents <- MCTestContents
  Pieces = 2
  NULL = NULL
INVARIANTS BitmapExact
PROPERTIES FilesAreFlat
SYMMETRY MCSymmetry
VIEW StateView
