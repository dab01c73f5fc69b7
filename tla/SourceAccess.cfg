\* Directories are exchanged at most MaxSwaps times during the call, files without limit;
\* one write to each file.
SPECIFICATION FairSpec
CONSTANTS
  Dirs <- MCDirs
  FileObjs <- MCFiles
  Target <- MCTarget
  Top = Top
  May <- MCMay
  Start <- MCStart
  Size <- MCSize
  MaxBlocks = 2
  MaxSwaps = 2
  None = None
  root = root
  other = other
  dir = dir
  outside = outside
  foreign = foreign
  f = f
  g = g
  h = h
  i = i
  toOther = toOther
  toOutside = toOutside
  toFile = toFile
INVARIANTS BytesAreOneVersion
PROPERTIES LossIsFinal CallsEnd
