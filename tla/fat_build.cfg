SPECIFICATION Spec
CONSTANTS
  BPB_BytsPerSec = 32
  BPB_SecPerClus = 4
  BPB_RsvdSecCnt = 8
  BPB_NumFATs = 2
  BPB_FATSz32 = 2
  BPB_FSInfo = 1
  BPB_BkBootSec = 6
  PartStart = 2
  Word = 65536
  MaxDirBytes = 384
  DotWord = 8
  LfnCounts <- MCLfnCounts
  FileSizes <- MCFileSizes
  FatSlack = 16
  MaxScanned = 4
  MaxDepth = 3
INVARIANTS
  TypeOK
  DirectoriesPacked
  RegionsAscending
  RegionsOnDisk
  FilesReadable
  DirsReadable
  TreeKept
  PredictedInside
  DotsNamed
  LfnsComplete
PROPERTIES
  LinksStable
  FilesKept
