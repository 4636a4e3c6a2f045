SPECIFICATION FairSpec
CONSTANTS
  BPB_BytsPerSec = 2
  BPB_SecPerClus = 2
  BPB_RsvdSecCnt = 4
  BPB_NumFATs = 2
  BPB_FATSz32 = 1
  BPB_FSInfo = 1
  BPB_BkBootSec = 3
  PartStart = 1
  Word = 65536
  Layouts <- MCLayouts
  Requests <- MCRequests
  file_size <- MCFileSize
  LongMax = 100
INVARIANTS
  TypeOK
  CopyFits
  ReplyRight
PROPERTY ReadsReturn
