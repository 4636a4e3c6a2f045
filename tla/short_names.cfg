SPECIFICATION FairSpec
CONSTANTS
  StemLength = 4
  ExtLength = 3
  Radix = 2
  CharsPerEntry = 2
  MaxLfnEntries = 20
  Folder <- MCFolder
  MaxNames = 4
INVARIANTS
  TypeOK
  ShortNamesApart
  NamesSeen
PROPERTY NamesAreFound
