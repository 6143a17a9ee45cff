\* Three descriptors on the image of MCFileSystem.
CONSTANTS
  BLOCK_SIZE = 3
  INODE_DB = 3
  FDT_SIZE = 5
  Length <- MCLength
  InodeData <- MCInodeData
  Dentries <- MCDentries
  Names <- MCNames
  Counts <- MCCounts

SPECIFICATION Spec

INVARIANT TypeOK FileReadsSequential DirListComplete
