--------------------------- MODULE MCFileSystem ---------------------------
(* A boot image with 3-byte blocks: a directory entry, a 7-byte file      *)
(* whose blocks are out of order (2, 0, 1), a file of exactly one block,  *)
(* and an empty file; reads of -1, 0, 1, 2 and 4 bytes, so that reads     *)
(* start, end and cross at every offset within a block.                    *)
EXTENDS FileSystem, TLC

MCLength == <<7, 3, 0>>  \* inodes 1..3 stand for inode numbers 0..2
MCInodeData == << (0 :> 2 @@ 1 :> 0 @@ 2 :> 1),
                  (0 :> 1 @@ 1 :> 2 @@ 2 :> 0),
                  (0 :> 0 @@ 1 :> 0 @@ 2 :> 0) >>
MCDentries ==
  << [name |-> ".", type |-> "dir", inode |-> 1],
     [name |-> "frame0", type |-> "file", inode |-> 1],
     [name |-> "ls", type |-> "file", inode |-> 2],
     [name |-> "empty", type |-> "file", inode |-> 3] >>
MCNames == {".", "frame0", "ls", "empty", "nofile"}
MCCounts == {-1, 0, 1, 2, 4}
=============================================================================
