----------------------------- MODULE FileSystem -----------------------------
(***************************************************************************)
(* The read-only filesystem (filesystem.c) as seen through one process's  *)
(* descriptor table: open (read_dentry_by_name, add_fd), close (rem_fd),   *)
(* read dispatched to file_read (read_data and the file cursor) or         *)
(* dir_read (the directory cursor).                                        *)
(*                                                                         *)
(* The boot image never changes and each descriptor's cursor belongs to   *)
(* one process, so processes do not interact here and one process shows   *)
(* every behaviour.  A data byte is abstracted to its location <<block,    *)
(* offset>>: a byte read from the wrong block or offset is a different     *)
(* value.  The RTC file type is left to RTC.tla.                           *)
(***************************************************************************)
EXTENDS Integers, Sequences, SequencesExt

CONSTANTS
  BLOCK_SIZE,   \* bytes per data block (4096 in the code)
  INODE_DB,     \* data block slots per inode (1023 in the code)
  Length,       \* Length[ino]: inodes[ino].length
  InodeData,    \* InodeData[ino][k]: inodes[ino].inode_data[k], k in 0..INODE_DB-1
  Dentries,     \* boot_block->dir_entries[0..num_dentries-1]: [name, type, inode]
  Names,        \* file names a program may pass to open
  Counts,       \* nbytes values a program may pass to read
  FDT_SIZE

Inodes == DOMAIN Length
NumDentries == Len(Dentries)
FdIdx == 2..FDT_SIZE-1

ASSUME \A ino \in Inodes : Length[ino] <= INODE_DB * BLOCK_SIZE
ASSUME \A i \in 1..NumDentries : Dentries[i].type \in {"dir", "file"}

\* read_data's length is a uint32_t: a negative nbytes is at least 2^31,
\* beyond the end of every file.
U32(n) == IF n >= 0 THEN n ELSE 2147483647

VARIABLES
  fds,      \* fds[i]: fd_table[i] as [kind, inode, pos]; kind "none" if absent
  got,      \* history: the bytes file_read has returned on i since open
  listed    \* history: the names dir_read has returned on i since it last
            \* returned 0 or since open

vars == <<fds, got, listed>>

Absent == [kind |-> "none", inode |-> 0, pos |-> 0]

-----------------------------------------------------------------------------
(* read_data and its reference.                                            *)

\* The bytes of a file in order, from the inode's block list.
FileBytes(ino) ==
  [k \in 1..Length[ino] |->
     <<InodeData[ino][(k - 1) \div BLOCK_SIZE], (k - 1) % BLOCK_SIZE>>]

\* Mutation: at a block boundary the loop forgets to fetch the next block.
RECURSIVE ReadLoopSameBlock(_, _, _, _, _, _, _, _)
ReadLoopSameBlock(ino, offset, length, i, j, block_off, block_num, out) ==
  IF i >= length \/ offset + Len(out) >= Length[ino] THEN out
  ELSE LET cross == block_off + i >= BLOCK_SIZE
           bo == IF cross THEN -i ELSE block_off
       IN ReadLoopSameBlock(ino, offset, length, i + 1, j, bo, block_num,
                            Append(out, <<block_num, bo + i>>))

\* read_data lines 114-131: copy byte i from block_off + i of the current
\* block until length bytes or the end of the file; crossing a block
\* boundary moves to the next block of the inode and rebases block_off so
\* that block_off + i is 0 there.
RECURSIVE ReadLoop(_, _, _, _, _, _, _, _)
ReadLoop(ino, offset, length, i, j, block_off, block_num, out) ==
  IF i >= length \/ offset + Len(out) >= Length[ino] THEN out
  ELSE LET cross == block_off + i >= BLOCK_SIZE
           j2 == IF cross THEN j + 1 ELSE j
           bo == IF cross THEN -i ELSE block_off
           bn == IF cross THEN InodeData[ino][offset \div BLOCK_SIZE + j2] ELSE block_num
       IN ReadLoop(ino, offset, length, i + 1, j2, bo, bn, Append(out, <<bn, bo + i>>))

\* read_data lines 97-107: it returns -1 when the starting block index
\* is past the inode's block list.
ReadFails(ino, offset) == ino \notin Inodes \/ offset \div BLOCK_SIZE >= INODE_DB

\* read_data lines 102-113 otherwise: the bytes read (their count is
\* bytes_read).
ReadData(ino, offset, length) ==
  ReadLoop(ino, offset, length, 0, 0, offset % BLOCK_SIZE,
           InodeData[ino][offset \div BLOCK_SIZE], <<>>)

\* read_dentry_by_name lines 41-67: the entries whose name equals fname
\* (the length and strncmp tests together); the loop takes the first.  A
\* name longer than FNAME_SIZE is one no entry has.
Matches(fname) == {i \in 1..NumDentries : Dentries[i].name = fname}

-----------------------------------------------------------------------------
Init ==
  /\ fds = [i \in FdIdx |-> Absent]
  /\ got = [i \in FdIdx |-> <<>>]
  /\ listed = [i \in FdIdx |-> <<>>]

\* open lines 292-310 with add_fd (PCB.c 143-164): look the name up, take
\* the lowest absent descriptor >= 2 with position 0; file_open and
\* dir_open return 0.
Open(fname) ==
  LET free == {i \in FdIdx : fds[i].kind = "none"} IN
  /\ Matches(fname) # {}
  /\ free # {}
  /\ LET d == Dentries[Min(Matches(fname))] IN
       fds' = [fds EXCEPT ![Min(free)] = [kind |-> d.type, inode |-> d.inode, pos |-> 0]]
  /\ got' = [got EXCEPT ![Min(free)] = <<>>]
  /\ listed' = [listed EXCEPT ![Min(free)] = <<>>]

\* close lines 318-326 with rem_fd (PCB.c 171-180); the close hooks do
\* nothing.
Close(i) ==
  /\ fds[i].kind # "none"
  /\ fds' = [fds EXCEPT ![i] = Absent]
  /\ UNCHANGED <<got, listed>>

\* Mutation: the cursor advances by the count asked for.
FileReadAdvanceRequested(i, n) ==
  LET out == ReadData(fds[i].inode, fds[i].pos, U32(n)) IN
  /\ fds[i].kind = "file"
  /\ ~ReadFails(fds[i].inode, fds[i].pos)
  /\ fds' = [fds EXCEPT ![i].pos = @ + U32(n)]
  /\ got' = [got EXCEPT ![i] = @ \o out]
  /\ UNCHANGED listed

\* read (lines 253-264) into file_read (lines 205-219): read_data from
\* the cursor, then advance the cursor by what it returned.
FileRead(i, n) ==
  LET out == ReadData(fds[i].inode, fds[i].pos, U32(n)) IN
  /\ fds[i].kind = "file"
  /\ IF ReadFails(fds[i].inode, fds[i].pos)
     THEN fds' = [fds EXCEPT ![i].pos = @ - 1] /\ UNCHANGED got
     ELSE /\ fds' = [fds EXCEPT ![i].pos = @ + Len(out)]
          /\ got' = [got EXCEPT ![i] = @ \o out]
  /\ UNCHANGED listed

\* Mutation: the end test is >= instead of >.
DirReadPastEnd(i) ==
  LET pos == fds[i].pos IN
  /\ fds[i].kind = "dir"
  /\ IF pos >= NumDentries
     THEN UNCHANGED fds /\ listed' = [listed EXCEPT ![i] = <<>>]
     ELSE /\ fds' = [fds EXCEPT ![i].pos = pos + 1]
          /\ listed' = [listed EXCEPT ![i] = Append(@, Dentries[pos + 1].name)]
  /\ UNCHANGED got

\* read_dentry_by_index lines 74-95: the entry at index, or none (-1)
\* from num_dentries on.
read_dentry_by_index(index) ==
  {Dentries[k] : k \in {index + 1} \cap 1..NumDentries}

\* read into dir_read (lines 139-171): past the end return 0; otherwise
\* return the name of the entry at the cursor and advance, or, when
\* read_dentry_by_index finds none, rewind the cursor to 0 and return 0.
DirRead(i) ==
  LET pos == fds[i].pos
      found == read_dentry_by_index(pos)
  IN
  /\ fds[i].kind = "dir"
  /\ CASE pos > NumDentries ->
            UNCHANGED fds /\ listed' = [listed EXCEPT ![i] = <<>>]
       [] found # {} ->
            /\ fds' = [fds EXCEPT ![i].pos = pos + 1]
            /\ listed' = [listed EXCEPT ![i] = Append(@, (CHOOSE d \in found : TRUE).name)]
       [] OTHER ->
            fds' = [fds EXCEPT ![i].pos = 0] /\ listed' = [listed EXCEPT ![i] = <<>>]
  /\ UNCHANGED got

Next ==
  \/ \E f \in Names : Open(f)
  \/ \E i \in FdIdx :
       \/ Close(i)
       \/ DirRead(i)
       \/ \E n \in Counts : FileRead(i, n)

Spec == Init /\ [][Next]_vars

-----------------------------------------------------------------------------
MaxPos == Max({Length[ino] : ino \in Inodes} \cup {NumDentries})

TypeOK ==
  /\ fds \in [FdIdx -> [kind : {"none", "file", "dir"}, inode : Inodes \cup {0},
                        pos : 0..MaxPos]]
  /\ got \in [FdIdx -> Seq((UNION {Range(InodeData[ino]) : ino \in Inodes}) \X Int)]
  /\ listed \in [FdIdx -> Seq({Dentries[k].name : k \in 1..NumDentries})]

\* file_read: successive reads on a descriptor, of any sizes (negative
\* ones included), return the file's bytes in order from its first byte,
\* none skipped or repeated, wherever the reads cross data blocks; the
\* cursor counts exactly the bytes returned.
FileReadsSequential ==
  \A i \in FdIdx :
    fds[i].kind = "file" => got[i] = SubSeq(FileBytes(fds[i].inode), 1, fds[i].pos)

\* dir_read: the names returned since a descriptor was opened, or since
\* dir_read last returned 0, are the directory's entries in order from
\* the first, and the cursor counts them; so an ls that reads until 0
\* sees every entry once, and the next ls starts over.
DirListComplete ==
  \A i \in FdIdx :
    fds[i].kind = "dir" =>
      /\ Len(listed[i]) = fds[i].pos
      /\ listed[i] = [k \in 1..fds[i].pos |-> Dentries[k].name]

=============================================================================
