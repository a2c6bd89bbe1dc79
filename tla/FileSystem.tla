----------------------------- MODULE FileSystem -----------------------------
(***************************************************************************)
(* The file system of lab 3 (src/os21-lab3/done): a table of open files    *)
(* over a disk image that is only read.  A program makes one call after    *)
(* the other; what can go wrong is a long sequence of calls, a boundary, a *)
(* failing read of the disk, or the code's own undefined behaviour.        *)
(*                                                                         *)
(* A byte is named by its address on the disk, so that a buffer is a       *)
(* sequence of addresses, with STALE where nothing has been written.       *)
(* Sizes that make an uint32_t wrap are left out.                          *)
(***************************************************************************)
EXTENDS Inodes, FiniteSets

CONSTANTS
  Inode,                      \* the inodes of the image, by their id
  Root,                       \* the id of the root directory
  Paths,                      \* sequences of names
  MAX_OPEN_FILES,
  Sizes,                      \* the sizes and offsets that programs pass
  WildOffsets,                \* what lies behind an inode, read as an offset
  STALE

Ids == DOMAIN Inode

(* An index that is a multiple of the block size is behind the array, except 0. *)
ASSUME FileSystemAssumption ==
  /\ NULL \notin Ids
  /\ Root \in Ids /\ Inode[Root].is_directory
  /\ DISK_BLK_SIZE \in Nat /\ MAX_DATA_BLOCKS_PER_INODE \in 1 .. DISK_BLK_SIZE
  /\ MAX_OPEN_FILES \in Nat \ {0}
  /\ Sizes \subseteq Nat /\ WildOffsets \subseteq Nat

(* The image is one that generate_test_fs.py writes, of names that fit in their field,
   on a disk that is not full: the children of a directory are inodes, a file has no more than its blocks, and the blocks
   it uses are blocks of the disk. *)
ASSUME ImageAssumption ==
  /\ DISK_CAPACITY_BYTES \in Nat
  /\ \A p \in Paths : Len(p) \in Nat
  /\ \A i \in Ids :
       IF Inode[i].is_directory THEN Inode[i].children \in Seq(Ids)
       ELSE /\ Inode[i].size \in 0 .. MAX_DATA_BLOCKS_PER_INODE * DISK_BLK_SIZE
            /\ \A n \in 0 .. MAX_DATA_BLOCKS_PER_INODE - 1 :
                 LET block == Inode[i].data_block_offsets[n]
                 IN  /\ block \in Nat
                     /\ n * DISK_BLK_SIZE < Inode[i].size =>
                          /\ block % DISK_BLK_SIZE = 0
                          /\ block + DISK_BLK_SIZE <= DISK_CAPACITY_BYTES

VARIABLES
  the_disk,          \* whether the image is open, so that the pointer is not NULL
  open_file_table,   \* for each descriptor the inode and the seek offset
  last,              \* history: the last call, its arguments and its result
  aborted            \* undefined behaviour has ended the program

vars == <<the_disk, open_file_table, last, aborted>>

FDs == 0 .. MAX_OPEN_FILES - 1

Call == [op : {"none", "disk", "open", "close", "seek", "read"}, of : Ids \cup {NULL},
         ret : Nat \cup {-1}, from : Nat, size : Sizes \cup {0},
         buffer : Seq(Nat \cup {STALE}), failed : BOOLEAN]

FileIds == {i \in Ids : ~Inode[i].is_directory}

(* Types, and the seek offset of an open file is in the file. *)
TypeOK ==
  /\ the_disk \in BOOLEAN
  /\ open_file_table \in [FDs -> [inode : FileIds \cup {NULL}, seek_offset : Nat]]
  /\ \A fd \in FDs :
       LET i == open_file_table[fd].inode
       IN  i # NULL => \/ open_file_table[fd].seek_offset < Inode[i].size
                       \/ open_file_table[fd].seek_offset = 0
  /\ last \in Call
  /\ aborted \in BOOLEAN

NoCall == [op |-> "none", of |-> NULL, ret |-> 0, from |-> 0, size |-> 0,
           buffer |-> <<>>, failed |-> FALSE]

Init ==
  /\ the_disk = FALSE
  /\ open_file_table = [fd \in FDs |-> [inode |-> NULL, seek_offset |-> 0]]
  /\ last = NoCall
  /\ aborted = FALSE

Returns(call) ==
  /\ ~aborted
  /\ last' = call
  /\ UNCHANGED aborted

Fails(call) == Returns([call EXCEPT !.ret = -1]) /\ UNCHANGED <<the_disk, open_file_table>>

(* The program ends in undefined behaviour: a NULL pointer, a division by 0, or
   a pointer behind an array. *)
Crashes == ~aborted /\ aborted' = TRUE /\ UNCHANGED <<the_disk, open_file_table, last>>

-----------------------------------------------------------------------------
(* The image is opened once; open(2) may fail. *)
open_emu_disk ==
  LET call == [NoCall EXCEPT !.op = "disk"]
  IN  \/ /\ ~the_disk
         /\ the_disk' = TRUE
         /\ Returns(call)
         /\ UNCHANGED open_file_table
      \/ Fails(call)

(* Open files stay in the table. *)
close_emu_disk ==
  \/ /\ the_disk
     /\ the_disk' = FALSE
     /\ Returns([NoCall EXCEPT !.op = "disk"])
     /\ UNCHANGED open_file_table
  \/ ~the_disk /\ Crashes

-----------------------------------------------------------------------------
FreeSlots == {fd \in FDs : open_file_table[fd].inode = NULL}

(* Mutant: only the slots up to a free one are searched for the file. *)
IsOpen_UpToFree(i) ==
  \E fd \in FDs : /\ open_file_table[fd].inode = i
                  /\ \A g \in 0 .. fd : g \notin FreeSlots

IsOpen(i) == \E fd \in FDs : open_file_table[fd].inode = i

(* Mutant: slot 0 is not used. *)
Slot_NotFirst == {fd \in FreeSlots \ {0} : \A g \in FreeSlots : g <= fd}

(* The last free slot, if there is one. *)
Slot == {fd \in FreeSlots : \A g \in FreeSlots : g <= fd}

(* lab3_open; NULL stands for a relative path too. *)
lab3_open(path) ==
  LET i == IF path = NULL THEN NULL ELSE find_inode_by_path(Inode, Root, path)
      call == [NoCall EXCEPT !.op = "open", !.of = i]
  IN  \/ path = NULL /\ Fails(call)
      \/ path # NULL /\ ~the_disk /\ Crashes
      \/ /\ path # NULL /\ the_disk
         /\ i = NULL \/ (i # NULL /\ Inode[i].is_directory) \/ IsOpen(i) \/ Slot = {}
         /\ Fails(call)
      \/ /\ path # NULL /\ the_disk
         /\ i # NULL /\ ~Inode[i].is_directory /\ ~IsOpen(i)
         /\ \E fd \in Slot :
              /\ open_file_table' =
                   [open_file_table EXCEPT ![fd] = [inode |-> i, seek_offset |-> 0]]
              /\ Returns([call EXCEPT !.ret = fd])
         /\ UNCHANGED the_disk

Invalid(fd) == fd \notin FDs \/ fd \in FreeSlots

lab3_close(fd) ==
  \/ Invalid(fd) /\ Fails([NoCall EXCEPT !.op = "close"])
  \/ /\ ~Invalid(fd)
     /\ open_file_table' = [open_file_table EXCEPT ![fd].inode = NULL]
     /\ Returns([NoCall EXCEPT !.op = "close", !.of = open_file_table[fd].inode])
     /\ UNCHANGED the_disk

Beyond(fd, offset) == offset >= Inode[open_file_table[fd].inode].size

lab3_seek(fd, offset) ==
  LET call == [NoCall EXCEPT !.op = "seek", !.from = offset]
  IN  \/ Invalid(fd) /\ Fails(call)
      \/ ~Invalid(fd) /\ Beyond(fd, offset) /\ Fails(call)
      \/ /\ ~Invalid(fd) /\ ~Beyond(fd, offset)
         /\ open_file_table' = [open_file_table EXCEPT ![fd].seek_offset = offset]
         /\ Returns(call)
         /\ UNCHANGED the_disk

-----------------------------------------------------------------------------
(* lab3_read. *)

Aligned(offset) == (offset \div DISK_BLK_SIZE) * DISK_BLK_SIZE

check_offset_valid(off) == off < DISK_CAPACITY_BYTES /\ off % DISK_BLK_SIZE = 0

(* Whether a block is read; ok is whether pread succeeds. *)
get_block(off, ok) == check_offset_valid(off) /\ ok

(* What read_from_disk leaves in the buffer. *)
read_from_disk(addr, size, ok) ==
  IF /\ addr + size <= DISK_CAPACITY_BYTES
     /\ (addr % DISK_BLK_SIZE) + size <= DISK_BLK_SIZE
     /\ get_block(Aligned(addr), ok)
  THEN [i \in 1 .. size |-> addr + i - 1]
  ELSE [i \in 1 .. size |-> STALE]

(* data_block_offsets[n]; behind the array, what is there. *)
BlockOffset(i, n, wild) ==
  IF n < MAX_DATA_BLOCKS_PER_INODE THEN Inode[i].data_block_offsets[n] ELSE wild

(* Mutant: the offset in the first block is kept for the blocks after it. *)
Advance_KeepsOffset(r, size, block, ok) ==
  LET left == size - r.bytes_read
      crosses == left + r.offset > DISK_BLK_SIZE
      b_to_read == IF crosses THEN DISK_BLK_SIZE - r.offset ELSE left
  IN  [bytes_read |-> r.bytes_read + b_to_read,
       offset |-> r.offset,
       buffer |-> r.buffer \o read_from_disk(block + r.offset, b_to_read, ok)]

(* One turn of the loop, lines 41-66, in the block at that disk offset.  Lines
   52-58 are never reached, as line 32 has compared the end of the request with
   the end of the file. *)
Advance(r, size, block, ok) ==
  LET left == size - r.bytes_read
      crosses == left + r.offset > DISK_BLK_SIZE
      b_to_read == IF crosses THEN DISK_BLK_SIZE - r.offset ELSE left
  IN  [bytes_read |-> r.bytes_read + b_to_read,
       offset |-> 0,
       buffer |-> r.buffer \o read_from_disk(block + r.offset, b_to_read, ok)]

(* How many turns the loop makes. *)
Turns(from, size) ==
  IF size = 0 THEN 0 ELSE ((from % DISK_BLK_SIZE) + size - 1) \div DISK_BLK_SIZE + 1

(* The loop; wild are the values read behind the array, oks the outcomes of the
   reads of the disk.  The first block is that of line 36. *)
Transfer(i, from, size, wild, oks) ==
  LET turn[n \in 0 .. Turns(from, size)] ==
        IF n = 0 THEN [bytes_read |-> 0, offset |-> from % DISK_BLK_SIZE, buffer |-> <<>>]
        ELSE Advance(turn[n - 1], size, BlockOffset(i, Aligned(from) + n - 1, wild[n]), oks[n])
  IN  turn[Turns(from, size)].buffer

(* Only a read that starts behind the first block reads behind the array. *)
Wilds(from, size) ==
  IF from < DISK_BLK_SIZE THEN {[n \in 1 .. Turns(from, size) |-> NULL]}
                          ELSE [1 .. Turns(from, size) -> WildOffsets]

NewOffset(i, offset) == offset % Inode[i].size

(* A read of nothing does not use the disk. *)
lab3_read(fd, size) ==
  LET i == open_file_table[fd].inode
      from == open_file_table[fd].seek_offset
      call == [NoCall EXCEPT !.op = "read", !.of = i, !.from = from, !.size = size]
  IN  /\ ~Invalid(fd)
      /\ \/ from + size > Inode[i].size /\ Fails(call)
         \/ /\ from + size <= Inode[i].size
            /\ Inode[i].size # 0 /\ (the_disk \/ size = 0)
            /\ \E wild \in Wilds(from, size), oks \in [1 .. Turns(from, size) -> BOOLEAN] :
                 Returns([call EXCEPT !.ret = size,
                                      !.buffer = Transfer(i, from, size, wild, oks),
                                      !.failed = \E n \in DOMAIN oks : ~oks[n]])
            /\ open_file_table' =
                 [open_file_table EXCEPT ![fd].seek_offset = NewOffset(i, from + size)]
            /\ UNCHANGED the_disk
         \/ /\ from + size <= Inode[i].size
            /\ \/ from >= DISK_BLK_SIZE
               \/ Inode[i].size = 0
               \/ ~the_disk /\ size # 0
            /\ Crashes

(* The descriptor is invalid, or the buffer is NULL, whatever the descriptor. *)
ReadRefused == Fails([NoCall EXCEPT !.op = "read"])

Next ==
  \/ open_emu_disk \/ close_emu_disk
  \/ \E path \in Paths \cup {NULL} : lab3_open(path)
  \/ \E fd \in FDs \cup {-1, MAX_OPEN_FILES} :
       \/ lab3_close(fd)
       \/ \E offset \in Sizes : lab3_seek(fd, offset)
  \/ \E fd \in FDs, size \in Sizes : lab3_read(fd, size)
  \/ ReadRefused
  \/ aborted /\ UNCHANGED vars

Spec == Init /\ [][Next]_vars

-----------------------------------------------------------------------------
(* No file is open twice, in whatever order descriptors are closed and reused
   (open.c:28-38: the search for a free slot is also that for the file). *)
OpenedOnce ==
  \A fd, g \in FDs :
    open_file_table[fd].inode # NULL /\ open_file_table[fd].inode = open_file_table[g].inode
      => fd = g

(* lab3_open fails only for the reasons of fs_api.h:14-24: there is no such
   file, it is open, or the table is full; otherwise the descriptor is that of
   the file, at its first byte. *)
OpenOutcome ==
  last.op = "open" =>
    IF last.ret = -1
    THEN \/ last.of \notin FileIds
         \/ \E fd \in FDs : open_file_table[fd].inode = last.of
         \/ FreeSlots = {}
    ELSE open_file_table[last.ret] = [inode |-> last.of, seek_offset |-> 0]

FileByte(i, n) ==
  Inode[i].data_block_offsets[n \div DISK_BLK_SIZE] + (n % DISK_BLK_SIZE)

(* The types hold, and a read that starts in the first block puts the bytes of the file in the
   buffer, each in its place, over any number of block boundaries (read.c:41-66).
   In a call in which the disk has failed to deliver a block, a byte may be
   stale instead, and is never that of another place; that such a call returns a
   size at all is against fs_api.h:54-55 (read.c:60 ignores the result). *)
FirstBlockRead ==
  /\ TypeOK
  /\ last.op = "read" /\ last.ret >= 0 /\ last.from < DISK_BLK_SIZE =>
       /\ Len(last.buffer) = last.ret
       /\ \A n \in DOMAIN last.buffer :
            \/ last.buffer[n] = FileByte(last.of, last.from + n - 1)
            \/ last.failed /\ last.buffer[n] = STALE

(* "It always reads starting at the position equal to the file's seek offset"
   (handout/readme.md:413-414).  From the second block on it does not:
   read.c:36-37 takes the offset of the block for its number. *)
ReadDelivers ==
  last.op = "read" /\ last.ret >= 0 /\ ~last.failed =>
    last.buffer = [n \in 1 .. last.ret |-> FileByte(last.of, last.from + n - 1)]
=============================================================================
