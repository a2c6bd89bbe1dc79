-------------------------------- MODULE Image --------------------------------
(***************************************************************************)
(* How an image is made (generate_test_fs.py): a directory of the host is  *)
(* written to the disk with everything under it, each inode and each data  *)
(* block at the first place that is free.  A step is one entry of a        *)
(* directory.  A check that fails ends the program, and what it has        *)
(* written is of no account.  A name is the sequence of its bytes in UTF-8, *)
(* which the kernel, the image and path lookup have; Python counts its     *)
(* characters.                                                             *)
(***************************************************************************)
EXTENDS Inodes, FiniteSets

CONSTANTS
  HostEntries,            \* what the host holds: [name, kind, size, entries]
  Hosts,                  \* the directories of it that are written
  INODE_SIZE,
  DEFAULT_INODE_BLOCKS,   \* the value with which the layout is computed
  InodeBlocks,            \* what --inode-blocks may be
  HostPaths,              \* the paths that are looked up when the image is done
  CONTINUATION            \* the bytes that continue a character

(* The names in a directory differ, and are UTF-8 (one that is not ends the  *)
(* program in encode, generate_test_fs.py:85).  No path that is looked up    *)
(* has the character SOH, with which path lookup would continue some names   *)
(* (NameOf).                                                                 *)
ASSUME HostAssumption ==
  /\ Hosts \subseteq HostEntries /\ \A h \in Hosts : h.kind = "dir"
  /\ \A e \in HostEntries :
       /\ e.name \in Seq(STRING)
       /\ e.kind = "file" => e.size \in Nat
       /\ e.kind = "dir" =>
            /\ e.entries \in Seq(HostEntries)
            /\ \A i, j \in DOMAIN e.entries : e.entries[i].name = e.entries[j].name => i = j
  /\ NULL \notin HostEntries \cup Nat /\ CONTINUATION \subseteq STRING
  /\ \A path \in HostPaths :
       /\ path \in Seq(Seq(STRING))
       /\ \A n \in DOMAIN path : \A i \in DOMAIN path[n] : path[n][i] # "SOH"
  /\ DISK_BLK_SIZE \in Nat \ {0} /\ INODE_SIZE \in Nat \ {0}
  /\ {DISK_CAPACITY_BYTES, DEFAULT_INODE_BLOCKS, MAX_NAME_SIZE, MAX_DATA_BLOCKS_PER_INODE} \subseteq Nat

INODE_BLOCKS_OFFSET == 3 * DISK_BLK_SIZE
DATA_BLOCKS_OFFSET == INODE_BLOCKS_OFFSET + DEFAULT_INODE_BLOCKS * DISK_BLK_SIZE
NUM_DATA_BLOCKS == DISK_CAPACITY_BYTES \div DISK_BLK_SIZE - 3 - DEFAULT_INODE_BLOCKS
MAX_INODES == (DEFAULT_INODE_BLOCKS * DISK_BLK_SIZE) \div INODE_SIZE

VARIABLES
  host,               \* the directory that is written
  NUM_INODE_BLOCKS,   \* the argument of the program
  calls,              \* of write_tree: [inode_id, name, entries, children]
  INODE_BITMAP,       \* the inodes that are reserved
  DNODE_BITMAP,       \* the data blocks that are reserved
  inodes,             \* those written, by their id
  data,               \* what each data block holds: the n-th block of a file
  result              \* "writing", "done" or "error"

imageVars == <<host, NUM_INODE_BLOCKS, calls, INODE_BITMAP, DNODE_BITMAP, inodes, data, result>>

Opened(inode_id, entry) ==
  [inode_id |-> inode_id, name |-> entry.name, entries |-> entry.entries, children |-> <<>>]

(* main: the inode of the root is reserved first.                            *)
ImageInit(hosts, inode_blocks) ==
  /\ host \in hosts
  /\ NUM_INODE_BLOCKS \in inode_blocks
  /\ calls = <<Opened(0, host)>>
  /\ INODE_BITMAP = {0} /\ DNODE_BITMAP = {}
  /\ inodes = <<>> /\ data = <<>>
  /\ result = "writing"

Innermost == Last(calls)
Entry == Head(Innermost.entries)
Writing(kind) == result = "writing" /\ Innermost.entries # <<>> /\ Entry.kind = kind
Done(call) == [call EXCEPT !.entries = Tail(@)]
-----------------------------------------------------------------------------
(* The first inode, or data block, that is free, if there is one.            *)
FreeIn(range, bitmap) == {i \in range \ bitmap : \A j \in 0 .. i - 1 : j \in bitmap}

reserve_inode_space == FreeIn(0 .. MAX_INODES - 1, INODE_BITMAP)
FreeBlock == FreeIn(0 .. NUM_DATA_BLOCKS - 1, DNODE_BITMAP)

(* len(name) in the generator.                                               *)
Characters(name) == Cardinality({i \in DOMAIN name : name[i] \notin CONTINUATION})

(* The checks of write_inode_header.                                         *)
HeaderFits(inode_id, name) ==
  /\ Characters(name) <= MAX_NAME_SIZE
  /\ inode_id * INODE_SIZE < NUM_INODE_BLOCKS * DISK_BLK_SIZE

(* What the file system finds where an inode is written.  A name of more     *)
(* bytes than its field moves the fields behind it: is_directory is a part   *)
(* of the name, neither 0 nor 1, so that nothing is found in the inode, and  *)
(* the name ends at the flag of a file but not at that of a directory (as in *)
(* NameOf).  What is read as its size or its children is left out.           *)
Written(inode) ==
  IF Len(inode.name) <= MAX_NAME_SIZE THEN inode
  ELSE [name |-> IF inode.is_directory THEN Append(inode.name, "SOH") ELSE inode.name,
        is_directory |-> NULL, children |-> <<>>]

(* The inodes with one more, at its id.                                      *)
WithInode(id, inode) ==
  [k \in DOMAIN inodes \cup {id} |-> IF k = id THEN Written(inode) ELSE inodes[k]]

Stops ==
  /\ result' = "error"
  /\ UNCHANGED <<host, NUM_INODE_BLOCKS, calls, INODE_BITMAP, DNODE_BITMAP, inodes, data>>

BlocksOf(size) == (size + DISK_BLK_SIZE - 1) \div DISK_BLK_SIZE

(* Mutant: one block of the file is not marked.                              *)
write_file_data_OneFree(file, i) ==
  LET n == BlocksOf(file.size)
  IN  /\ DNODE_BITMAP' = DNODE_BITMAP \cup (i .. i + n - 2)
      /\ data' = [b \in DOMAIN data \cup (i .. i + n - 1) |->
                    IF b \in i .. i + n - 1 THEN [file |-> file, nth |-> b - i] ELSE data[b]]

(* The data goes to the blocks from i on, whatever the size of the disk.     *)
write_file_data(file, i) ==
  LET n == BlocksOf(file.size)
  IN  /\ DNODE_BITMAP' = DNODE_BITMAP \cup (i .. i + n - 1)
      /\ data' = [b \in DOMAIN data \cup (i .. i + n - 1) |->
                    IF b \in i .. i + n - 1 THEN [file |-> file, nth |-> b - i] ELSE data[b]]

FileInode(file, i) ==
  [name |-> file.name, is_directory |-> FALSE, size |-> file.size,
   data_block_offsets |->
     [n \in 0 .. MAX_DATA_BLOCKS_PER_INODE - 1 |->
        IF n * DISK_BLK_SIZE < file.size
          THEN DATA_BLOCKS_OFFSET + (i + n) * DISK_BLK_SIZE ELSE 0]]

(* The checks of write_file for a file at block i and with inode id.         *)
FileFits(file, i, id) ==
  /\ file.size <= MAX_DATA_BLOCKS_PER_INODE * DISK_BLK_SIZE
  /\ (i .. i + BlocksOf(file.size) - 1) \cap DNODE_BITMAP = {}
  /\ HeaderFits(id, file.name)

(* write_file: the data first, then the inode.                               *)
WriteFile ==
  /\ Writing("file")
  /\ \E i \in FreeBlock, id \in reserve_inode_space :
       /\ FileFits(Entry, i, id)
       /\ write_file_data(Entry, i)
       /\ INODE_BITMAP' = INODE_BITMAP \cup {id}
       /\ inodes' = WithInode(id, FileInode(Entry, i))
       /\ calls' = Append(Front(calls), [Done(Innermost) EXCEPT !.children = Append(@, id)])
  /\ UNCHANGED <<host, NUM_INODE_BLOCKS, result>>

FileFails ==
  /\ Writing("file")
  /\ \A i \in FreeBlock, id \in reserve_inode_space : ~FileFits(Entry, i, id)
  /\ Stops

(* A directory: its inode is reserved, and written after its children.       *)
EnterDirectory ==
  /\ Writing("dir")
  /\ \E id \in reserve_inode_space :
       /\ INODE_BITMAP' = INODE_BITMAP \cup {id}
       /\ calls' = Append(Append(Front(calls), Done(Innermost)), Opened(id, Entry))
  /\ UNCHANGED <<host, NUM_INODE_BLOCKS, DNODE_BITMAP, inodes, data, result>>

DirectoryFails == Writing("dir") /\ reserve_inode_space = {} /\ Stops

(* Mutant: the directory is not made a child of the one it is in.            *)
Parent_Forgets(id) == Front(calls)

(* The callers, with a new child of the innermost one.                       *)
Parent(id) ==
  IF Len(calls) = 1 THEN <<>>
  ELSE Append(Front(Front(calls)), [calls[Len(calls) - 1] EXCEPT !.children = Append(@, id)])

(* write_directory_inode, after the last entry; that of the root is the end.  *)
LeaveDirectory ==
  /\ result = "writing" /\ Innermost.entries = <<>>
  /\ HeaderFits(Innermost.inode_id, Innermost.name)
  /\ Len(Innermost.children) <= MAX_DATA_BLOCKS_PER_INODE
  /\ inodes' = WithInode(Innermost.inode_id,
                         [name |-> Innermost.name, is_directory |-> TRUE,
                          children |-> Innermost.children])
  /\ calls' = Parent(Innermost.inode_id)
  /\ result' = IF Len(calls) = 1 THEN "done" ELSE "writing"
  /\ UNCHANGED <<host, NUM_INODE_BLOCKS, INODE_BITMAP, DNODE_BITMAP, data>>

LeaveFails ==
  /\ result = "writing" /\ Innermost.entries = <<>>
  /\ ~HeaderFits(Innermost.inode_id, Innermost.name) \/ Len(Innermost.children) > MAX_DATA_BLOCKS_PER_INODE
  /\ Stops

(* A symbolic link is left out, a special file ends the program.              *)
SkipLink ==
  /\ Writing("symlink")
  /\ calls' = Append(Front(calls), Done(Innermost))
  /\ UNCHANGED <<host, NUM_INODE_BLOCKS, INODE_BITMAP, DNODE_BITMAP, inodes, data, result>>

UnknownFails == Writing("other") /\ Stops

ImageNext == \/ WriteFile \/ FileFails \/ EnterDirectory \/ DirectoryFails
             \/ LeaveDirectory \/ LeaveFails \/ SkipLink \/ UnknownFails

ImageSpec == ImageInit(Hosts, InodeBlocks) /\ [][ImageNext]_imageVars
-----------------------------------------------------------------------------
(* The entries up to the m-th that are written, in their order.              *)
Copied(entries, m) ==
  LET upTo[n \in 0 .. Len(entries)] ==
        IF n = 0 THEN <<>>
        ELSE IF entries[n].kind = "symlink" THEN upTo[n - 1]
        ELSE Append(upTo[n - 1], entries[n])
  IN  upTo[m]

(* The entry with the name, or NULL.                                         *)
HostChild(node, name) ==
  IF node = NULL \/ node.kind # "dir" THEN NULL
  ELSE LET named == {k \in DOMAIN node.entries :
                       node.entries[k].name = name /\ node.entries[k].kind # "symlink"}
       IN  IF named = {} THEN NULL ELSE node.entries[CHOOSE k \in named : TRUE]

(* The entry of the host at the first m names of a path, or NULL.             *)
HostAt(path, m) ==
  LET at[n \in 0 .. Len(path)] == IF n = 0 THEN host ELSE HostChild(at[n - 1], path[n])
  IN  at[m]

(* A directory there has a name that fills its field.                         *)
FullDirectory(path, m) == HostAt(path, m).kind = "dir" /\ Len(path[m]) = MAX_NAME_SIZE

(* The blocks of a file of the image hold its bytes, and are on the disk     *)
(* unless there is more data than the disk holds (nobody checks that the end *)
(* of the last file is on the disk, generate_test_fs.py:138-150).            *)
Holds(inode, file) ==
  \A n \in 0 .. BlocksOf(file.size) - 1 :
    LET b == (inode.data_block_offsets[n] - DATA_BLOCKS_OFFSET) \div DISK_BLK_SIZE
    IN  /\ b \in DOMAIN data /\ data[b] = [file |-> file, nth |-> n]
        /\ b < NUM_DATA_BLOCKS \/ Cardinality(DNODE_BITMAP) > NUM_DATA_BLOCKS

(* Path lookup finds every file and directory of the host and nothing else,  *)
(* a file has its size and, in blocks of its own, its bytes, a directory     *)
(* lists its entries in their order.  The exception is a directory whose     *)
(* name fills its field: it is listed, and neither it nor what is in it is   *)
(* found (generate_test_fs.py:72 accepts the name, and fs_util.c:42 compares *)
(* it beyond its field).                                                     *)
ReadsBack ==
  \A path \in HostPaths :
    LET node == HostAt(path, Len(path))
        i == find_inode_by_path(inodes, 0, path)
        hidden == node # NULL /\ \E n \in 1 .. Len(path) : FullDirectory(path, n)
    IN  IF node = NULL \/ hidden THEN i = NULL
        ELSE /\ i # NULL /\ inodes[i].name = node.name
             /\ inodes[i].is_directory = (node.kind = "dir")
             /\ IF node.kind = "file"
                  THEN inodes[i].size = node.size /\ Holds(inodes[i], node)
                  ELSE LET copied == Copied(node.entries, Len(node.entries))
                       IN  lab3_readdir(inodes, 0, path) = [n \in DOMAIN copied |-> copied[n].name]

(* MAX_NAME_SIZE "is the maximum size in bytes of the name" (fs_structs.h:16). *)
NamesFit == \A i \in DOMAIN inodes : Len(inodes[i].name) <= MAX_NAME_SIZE

(* An image that was made without an error, of names that fit in their field, *)
(* reads back (generate_test_fs.py:103-194 against fs_util.c and readdir.c),  *)
(* but for the directories with a full name (ReadsBack).  A longer name is    *)
(* not always refused: one of few enough characters is accepted (:72), though *)
(* its bytes are written over the fields behind it (:85), and the image does  *)
(* not read back.                                                             *)
ImageReadsBack == result = "done" /\ NamesFit => ReadsBack
=============================================================================
