--------------------------------- MODULE Cat ---------------------------------
(***************************************************************************)
(* The program lab3_cat (lab3_cat.c) on the file system: it opens the      *)
(* image and the file, prints whole buffers as long as reads fill them,    *)
(* and closes what it has opened.                                          *)
(***************************************************************************)
EXTENDS FileSystem

CONSTANTS BUFFER_SIZE,   \* sizeof(buf) in lab3_cat
          MaxPrinted     \* the bound on what is printed

ASSUME CatAssumption == BUFFER_SIZE \in Sizes \ {0}

VARIABLES
  next_call, \* the next call
  path,      \* the argument
  fd, ret,   \* the descriptor, and what lab3_cat is about to return
  printed,   \* how many bytes were written to the standard output
  faulty     \* history: a read of the disk has failed

catVars == <<next_call, path, fd, ret, printed, faulty>>

CatInit ==
  /\ Init
  /\ next_call = "open_emu_disk" /\ path \in Paths
  /\ fd = -1 /\ ret = 0 /\ printed = 0 /\ faulty = FALSE

OpenDisk ==
  /\ next_call = "open_emu_disk"
  /\ open_emu_disk
  /\ next_call' = IF last'.ret < 0 THEN "exit" ELSE "lab3_open"
  /\ UNCHANGED <<path, fd, ret, printed, faulty>>

Open ==
  /\ next_call = "lab3_open"
  /\ lab3_open(path)
  /\ fd' = last'.ret
  /\ \/ fd' < 0 /\ ret' = -1 /\ next_call' = "close_emu_disk"
     \/ fd' >= 0 /\ next_call' = "lab3_read" /\ UNCHANGED ret
  /\ UNCHANGED <<path, printed, faulty>>

(* Mutant: the return after a read that fails does not close the file.        *)
AfterRead_NoClose(read_ret) ==
  \/ read_ret < 0 /\ ret' = -1 /\ next_call' = "close_emu_disk"
  \/ read_ret = BUFFER_SIZE /\ next_call' = "lab3_read" /\ UNCHANGED ret
  \/ read_ret \in 0 .. BUFFER_SIZE - 1 /\ next_call' = "lab3_close" /\ UNCHANGED ret

(* Mutant: the condition of the loop is the other way round.                 *)
AfterRead_OneBuffer(read_ret) ==
  \/ read_ret < 0 /\ ret' = -1 /\ next_call' = "lab3_close"
  \/ read_ret = BUFFER_SIZE /\ next_call' = "lab3_close" /\ UNCHANGED ret
  \/ read_ret \in 0 .. BUFFER_SIZE - 1 /\ next_call' = "lab3_read" /\ UNCHANGED ret

(* A read that fails ends lab3_cat with -1, one that does not fill the buffer  *)
(* with 0.                                                                   *)
AfterRead(read_ret) ==
  \/ read_ret < 0 /\ ret' = -1 /\ next_call' = "lab3_close"
  \/ read_ret = BUFFER_SIZE /\ next_call' = "lab3_read" /\ UNCHANGED ret
  \/ read_ret \in 0 .. BUFFER_SIZE - 1 /\ next_call' = "lab3_close" /\ UNCHANGED ret

Read ==
  /\ next_call = "lab3_read" /\ printed < MaxPrinted
  /\ lab3_read(fd, BUFFER_SIZE)
  /\ IF aborted' THEN UNCHANGED <<next_call, ret, printed, faulty>>
     ELSE /\ AfterRead(last'.ret)
          /\ printed' = IF last'.ret < 0 THEN printed ELSE printed + last'.ret
          /\ faulty' = (faulty \/ last'.failed)
  /\ UNCHANGED <<path, fd>>

Close ==
  /\ next_call = "lab3_close"
  /\ lab3_close(fd)
  /\ next_call' = "close_emu_disk"
  /\ UNCHANGED <<path, fd, ret, printed, faulty>>

CloseDisk ==
  /\ next_call = "close_emu_disk"
  /\ close_emu_disk
  /\ next_call' = "exit"
  /\ UNCHANGED <<path, fd, ret, printed, faulty>>

CatNext == OpenDisk \/ Open \/ Read \/ Close \/ CloseDisk

CatSpec == CatInit /\ [][CatNext]_<<vars, catVars>>

-----------------------------------------------------------------------------
FileSize == Inode[find_inode_by_path(Inode, Root, path)].size

(* When lab3_cat ends, nothing is left open, nothing of the file was printed *)
(* twice, and less than a buffer of it is missing unless the disk failed;    *)
(* it returns 0 only when all of the file was printed (lab3_cat.c:15-36 over *)
(* read.c).  That a file is printed to its end is CatPrintsFile.             *)
CatOutcome ==
  next_call = "exit" /\ fd >= 0 =>
    /\ ~the_disk /\ FreeSlots = FDs
    /\ printed <= FileSize
    /\ faulty \/ FileSize < printed + BUFFER_SIZE
    /\ ret = 0 => printed = FileSize

(* lab3_cat "prints the contents of a file to the standard output" and        *)
(* returns "0 on success" (lab3_cat.c:6-13).  It does not: the last read,     *)
(* of less than a buffer, is refused (read.c:32) where fs_api.h:44-46 has it *)
(* read up to the end of the file, and lab3_cat returns -1 without the rest. *)
CatPrintsFile ==
  next_call = "exit" /\ fd >= 0 /\ ~faulty => ret = 0 /\ printed = FileSize
=============================================================================
