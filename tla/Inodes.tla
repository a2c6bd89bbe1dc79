------------------------------- MODULE Inodes -------------------------------
(***************************************************************************)
(* The inodes of an image of lab 3 (fs_structs.h), and what reads them     *)
(* alone: path lookup (fs_util.c) and the list of a directory (readdir.c). *)
(* An inode is found by its id, for the disk offset is a function of it.   *)
(* A name is the sequence of its bytes, a path a sequence of names.  The   *)
(* code tests is_directory for 1 or for 0; another value is NULL here.     *)
(***************************************************************************)
EXTENDS Null, Integers, Sequences, SequencesExt

CONSTANTS DISK_BLK_SIZE, DISK_CAPACITY_BYTES, MAX_DATA_BLOCKS_PER_INODE, MAX_NAME_SIZE

(* What the functions on strings find at the name of an inode.  A name that  *)
(* fills its field has no terminator: the bytes of is_directory follow, a 1  *)
(* (SOH, and zeros) for a directory and zeros for a file.                    *)
NameOf(inode) ==
  IF inode.is_directory = TRUE /\ Len(inode.name) = MAX_NAME_SIZE
    THEN Append(inode.name, "SOH") ELSE inode.name

(* The first child of a directory that has the name, or NULL.                *)
ChildNamed(inodes, i, name) ==
  IF i = NULL \/ inodes[i].is_directory # TRUE THEN NULL
  ELSE LET children == inodes[i].children
           named == {k \in DOMAIN children : NameOf(inodes[children[k]]) = name}
       IN  IF named = {} THEN NULL
           ELSE children[CHOOSE k \in named : \A j \in named : k <= j]

(* The inode at a path, or NULL: name by name from the root on.              *)
find_inode_by_path(inodes, root, path) ==
  LET at[n \in 0 .. Len(path)] ==
        IF n = 0 THEN root ELSE ChildNamed(inodes, at[n - 1], path[n])
  IN  at[Len(path)]

(* What is copied of a name: no more than fits in its field.                 *)
NameField(name) == IF Len(name) <= MAX_NAME_SIZE THEN name ELSE SubSeq(name, 1, MAX_NAME_SIZE)

(* The names of the children of a directory, or NULL.                        *)
lab3_readdir(inodes, root, path) ==
  LET dir == find_inode_by_path(inodes, root, path)
  IN  IF dir = NULL \/ inodes[dir].is_directory = FALSE THEN NULL
      ELSE [n \in DOMAIN inodes[dir].children |-> NameField(inodes[inodes[dir].children[n]].name)]
=============================================================================
