----------------------------- MODULE PartsProofs -----------------------------
(***************************************************************************)
(* Proofs about the parts that stand alone: the mutexes of the scheduler's *)
(* lists (LockOrder), the file system of lab 3 (FileSystem), a program     *)
(* that reads a file (Cat), the two heap allocators of lab 1 (ChunkMalloc, *)
(* ListMalloc, Malloc) and the generator of images of lab 3 (Image).       *)
(***************************************************************************)
EXTENDS Malloc, LockOrder, Cat, Image, NumberTheorems, FiniteSetTheorems, SequenceTheorems

-----------------------------------------------------------------------------
(* LockOrder, for any set of system threads.  The inductive invariant says *)
(* which mutexes a thread holds at each place of the code: at every place  *)
(* the mutex a thread is about to lock comes after those it holds in the   *)
(* order ZOMBIE, JOINING, RUNNABLE, exists.                                *)
HoldsExists == {"search", "unlock_e", "registering"}
HoldsRunnable == {"join_e", "search", "unlock_e", "unlock_r",
                  "enqueuing", "waking", "waking_first"}
HoldsJoining == {"join_r", "join_e", "search", "unlock_e", "unlock_r", "unlock_j",
                 "scan", "wake", "waking", "wake_first", "waking_first", "exit_uj"}
HoldsZombie == HoldsJoining \cup {"join_j", "unlock_z", "exit_j", "exit_uz"}

LockPlaces == {"run", "enqueue", "register", "join_z", "exit_z"}
          \cup HoldsExists \cup HoldsRunnable \cup HoldsZombie

LockTypes ==
  /\ owner \in [Locks -> Sys \cup {NULL}]
  /\ place \in [Sys -> LockPlaces]
  /\ found \in [Sys -> BOOLEAN]

Held == \A s \in Sys :
  /\ owner["ZOMBIE"] = s <=> place[s] \in HoldsZombie
  /\ owner["JOINING"] = s <=> place[s] \in HoldsJoining
  /\ owner["RUNNABLE"] = s <=> place[s] \in HoldsRunnable
  /\ owner["exists"] = s <=> place[s] \in HoldsExists

LockIInv == LockTypes /\ Held

(* At the start nobody holds a mutex.                                      *)
LEMMA InitLockIInv == LockInit => LockIInv
  BY NullAssumption DEF LockInit, LockIInv, LockTypes, Held, Locks, LockPlaces,
     HoldsExists, HoldsRunnable, HoldsJoining, HoldsZombie

(* A step takes the mutex of the place it reaches, or gives it back.       *)
LEMMA StepLockIInv == LockIInv /\ [LockNext]_lockVars => LockIInv'
<1> SUFFICES ASSUME LockIInv, [LockNext]_lockVars PROVE LockIInv'
  OBVIOUS
<1> USE NullAssumption DEF LockIInv, LockTypes, Held, Locks, LockPlaces, Goto,
        HoldsExists, HoldsRunnable, HoldsJoining, HoldsZombie,
        pthread_mutex_lock, pthread_mutex_unlock
<1>1. CASE UNCHANGED lockVars
  BY <1>1 DEF lockVars
<1>2. ASSUME NEW s \in Sys, Enter(s) PROVE LockIInv'
  BY <1>2 DEF Enter
<1>3. ASSUME NEW s \in Sys, Enqueue(s) PROVE LockIInv'
  BY <1>3 DEF Enqueue
<1>4. ASSUME NEW s \in Sys, Register(s) PROVE LockIInv'
  BY <1>4 DEF Register
<1>5. ASSUME NEW s \in Sys, lock_all_lists(s) PROVE LockIInv'
  BY <1>5 DEF lock_all_lists
<1>6. ASSUME NEW s \in Sys, LookUp(s) PROVE LockIInv'
  BY <1>6 DEF LookUp
<1>7. ASSUME NEW s \in Sys, unlock_all_lists(s) PROVE LockIInv'
  BY <1>7 DEF unlock_all_lists
<1>8. ASSUME NEW s \in Sys, lock_zombie_joining(s) PROVE LockIInv'
  BY <1>8 DEF lock_zombie_joining
<1>9. ASSUME NEW s \in Sys, Scan(s) PROVE LockIInv'
  <2>1. CASE place[s] = "scan" /\ found' = [found EXCEPT ![s] = TRUE] /\ UNCHANGED <<place, owner>>
    BY <2>1
  <2>2. CASE place[s] = "scan" /\ Goto(s, "wake") /\ UNCHANGED <<found, owner>>
    BY <2>2
  <2>3. CASE place[s] = "scan" /\ Goto(s, "wake_first") /\ UNCHANGED <<found, owner>>
    BY <2>3
  <2>4. CASE place[s] = "scan" /\ Goto(s, "exit_uj") /\ UNCHANGED <<found, owner>>
    BY <2>4
  <2> QED
    BY <1>9, <2>1, <2>2, <2>3, <2>4, Zenon DEF Scan
<1>10. ASSUME NEW s \in Sys, unblock_thread(s) PROVE LockIInv'
  BY <1>10 DEF unblock_thread
<1>11. ASSUME NEW s \in Sys, unlock_zombie_joining(s) PROVE LockIInv'
  BY <1>11 DEF unlock_zombie_joining
<1> QED
  BY <1>1, <1>2, <1>3, <1>4, <1>5, <1>6, <1>7, <1>8, <1>9, <1>10, <1>11 DEF LockNext, Step

(* The holder of the last mutex a thread waits for, in the order of the    *)
(* locks, waits for a later one or for none.                               *)
LEMMA LockIInvNoDeadlock == LockIInv => NoDeadlock
<1> SUFFICES ASSUME LockIInv, NEW s \in Sys, Waiting(s)
             PROVE \E t \in Sys, l \in Locks : owner[l] = t /\ ~Waiting(t)
  BY DEF NoDeadlock
<1> DEFINE Free(l) == owner[l] # NULL => \E t \in Sys, k \in Locks : owner[k] = t /\ ~Waiting(t)
<1>a. ASSUME NEW l \in Locks, NEW t \in Sys, owner[l] = t, Waiting(t) => Free(Wants(t))
      PROVE  Free(l)
  BY <1>a DEF Waiting
<1>b. \A l \in Locks : owner[l] \in Sys \cup {NULL}
  BY DEF LockIInv, LockTypes
<1>1. Free("exists")
  <2> SUFFICES ASSUME owner["exists"] # NULL PROVE Free("exists")
    OBVIOUS
  <2>1. PICK t \in Sys : owner["exists"] = t
    BY <1>b DEF Locks
  <2>2. place[t] \in HoldsExists
    BY <2>1 DEF LockIInv, Held
  <2>3. Wants(t) = NULL
    BY <2>2 DEF Wants, HoldsExists
  <2> QED BY <1>a, <2>1, <2>3 DEF Locks, Waiting
<1>2. Free("RUNNABLE")
  <2> SUFFICES ASSUME owner["RUNNABLE"] # NULL PROVE Free("RUNNABLE")
    OBVIOUS
  <2>1. PICK t \in Sys : owner["RUNNABLE"] = t
    BY <1>b DEF Locks
  <2>2. place[t] \in HoldsRunnable
    BY <2>1 DEF LockIInv, Held
  <2>3. Wants(t) \in {NULL, "exists"}
    BY <2>2 DEF Wants, HoldsRunnable
  <2> QED BY <1>1, <1>a, <2>1, <2>3 DEF Locks, Waiting
<1>3. Free("JOINING")
  <2> SUFFICES ASSUME owner["JOINING"] # NULL PROVE Free("JOINING")
    OBVIOUS
  <2>1. PICK t \in Sys : owner["JOINING"] = t
    BY <1>b DEF Locks
  <2>2. place[t] \in HoldsJoining
    BY <2>1 DEF LockIInv, Held
  <2>3. Wants(t) \in {NULL, "RUNNABLE", "exists"}
    BY <2>2 DEF Wants, HoldsJoining
  <2> QED BY <1>1, <1>2, <1>a, <2>1, <2>3 DEF Locks, Waiting
<1>4. Free("ZOMBIE")
  <2> SUFFICES ASSUME owner["ZOMBIE"] # NULL PROVE Free("ZOMBIE")
    OBVIOUS
  <2>1. PICK t \in Sys : owner["ZOMBIE"] = t
    BY <1>b DEF Locks
  <2>2. place[t] \in HoldsZombie
    BY <2>1 DEF LockIInv, Held
  <2>3. Wants(t) \in {NULL, "JOINING", "RUNNABLE", "exists"}
    BY <2>2 DEF Wants, HoldsZombie, HoldsJoining
  <2> QED BY <1>1, <1>2, <1>3, <1>a, <2>1, <2>3 DEF Locks, Waiting
<1>5. Wants(s) \in Locks /\ owner[Wants(s)] # NULL
  <2>1. Wants(s) \in Locks \cup {NULL}
    BY DEF Wants, Locks
  <2> QED BY <2>1 DEF Waiting
<1> QED BY <1>1, <1>2, <1>3, <1>4, <1>5 DEF Locks

(* A place that uses a list holds its mutex.                               *)
LEMMA LockIInvListsLocked == LockIInv => ListsLocked
  BY DEF LockIInv, LockTypes, Held, Locks, ListsLocked, Uses,
     HoldsExists, HoldsRunnable, HoldsJoining, HoldsZombie

(* However many system threads run, some holder of a mutex of the scheduler *)
(* can go on as long as anybody waits for one (scheduler_state.c:151-168).  *)
THEOREM SpecNoDeadlock == LockSpec => []NoDeadlock
<1>1. LockSpec => []LockIInv
  BY InitLockIInv, StepLockIInv, PTL DEF LockSpec
<1> QED
  BY <1>1, LockIInvNoDeadlock, PTL

(* However many system threads run, no list of the scheduler is used by two *)
(* of them at a time.                                                       *)
THEOREM SpecListsLocked == LockSpec => []ListsLocked
<1>1. LockSpec => []LockIInv
  BY InitLockIInv, StepLockIInv, PTL DEF LockSpec
<1> QED
  BY <1>1, LockIInvListsLocked, PTL
-----------------------------------------------------------------------------
(* FileSystem, for every image, size of the table and sequence of calls.   *)

(* The table is a table: what OpenedOnce needs of TypeOK. *)
Table ==
  /\ DOMAIN open_file_table = FDs
  /\ open_file_table = [h \in FDs |-> open_file_table[h]]
  /\ \A h \in FDs :
       open_file_table[h] = [inode |-> open_file_table[h].inode,
                              seek_offset |-> open_file_table[h].seek_offset]

IInv == Table /\ OpenedOnce

(* A descriptor that is opened for a file that is not open keeps IInv
   (open.c:27-46). *)
LEMMA OpenKeeps ==
  ASSUME IInv, NEW way \in Paths \cup {NULL}, lab3_open(way)
  PROVE  IInv'
<1> DEFINE i == IF way = NULL THEN NULL ELSE find_inode_by_path(Inode, Root, way)
<1>1. CASE UNCHANGED open_file_table
  BY <1>1 DEF IInv, Table, OpenedOnce
<1>2. ASSUME NEW h \in Slot, ~IsOpen(i),
             open_file_table' = [open_file_table EXCEPT ![h] = [inode |-> i, seek_offset |-> 0]]
      PROVE  IInv'
  <2> HIDE DEF i
  <2>1. h \in FDs
    BY DEF Slot, FreeSlots
  <2>2. Table'
    BY <1>2, <2>1 DEF IInv, Table
  <2>3. open_file_table'[h].inode = i
    BY <1>2, <2>1 DEF IInv, Table
  <2>4. ASSUME NEW g \in FDs, g # h
        PROVE  open_file_table'[g] = open_file_table[g] /\ open_file_table[g].inode # i
    BY <1>2, <2>1, <2>4 DEF IInv, Table, IsOpen
  <2>5. OpenedOnce'
    BY <2>1, <2>3, <2>4 DEF IInv, OpenedOnce
  <2> QED BY <2>2, <2>5 DEF IInv
<1> QED
  BY <1>1, <1>2 DEF lab3_open, Fails, Crashes

(* A call that changes a seek offset, or closes a descriptor, keeps IInv. *)
LEMMA OffsetKeeps ==
  ASSUME IInv, NEW h \in FDs, NEW n,
         open_file_table' = [open_file_table EXCEPT ![h].seek_offset = n]
  PROVE  IInv'
<1>1. \A g \in FDs : open_file_table'[g].inode = open_file_table[g].inode
  BY DEF IInv, Table
<1>2. Table'
  BY DEF IInv, Table
<1> QED
  BY <1>1, <1>2 DEF IInv, OpenedOnce

LEMMA CloseKeeps ==
  ASSUME IInv, NEW h \in FDs,
         open_file_table' = [open_file_table EXCEPT ![h].inode = NULL]
  PROVE  IInv'
<1>1. open_file_table'[h].inode = NULL
  BY DEF IInv, Table
<1>2. \A g \in FDs \ {h} : open_file_table'[g].inode = open_file_table[g].inode
  BY DEF IInv, Table
<1>3. Table'
  BY DEF IInv, Table
<1> QED
  BY <1>1, <1>2, <1>3 DEF IInv, OpenedOnce

LEMMA StepKeeps == IInv /\ [Next]_vars => IInv'
<1> SUFFICES ASSUME IInv, [Next]_vars PROVE IInv'
  OBVIOUS
<1>1. CASE UNCHANGED open_file_table
  BY <1>1 DEF IInv, Table, OpenedOnce
<1>2. ASSUME NEW way \in Paths \cup {NULL}, lab3_open(way) PROVE IInv'
  BY <1>2, OpenKeeps
<1>3. ASSUME NEW h, lab3_close(h) PROVE IInv'
  BY <1>1, <1>3, CloseKeeps DEF lab3_close, Fails, Invalid
<1>4. ASSUME NEW h, NEW offset \in Sizes, lab3_seek(h, offset) PROVE IInv'
  BY <1>1, <1>4, OffsetKeeps DEF lab3_seek, Fails, Invalid
<1>5. ASSUME NEW h \in FDs, NEW size \in Sizes, lab3_read(h, size) PROVE IInv'
  <2>1. CASE open_file_table' =
               [open_file_table EXCEPT ![h].seek_offset =
                  NewOffset(open_file_table[h].inode, open_file_table[h].seek_offset + size)]
    BY <2>1, OffsetKeeps
  <2> QED
    BY <1>1, <1>5, <2>1 DEF lab3_read, Fails, Crashes
<1>6. CASE ReadRefused
  BY <1>1, <1>6 DEF ReadRefused, Fails
<1>7. CASE open_emu_disk \/ close_emu_disk
  BY <1>1, <1>7 DEF open_emu_disk, close_emu_disk, Fails, Crashes
<1> QED
  BY <1>1, <1>2, <1>3, <1>4, <1>5, <1>6, <1>7 DEF Next, vars

(* No file is open twice (open.c:28-38). *)
THEOREM NoFileOpenTwice == Spec => []OpenedOnce
<1>1. Init => IInv
  BY DEF Init, IInv, Table, OpenedOnce
<1>2. IInv => OpenedOnce
  BY DEF IInv
<1> QED
  BY <1>1, <1>2, StepKeeps, PTL DEF Spec
-----------------------------------------------------------------------------
(* The search of open.c:28-38 ends with a slot if there is a free one.       *)
LEMMA SlotIfFree == FreeSlots # {} => Slot # {}
<1> SUFFICES ASSUME FreeSlots # {} PROVE Slot # {}
  OBVIOUS
<1> DEFINE T == {MAX_OPEN_FILES - h : h \in FreeSlots}
<1>1. FreeSlots \subseteq FDs /\ MAX_OPEN_FILES \in Nat
  BY FileSystemAssumption DEF FreeSlots
<1>2. T \subseteq Nat /\ T # {}
  <2>1. ASSUME NEW h \in FreeSlots PROVE MAX_OPEN_FILES - h \in Nat
    BY <1>1, h \in FDs DEF FDs
  <2> QED
    BY <2>1
<1>3. PICK n \in T : \A m \in T : n <= m
  <2> HIDE DEF T
  <2> QED
    BY <1>2, LeastNumber
<1>4. PICK h \in FreeSlots : n = MAX_OPEN_FILES - h
  BY <1>3
<1>5. ASSUME NEW g \in FreeSlots PROVE g <= h
  <2>1. MAX_OPEN_FILES - g \in T
    OBVIOUS
  <2>2. ~(MAX_OPEN_FILES - g < n)
    BY <1>2, <1>3, <2>1
  <2> QED
    BY <1>1, <1>4, <2>2 DEF FDs
<1> QED
  BY <1>5 DEF Slot

(* A call that opens a file has its outcome, whatever was open before.       *)
LEMMA OpenHasOutcome ==
  ASSUME IInv, OpenOutcome, NEW way \in Paths \cup {NULL}, lab3_open(way)
  PROVE  OpenOutcome'
<1> DEFINE i == IF way = NULL THEN NULL ELSE find_inode_by_path(Inode, Root, way)
           call == [NoCall EXCEPT !.op = "open", !.of = i]
<1>1. CASE UNCHANGED <<open_file_table, last>>
  BY <1>1 DEF OpenOutcome, FreeSlots
<1>2. ASSUME last' = [call EXCEPT !.ret = -1], UNCHANGED open_file_table,
             i = NULL \/ (i # NULL /\ Inode[i].is_directory) \/ IsOpen(i) \/ Slot = {}
      PROVE  OpenOutcome'
  <2> HIDE DEF i
  <2>1. last'.op = "open" /\ last'.of = i /\ last'.ret = -1
    BY <1>2 DEF NoCall
  <2>2. CASE i \notin FileIds
    BY <2>1, <2>2 DEF OpenOutcome
  <2>3. CASE IsOpen(i)
    BY <1>2, <2>1, <2>3 DEF OpenOutcome, IsOpen
  <2>4. CASE Slot = {}
    BY <1>2, <2>1, <2>4, SlotIfFree DEF OpenOutcome, FreeSlots
  <2>5. i = NULL \/ Inode[i].is_directory => i \notin FileIds
    BY FileSystemAssumption DEF FileIds
  <2> QED
    BY <1>2, <2>2, <2>3, <2>4, <2>5
<1>3. ASSUME NEW h \in Slot, last' = [call EXCEPT !.ret = h],
             open_file_table' = [open_file_table EXCEPT ![h] = [inode |-> i, seek_offset |-> 0]]
      PROVE  OpenOutcome'
  <2> HIDE DEF i
  <2>1. h \in FDs /\ h # -1
    BY FileSystemAssumption DEF Slot, FreeSlots, FDs
  <2>2. last'.of = i /\ last'.ret = h
    BY <1>3 DEF NoCall
  <2>3. open_file_table'[h] = [inode |-> i, seek_offset |-> 0]
    BY <1>3, <2>1 DEF IInv, Table
  <2> QED
    BY <2>1, <2>2, <2>3 DEF OpenOutcome
<1>4. CASE way = NULL /\ Fails(call)
  BY <1>2, <1>4 DEF Fails, Returns
<1> QED
  BY <1>1, <1>2, <1>3, <1>4 DEF lab3_open, Fails, Returns, Crashes

(* Every other call has no outcome of open to keep.                          *)
LEMMA StepHasOutcome == IInv /\ OpenOutcome /\ [Next]_vars => OpenOutcome'
<1> SUFFICES ASSUME IInv, OpenOutcome, [Next]_vars PROVE OpenOutcome'
  OBVIOUS
<1>1. CASE UNCHANGED <<open_file_table, last>>
  BY <1>1 DEF OpenOutcome, FreeSlots
<1>2. CASE last'.op # "open"
  BY <1>2 DEF OpenOutcome
<1>3. ASSUME NEW way \in Paths \cup {NULL}, lab3_open(way) PROVE OpenOutcome'
  BY <1>3, OpenHasOutcome
<1>4. ASSUME NEW h, lab3_close(h) PROVE OpenOutcome'
  BY <1>2, <1>4 DEF lab3_close, Fails, Returns, NoCall
<1>5. ASSUME NEW h, NEW offset \in Sizes, lab3_seek(h, offset) PROVE OpenOutcome'
  BY <1>2, <1>5 DEF lab3_seek, Fails, Returns, NoCall
<1>6. ASSUME NEW h \in FDs, NEW size \in Sizes, lab3_read(h, size) PROVE OpenOutcome'
  <2>1. CASE Crashes
    BY <1>1, <2>1 DEF Crashes
  <2>2. CASE last'.op = "read"
    BY <1>2, <2>2
  <2> QED
    BY <1>6, <2>1, <2>2 DEF lab3_read, Fails, Returns, NoCall
<1>7. CASE ReadRefused
  BY <1>2, <1>7 DEF ReadRefused, Fails, Returns, NoCall
<1>8. CASE open_emu_disk \/ close_emu_disk
  BY <1>1, <1>2, <1>8 DEF open_emu_disk, close_emu_disk, Fails, Returns, Crashes, NoCall
<1> QED
  BY <1>1, <1>3, <1>4, <1>5, <1>6, <1>7, <1>8 DEF Next, vars

(* Opening fails only for its reasons (fs_api.h:14-24, open.c:13-47).        *)
THEOREM OpenFailsForAReason == Spec => []OpenOutcome
<1>1. Init => IInv /\ OpenOutcome
  BY DEF Init, IInv, Table, OpenedOnce, OpenOutcome, NoCall
<1> QED
  BY <1>1, StepKeeps, StepHasOutcome, PTL DEF Spec
-----------------------------------------------------------------------------
(* Path lookup finds an inode of the image, or nothing. *)
LEMMA ChildFound ==
  ASSUME NEW i \in Ids \cup {NULL}, NEW name
  PROVE  ChildNamed(Inode, i, name) \in Ids \cup {NULL}
<1> DEFINE children == Inode[i].children
           named == {k \in DOMAIN children : NameOf(Inode[children[k]]) = name}
<1> SUFFICES ASSUME i # NULL, Inode[i].is_directory, named # {}
             PROVE  children[CHOOSE k \in named : \A j \in named : k <= j] \in Ids
  BY DEF ChildNamed
<1>1. children \in Seq(Ids)
  BY ImageAssumption
<1>2. named \subseteq DOMAIN children /\ DOMAIN children \subseteq Nat
  BY <1>1
<1>3. \E k \in named : \A j \in named : k <= j
  <2> HIDE DEF named
  <2> QED BY <1>2, LeastNumber
<1> HIDE DEF children, named
<1>4. (CHOOSE k \in named : \A j \in named : k <= j) \in named
  BY <1>3
<1> QED BY <1>1, <1>2, <1>4

LEMMA PathFound ==
  ASSUME NEW way \in Paths
  PROVE  find_inode_by_path(Inode, Root, way) \in Ids \cup {NULL}
<1> DEFINE N == Len(way)
           V == Ids \cup {NULL}
           F == [n \in 1 .. N |-> [v \in V |-> ChildNamed(Inode, v, way[n])]]
           StepTo(g, n) == IF n = 0 THEN Root ELSE ChildNamed(Inode, g[n - 1], way[n])
           at == CHOOSE g : g = [n \in 0 .. N |-> StepTo(g, n)]
<1>1. N \in Nat /\ Root \in V
  BY ImageAssumption, FileSystemAssumption
<1>2. F \in [1 .. N -> [V -> V]]
  BY ChildFound
<1>3. PICK f : Iterates(f, N, V, Root, F)
  <2> HIDE DEF N, V, F
  <2> QED BY <1>1, <1>2, Recursion
<1>4. ASSUME NEW n \in 0 .. N PROVE f[n] = StepTo(f, n)
  <2>1. CASE n = 0
    BY <1>3, <2>1 DEF Iterates
  <2>2. CASE n # 0
    <3>1. n \in 1 .. N /\ n - 1 \in 0 .. N
      BY <1>1, <2>2
    <3>2. f[n - 1] \in V
      BY <1>3, <3>1 DEF Iterates
    <3> QED BY <1>3, <2>2, <3>1, <3>2 DEF Iterates
  <2> QED BY <2>1, <2>2
<1>5. f = [n \in 0 .. N |-> StepTo(f, n)]
  BY <1>3, <1>4 DEF Iterates
<1>6. at = [n \in 0 .. N |-> StepTo(at, n)]
  BY <1>5
<1>7. find_inode_by_path(Inode, Root, way) = at[N]
  BY DEF find_inode_by_path
<1> DEFINE T == {n \in Nat : n <= N => at[n] \in V}
<1> HIDE DEF at
<1>8. 0 \in T
  BY <1>1, <1>6
<1>9. ASSUME NEW n \in Nat, n \in T PROVE n + 1 \in T
  <2> SUFFICES ASSUME n + 1 <= N PROVE at[n + 1] \in V
    OBVIOUS
  <2>1. at[n] \in V /\ n + 1 \in 0 .. N /\ n + 1 # 0 /\ (n + 1) - 1 = n
    BY <1>1, <1>9
  <2>2. at[n + 1] = ChildNamed(Inode, at[n], way[n + 1])
    BY <1>6, <2>1
  <2> QED BY <2>1, <2>2, ChildFound
<1>10. N \in T
  <2> HIDE DEF T, N
  <2> QED BY <1>1, <1>8, <1>9, Induction
<1> QED BY <1>1, <1>7, <1>10
-----------------------------------------------------------------------------
(* What a buffer holds. *)
Data == Nat \cup {STALE}

(* A read of the disk puts as many bytes in the buffer as it was asked for. *)
LEMMA DiskFills ==
  ASSUME NEW addr \in Nat, NEW size \in Nat, NEW ok
  PROVE  /\ read_from_disk(addr, size, ok) \in Seq(Data)
         /\ Len(read_from_disk(addr, size, ok)) = size
<1>1. \A k \in 1 .. size : addr + k - 1 \in Nat
  OBVIOUS
<1>2. [k \in 1 .. size |-> addr + k - 1] \in Seq(Data)
      /\ Len([k \in 1 .. size |-> addr + k - 1]) = size
  BY <1>1 DEF Data
<1>3. [k \in 1 .. size |-> STALE] \in Seq(Data) /\ Len([k \in 1 .. size |-> STALE]) = size
  BY DEF Data
<1> QED BY <1>2, <1>3 DEF read_from_disk

BytesFrom(addr, size, ok) ==
  IF ok THEN [k \in 1 .. size |-> addr + k - 1] ELSE [k \in 1 .. size |-> STALE]

(* Within a block of the disk it delivers the bytes of the block, or nothing. *)
LEMMA DiskDelivers ==
  ASSUME NEW block \in Nat, block % DISK_BLK_SIZE = 0,
         block + DISK_BLK_SIZE <= DISK_CAPACITY_BYTES,
         NEW offset \in 0 .. DISK_BLK_SIZE - 1, NEW size \in Nat,
         offset + size <= DISK_BLK_SIZE, NEW ok \in BOOLEAN
  PROVE  read_from_disk(block + offset, size, ok) = BytesFrom(block + offset, size, ok)
<1> DEFINE addr == block + offset
           B == DISK_BLK_SIZE
           q == block \div B
<1>1. B \in Nat \ {0} /\ DISK_CAPACITY_BYTES \in Nat
  BY FileSystemAssumption, ImageAssumption
<1>2. q \in Nat /\ block = q * B
  <2>1. q \in Nat /\ block = (block \div B) * B + (block % B)
    BY <1>1, DivModNat
  <2> QED BY <2>1, <1>1
<1> HIDE DEF q, B
<1>3. addr \div B = q /\ addr % B = offset
  <2>1. (q * B + offset) \div B = q /\ (q * B + offset) % B = offset
    BY <1>1, <1>2, DivMod DEF B
  <2> QED BY <1>2, <2>1
<1>4. Aligned(addr) = block
  BY <1>2, <1>3 DEF Aligned, B
<1>5. check_offset_valid(block)
  BY <1>1 DEF check_offset_valid, B
<1>6. addr + size <= DISK_CAPACITY_BYTES
  BY <1>1 DEF B
<1>7. (addr % DISK_BLK_SIZE) + size <= DISK_BLK_SIZE
  BY <1>3 DEF B
<1> QED BY <1>4, <1>5, <1>6, <1>7 DEF read_from_disk, get_block, BytesFrom

(* One turn of the loop. *)
Turn(size) == [bytes_read : 0 .. size, offset : 0 .. DISK_BLK_SIZE - 1, buffer : Seq(Data)]

(* How much a turn reads: it stays in the block and in the buffer. *)
OneTurn(size, B, read, offset, b) ==
  /\ size \in Nat /\ B \in Nat \ {0} /\ read \in 0 .. size /\ offset \in 0 .. B - 1
  /\ b = IF (size - read) + offset > B THEN B - offset ELSE size - read

TurnStays(size, B, read, offset, b) ==
  b \in Nat /\ offset \in Nat /\ read + b \in 0 .. size /\ offset + b <= B

LEMMA TurnSize ==
  ASSUME NEW size, NEW B, NEW read, NEW offset, NEW b, OneTurn(size, B, read, offset, b)
  PROVE  TurnStays(size, B, read, offset, b)
<1>1. CASE (size - read) + offset > B
  BY <1>1 DEF OneTurn, TurnStays
<1>2. CASE ~((size - read) + offset > B)
  BY <1>2 DEF OneTurn, TurnStays
<1> QED BY <1>1, <1>2

LEMMA TurnFits ==
  ASSUME NEW size \in Nat, NEW r \in Turn(size), NEW b,
         b = IF (size - r.bytes_read) + r.offset > DISK_BLK_SIZE THEN DISK_BLK_SIZE - r.offset
             ELSE size - r.bytes_read
  PROVE  /\ b \in Nat /\ r.bytes_read + b \in 0 .. size /\ r.offset + b <= DISK_BLK_SIZE
         /\ r.offset \in Nat
<1>1. DISK_BLK_SIZE \in Nat \ {0}
  BY FileSystemAssumption
<1>2. r.bytes_read \in 0 .. size /\ r.offset \in 0 .. DISK_BLK_SIZE - 1
  BY DEF Turn
<1>3. OneTurn(size, DISK_BLK_SIZE, r.bytes_read, r.offset, b)
  BY <1>1, <1>2 DEF OneTurn
<1> QED BY <1>3, TurnSize DEF TurnStays

LEMMA TurnType ==
  ASSUME NEW size \in Nat, NEW r \in Turn(size), NEW block \in Nat, NEW ok
  PROVE  Advance(r, size, block, ok) \in Turn(size)
<1> DEFINE left == size - r.bytes_read
           b == IF left + r.offset > DISK_BLK_SIZE THEN DISK_BLK_SIZE - r.offset ELSE left
           d == read_from_disk(block + r.offset, b, ok)
<1>1. DISK_BLK_SIZE \in Nat \ {0}
  BY FileSystemAssumption
<1>2. r.bytes_read \in 0 .. size /\ r.offset \in 0 .. DISK_BLK_SIZE - 1 /\ r.buffer \in Seq(Data)
  BY DEF Turn
<1>3. b \in Nat /\ r.bytes_read + b \in 0 .. size /\ block + r.offset \in Nat
  <2>1. b \in Nat /\ r.bytes_read + b \in 0 .. size
    <3>1. b = IF (size - r.bytes_read) + r.offset > DISK_BLK_SIZE THEN DISK_BLK_SIZE - r.offset ELSE size - r.bytes_read
      OBVIOUS
    <3> HIDE DEF b, left
    <3> QED BY <3>1, TurnFits
  <2>2. r.offset \in Nat
    BY <1>1, <1>2
  <2> HIDE DEF b
  <2> QED BY <2>1, <2>2
<1>4. d \in Seq(Data)
  <2> HIDE DEF b
  <2> QED BY <1>3, DiskFills
<1>5. Advance(r, size, block, ok) =
        [bytes_read |-> r.bytes_read + b, offset |-> 0, buffer |-> r.buffer \o d]
  BY DEF Advance
<1> HIDE DEF b, d
<1>6. r.buffer \o d \in Seq(Data)
  BY <1>2, <1>4
<1> QED BY <1>1, <1>3, <1>5, <1>6, SMTT(30) DEF Turn

(* The loop makes as many turns as the request touches blocks. *)
LEMMA TurnsCover ==
  ASSUME NEW from \in Nat, NEW size \in Nat
  PROVE  /\ Turns(from, size) \in Nat
         /\ from % DISK_BLK_SIZE \in 0 .. DISK_BLK_SIZE - 1
         /\ size = 0 => Turns(from, size) = 0
         /\ size # 0 => (from % DISK_BLK_SIZE) + size <= Turns(from, size) * DISK_BLK_SIZE
         /\ \A n \in 0 .. Turns(from, size) - 1 :
              n * DISK_BLK_SIZE < (from % DISK_BLK_SIZE) + size
<1> DEFINE B == DISK_BLK_SIZE
           o == from % B
           T == Turns(from, size)
           x == o + size - 1
           q == x \div B
<1>1. B \in Nat \ {0}
  BY FileSystemAssumption
<1>2. o \in 0 .. B - 1
  BY <1>1, DivModNat
<1>3. CASE size = 0
  BY <1>2, <1>3 DEF Turns
<1>4. CASE size # 0
  <2>1. x \in Nat /\ T = q + 1
    BY <1>1, <1>2, <1>4 DEF Turns
  <2> HIDE DEF x
  <2>2. q \in Nat /\ x % B \in 0 .. B - 1 /\ x = q * B + (x % B)
    BY <1>1, <2>1, DivModNat
  <2> HIDE DEF B, o, T, q
  <2>3. x = o + size - 1
    BY DEF x
  <2>4. (q + 1) * B = q * B + B
    BY <1>1, <2>2
  <2>5. o + size <= T * B
    BY <1>1, <1>2, <2>1, <2>2, <2>3, <2>4
  <2>6. ASSUME NEW n \in 0 .. T - 1 PROVE n * B < o + size
    <3>1. n \in Nat /\ n <= q
      BY <2>1, <2>2
    <3>2. n * B <= q * B /\ n * B \in Nat /\ q * B \in Nat
      BY <1>1, <2>2, <3>1
    <3> QED BY <1>1, <1>2, <2>2, <2>3, <3>2
  <2> QED BY <1>2, <1>4, <2>1, <2>2, <2>5, <2>6 DEF B, o, T
<1> QED BY <1>3, <1>4

(* After n turns, n blocks are behind the read, or it is done. *)
Progress(r, n, o, size) ==
  /\ Len(r.buffer) = r.bytes_read
  /\ \/ o + r.bytes_read = n * DISK_BLK_SIZE + r.offset
     \/ r.bytes_read = size /\ o + size <= n * DISK_BLK_SIZE

LEMMA TurnProgress ==
  ASSUME NEW size \in Nat, NEW r \in Turn(size), NEW block \in Nat, NEW ok,
         NEW n \in Nat, NEW o \in Nat, n * DISK_BLK_SIZE < o + size, Progress(r, n, o, size)
  PROVE  Progress(Advance(r, size, block, ok), n + 1, o, size)
<1> DEFINE B == DISK_BLK_SIZE
           left == size - r.bytes_read
           b == IF left + r.offset > B THEN B - r.offset ELSE left
           d == read_from_disk(block + r.offset, b, ok)
           a == Advance(r, size, block, ok)
<1>1. B \in Nat \ {0}
  BY FileSystemAssumption
<1>2. r.bytes_read \in 0 .. size /\ r.offset \in 0 .. B - 1 /\ r.buffer \in Seq(Data)
  BY DEF Turn
<1>3. b \in Nat /\ block + r.offset \in Nat
  <2>1. b = IF (size - r.bytes_read) + r.offset > DISK_BLK_SIZE THEN DISK_BLK_SIZE - r.offset ELSE size - r.bytes_read
    OBVIOUS
  <2> HIDE DEF b, left, B
  <2>2. b \in Nat /\ r.offset \in Nat
    BY <2>1, TurnFits
  <2> QED BY <2>2
<1>4. d \in Seq(Data) /\ Len(d) = b
  <2> HIDE DEF b
  <2> QED BY <1>3, DiskFills
<1>5. a.bytes_read = r.bytes_read + b /\ a.offset = 0 /\ a.buffer = r.buffer \o d
  BY DEF Advance
<1> HIDE DEF d, a
<1>6. Len(a.buffer) = a.bytes_read
  <2>1. Len(r.buffer \o d) = Len(r.buffer) + Len(d)
    BY <1>2, <1>4, Appended, Zenon
  <2> QED BY <1>4, <1>5, <2>1 DEF Progress
<1>7. o + r.bytes_read = n * B + r.offset
  <2> HIDE DEF B
  <2>1. r.bytes_read = size /\ o + size <= n * B => FALSE
    <3>1. n * B \in Nat /\ n * B < o + size
      BY <1>1 DEF B
    <3> QED BY <1>1, <3>1
  <2> QED BY <2>1 DEF Progress, B
<1>8. (n + 1) * B = n * B + B /\ n * B \in Nat
  BY <1>1
<1>9. CASE left + r.offset > B
  <2>1. b = B - r.offset
    BY <1>9
  <2> HIDE DEF B, b, left
  <2>2. o + a.bytes_read = (n + 1) * B + a.offset
    <3>1. PICK m \in Nat : m = n * B
      BY <1>8
    <3>2. o + r.bytes_read = m + r.offset /\ (n + 1) * B = m + B
      BY <1>7, <1>8, <3>1
    <3>3. r.bytes_read \in Nat /\ r.offset \in Nat /\ B \in Nat /\ b \in Int
      BY <1>1, <1>2, <2>1
    <3>4. o + (r.bytes_read + b) = m + B
      BY <2>1, <3>2, <3>3
    <3>5. m + B = m + B + a.offset
      BY <1>5, <3>3
    <3> QED BY <1>5, <3>2, <3>4, <3>5
  <2> QED BY <1>6, <2>2 DEF Progress, a, B
<1>10. CASE ~(left + r.offset > B)
  <2>1. b = size - r.bytes_read /\ size - r.bytes_read + r.offset <= B
    BY <1>1, <1>2, <1>10
  <2> HIDE DEF B, b, left
  <2>2. a.bytes_read = size /\ o + size <= (n + 1) * B
    <3>1. PICK m \in Nat : m = n * B
      BY <1>8
    <3>2. o + r.bytes_read = m + r.offset /\ (n + 1) * B = m + B
      BY <1>7, <1>8, <3>1
    <3>3. r.bytes_read \in Nat /\ r.offset \in Nat /\ B \in Nat
      BY <1>1, <1>2
    <3>4. o + size <= m + B
      BY <2>1, <3>2, <3>3
    <3>5. a.bytes_read = size
      BY <1>5, <2>1, <3>3
    <3> QED BY <3>2, <3>4, <3>5
  <2> QED BY <1>6, <2>2 DEF Progress, a, B
<1> QED BY <1>9, <1>10

(* A block that the loop asks for has an offset. *)
LEMMA BlockIsNumber ==
  ASSUME NEW i \in FileIds, NEW from \in Nat, NEW size \in Nat,
         from + size <= Inode[i].size,
         NEW wild \in Wilds(from, size), NEW n \in 1 .. Turns(from, size)
  PROVE  /\ BlockOffset(i, Aligned(from) + n - 1, wild[n]) \in Nat
         /\ from < DISK_BLK_SIZE =>
              LET block == BlockOffset(i, Aligned(from) + n - 1, wild[n])
              IN  /\ block = Inode[i].data_block_offsets[n - 1]
                  /\ block % DISK_BLK_SIZE = 0
                  /\ block + DISK_BLK_SIZE <= DISK_CAPACITY_BYTES
<1> DEFINE B == DISK_BLK_SIZE
           M == MAX_DATA_BLOCKS_PER_INODE
           q == from \div B
           o == from % B
           T == Turns(from, size)
<1>1. B \in Nat \ {0} /\ M \in 1 .. B /\ WildOffsets \subseteq Nat
  BY FileSystemAssumption
<1>2. q \in Nat /\ o \in 0 .. B - 1 /\ from = q * B + o
  BY <1>1, DivModNat
<1>3. T \in Nat /\ n - 1 \in 0 .. T - 1 /\ (n - 1) * B < o + size
  <2>1. T \in Nat /\ \A k \in 0 .. T - 1 : k * B < o + size
    BY TurnsCover
  <2> HIDE DEF T
  <2>2. n \in 1 .. T
    BY DEF T
  <2>3. n - 1 \in 0 .. T - 1
    BY <2>1, <2>2
  <2> QED BY <2>1, <2>3
<1>4. i \in Ids /\ ~Inode[i].is_directory
  BY DEF FileIds
<1>5. Aligned(from) = q * B
  BY DEF Aligned
<1>6. CASE from < B
  <2>1. q = 0 /\ o = from
    <3> HIDE DEF B, q, o
    <3>1. CASE q >= 1
      <4>1. q * B >= B
        BY <1>1, <1>2, <3>1
      <4> QED BY <1>1, <1>2, <1>6, <4>1
    <3>2. CASE q = 0
      BY <1>1, <1>2, <3>2
    <3> QED BY <1>2, <3>1, <3>2
  <2>2. Aligned(from) + n - 1 = n - 1
    <3>1. q * B = 0
      BY <1>1, <2>1
    <3> HIDE DEF B, q
    <3> QED BY <1>3, <1>5, <3>1
  <2>3. (n - 1) * B < Inode[i].size /\ (n - 1) * B < M * B
    <3>1. Inode[i].size \in 0 .. M * B
      BY <1>4, ImageAssumption
    <3>2. PICK m \in Nat : m = (n - 1) * B
      BY <1>1, <1>3
    <3>3. PICK p \in Nat : p = M * B
      BY <1>1
    <3> HIDE DEF B, o, M
    <3>4. m < Inode[i].size
      BY <1>3, <2>1, <3>1, <3>2, <3>3
    <3>5. m < p
      BY <3>1, <3>3, <3>4
    <3> QED BY <3>2, <3>3, <3>4, <3>5
  <2>4. n - 1 \in 0 .. M - 1
    <3>1. n - 1 < M
      BY <1>1, <1>3, <2>3, FewerBlocks
    <3> QED BY <1>1, <1>3, <3>1
  <2>5. BlockOffset(i, Aligned(from) + n - 1, wild[n]) = Inode[i].data_block_offsets[n - 1]
    BY <1>1, <2>2, <2>4 DEF BlockOffset
  <2> QED BY <1>4, <2>3, <2>4, <2>5, ImageAssumption
<1>7. CASE ~(from < B)
  <2>1. wild[n] \in Nat
    BY <1>1, <1>7 DEF Wilds
  <2>2. Aligned(from) + n - 1 \in Nat /\ ~(Aligned(from) + n - 1 < M)
    <3>1. q >= 1
      BY <1>1, <1>7
    <3> HIDE DEF B, q, M
    <3>2. q * B \in Nat /\ q * B >= B
      BY <1>1, <1>2, <3>1
    <3> QED BY <1>1, <1>3, <1>5, <3>2
  <2>3. BlockOffset(i, Aligned(from) + n - 1, wild[n]) = wild[n]
    BY <2>2 DEF BlockOffset
  <2> QED BY <1>7, <2>1, <2>3
<1> QED BY <1>6, <1>7

(* The states of the loop that lab3_read runs. *)
TurnsOf(turn, i, from, size, wild, oks) ==
  /\ turn \in [0 .. Turns(from, size) -> Turn(size)]
  /\ turn[0] = [bytes_read |-> 0, offset |-> from % DISK_BLK_SIZE, buffer |-> <<>>]
  /\ \A n \in 1 .. Turns(from, size) :
       turn[n] = Advance(turn[n - 1], size, BlockOffset(i, Aligned(from) + n - 1, wild[n]), oks[n])

LEMMA TransferTurns ==
  ASSUME NEW i \in FileIds, NEW from \in Nat, NEW size \in Nat,
         from + size <= Inode[i].size,
         NEW wild \in Wilds(from, size), NEW oks
  PROVE  \E turn : /\ TurnsOf(turn, i, from, size, wild, oks)
                   /\ Transfer(i, from, size, wild, oks) = turn[Turns(from, size)].buffer
<1> DEFINE N == Turns(from, size)
           V == Turn(size)
           a == [bytes_read |-> 0, offset |-> from % DISK_BLK_SIZE, buffer |-> <<>>]
           Go(r, n) ==
             Advance(r, size, BlockOffset(i, Aligned(from) + n - 1, wild[n]), oks[n])
           F == [n \in 1 .. N |-> [r \in V |-> Go(r, n)]]
           StepTo(g, n) == IF n = 0 THEN a ELSE Go(g[n - 1], n)
           at == CHOOSE g : g = [n \in 0 .. N |-> StepTo(g, n)]
<1>1. N \in Nat /\ a \in V
  <2>1. N \in Nat /\ from % DISK_BLK_SIZE \in 0 .. DISK_BLK_SIZE - 1
    BY TurnsCover
  <2>2. <<>> \in Seq(Data) /\ 0 \in 0 .. size
    OBVIOUS
  <2> QED BY <2>1, <2>2 DEF Turn
<1>2. ASSUME NEW n \in 1 .. N, NEW r \in V PROVE Go(r, n) \in V
  BY <1>2, BlockIsNumber, TurnType
<1> HIDE DEF Go, a
<1>3. F \in [1 .. N -> [V -> V]]
  BY <1>2
<1>4. PICK f : Iterates(f, N, V, a, F)
  <2> HIDE DEF N, V, F
  <2> QED BY <1>1, <1>3, Recursion
<1>5. ASSUME NEW n \in 0 .. N PROVE f[n] = StepTo(f, n)
  <2>1. CASE n = 0
    BY <1>4, <2>1 DEF Iterates
  <2>2. CASE n # 0
    <3>1. n \in 1 .. N /\ n - 1 \in 0 .. N
      BY <1>1, <2>2
    <3>2. f[n - 1] \in V
      BY <1>4, <3>1 DEF Iterates
    <3> QED BY <1>4, <2>2, <3>1, <3>2 DEF Iterates
  <2> QED BY <2>1, <2>2
<1>6. f = [n \in 0 .. N |-> StepTo(f, n)]
  BY <1>4, <1>5 DEF Iterates
<1>7. at = [n \in 0 .. N |-> StepTo(at, n)]
  BY <1>6
<1>8. Transfer(i, from, size, wild, oks) = at[N].buffer
  BY DEF Transfer, Go, a
<1> HIDE DEF at
<1>9. at[0] = a /\ \A n \in 1 .. N : at[n] = Go(at[n - 1], n)
  BY <1>1, <1>7
<1> DEFINE T == {n \in Nat : n <= N => at[n] \in V}
<1>10. 0 \in T
  BY <1>1, <1>9
<1>11. ASSUME NEW n \in Nat, n \in T PROVE n + 1 \in T
  <2> SUFFICES ASSUME n + 1 <= N PROVE at[n + 1] \in V
    OBVIOUS
  <2>1. at[n] \in V /\ n + 1 \in 1 .. N /\ (n + 1) - 1 = n
    BY <1>1, <1>11
  <2> QED BY <1>2, <1>9, <2>1
<1>12. Nat \subseteq T
  <2> HIDE DEF T
  <2> QED BY <1>10, <1>11, Induction
<1>13. \A n \in 0 .. N : at[n] \in V
  BY <1>1, <1>12
<1>14. at \in [0 .. N -> V]
  BY <1>7, <1>13
<1>15. TurnsOf(at, i, from, size, wild, oks)
  BY <1>9, <1>14 DEF TurnsOf, Go, a
<1> QED BY <1>8, <1>15

(* The buffer holds the bytes of the file from from on, each in its place, unless the disk
   lost to deliver it. *)
FileBytes(buffer, i, from, lost) ==
  \A k \in DOMAIN buffer :
    \/ buffer[k] = FileByte(i, from + k - 1)
    \/ lost /\ buffer[k] = STALE

(* A byte of a block of the file has its place in the file. *)
LEMMA ByteOfBlock ==
  ASSUME NEW i, NEW n \in Nat, NEW p \in 0 .. DISK_BLK_SIZE - 1,
         Inode[i].data_block_offsets[n] \in Nat
  PROVE  FileByte(i, n * DISK_BLK_SIZE + p) = Inode[i].data_block_offsets[n] + p
<1>1. DISK_BLK_SIZE \in Nat \ {0}
  BY FileSystemAssumption
<1> QED BY <1>1, DivMod DEF FileByte

(* A turn in block n appends bytes of the file. *)
LEMMA TurnDelivers ==
  ASSUME NEW i, NEW from \in Nat, NEW size \in Nat, NEW r \in Turn(size),
         NEW n \in Nat, NEW block \in Nat, block = Inode[i].data_block_offsets[n],
         block % DISK_BLK_SIZE = 0, block + DISK_BLK_SIZE <= DISK_CAPACITY_BYTES,
         NEW ok \in BOOLEAN, NEW lost, ~ok => lost,
         n * DISK_BLK_SIZE < from + size,
         Progress(r, n, from, size), FileBytes(r.buffer, i, from, lost)
  PROVE  FileBytes(Advance(r, size, block, ok).buffer, i, from, lost)
<1> DEFINE B == DISK_BLK_SIZE
           left == size - r.bytes_read
           b == IF left + r.offset > B THEN B - r.offset ELSE left
           d == read_from_disk(block + r.offset, b, ok)
           L == Len(r.buffer)
<1>1. B \in Nat \ {0}
  BY FileSystemAssumption
<1>2. r.bytes_read \in 0 .. size /\ r.offset \in 0 .. B - 1 /\ r.buffer \in Seq(Data)
  BY DEF Turn
<1>3. b \in Nat /\ block + r.offset \in Nat /\ r.offset + b <= B
  <2>1. b \in Nat /\ r.offset + b <= B
    <3>1. b = IF (size - r.bytes_read) + r.offset > DISK_BLK_SIZE THEN DISK_BLK_SIZE - r.offset
              ELSE size - r.bytes_read
      OBVIOUS
    <3> HIDE DEF b, left
    <3> QED BY <3>1, TurnFits
  <2>2. r.offset \in Nat
    BY <1>1, <1>2
  <2> HIDE DEF b, B
  <2> QED BY <2>1, <2>2
<1> HIDE DEF b
<1>4. d \in Seq(Data) /\ Len(d) = b
  BY <1>3, DiskFills
<1>5. d = IF ok THEN [k \in 1 .. b |-> block + r.offset + k - 1] ELSE [k \in 1 .. b |-> STALE]
  <2>1. r.offset \in 0 .. DISK_BLK_SIZE - 1 /\ b \in Nat /\ r.offset + b <= DISK_BLK_SIZE
    BY <1>2, <1>3
  <2>2. read_from_disk(block + r.offset, b, ok) = BytesFrom(block + r.offset, b, ok)
    <3>1. PICK p \in 0 .. DISK_BLK_SIZE - 1 : p = r.offset
      BY <2>1
    <3>2. p + b <= DISK_BLK_SIZE
      BY <2>1, <3>1
    <3>3. read_from_disk(block + p, b, ok) = BytesFrom(block + p, b, ok)
      BY <2>1, <3>2, DiskDelivers
    <3> QED BY <3>1, <3>3
  <2> QED BY <2>2 DEF BytesFrom
<1>6. Advance(r, size, block, ok).buffer = r.buffer \o d
  BY DEF Advance, b
<1> HIDE DEF d
<1>7. /\ r.buffer \o d \in Seq(Data) /\ Len(r.buffer \o d) = L + b
      /\ \A k \in 1 .. L : (r.buffer \o d)[k] = r.buffer[k]
      /\ \A k \in 1 .. b : (r.buffer \o d)[L + k] = d[k]
  <2>1. /\ r.buffer \o d \in Seq(Data) /\ Len(r.buffer \o d) = L + Len(d)
        /\ \A k \in 1 .. L : (r.buffer \o d)[k] = r.buffer[k]
        /\ \A k \in 1 .. Len(d) : (r.buffer \o d)[L + k] = d[k]
    <3>1. r.buffer \in Seq(Data) /\ d \in Seq(Data)
      BY <1>2, <1>4
    <3>2. PICK p \in Seq(Data) : p = r.buffer
      BY <3>1
    <3>3. p \o d \in Seq(Data) /\ Len(p \o d) = Len(p) + Len(d)
      BY <3>1, Appended, Zenon
    <3>4. \A k \in 1 .. Len(p) : (p \o d)[k] = p[k]
      <4>1. PICK e \in Seq(Data) : e = d
        BY <3>1
      <4>2. ASSUME NEW k \in 1 .. Len(p) PROVE (p \o e)[k] = p[k]
        OBVIOUS
      <4> QED BY <4>1, <4>2
    <3>5. \A k \in 1 .. Len(d) : (p \o d)[Len(p) + k] = d[k]
      <4>1. PICK e \in Seq(Data) : e = d
        BY <3>1
      <4>2. ASSUME NEW k \in 1 .. Len(e) PROVE (p \o e)[Len(p) + k] = e[k]
        BY SMTT(30)
      <4> QED BY <4>1, <4>2
    <3> QED BY <3>2, <3>3, <3>4, <3>5
  <2> HIDE DEF L
  <2> QED BY <1>4, <2>1
<1>8. L \in Nat /\ DOMAIN r.buffer = 1 .. L
  BY <1>2
<1>9. from + L = n * B + r.offset
  <2> HIDE DEF B
  <2>1. r.bytes_read = size /\ from + size <= n * B => FALSE
    <3>1. n * B \in Nat /\ n * B < from + size
      BY <1>1 DEF B
    <3> QED BY <1>1, <3>1
  <2> QED BY <2>1 DEF Progress, B
<1> DEFINE c == r.buffer \o d
<1>10. DOMAIN c = 1 .. L + b
  BY <1>7
<1> HIDE DEF L
<1>11. ASSUME NEW k \in 1 .. L
       PROVE  c[k] = FileByte(i, from + k - 1) \/ (lost /\ c[k] = STALE)
  BY <1>7, <1>8 DEF FileBytes
<1>12. ASSUME NEW k \in 1 .. b
       PROVE  c[L + k] = FileByte(i, from + (L + k) - 1) \/ (lost /\ c[L + k] = STALE)
  <2>1. c[L + k] = d[k]
    BY <1>7
  <2>2. CASE ok
    <3>1. d[k] = block + (r.offset + k - 1)
      <4>1. d[k] = block + r.offset + k - 1
        BY <1>5, <2>2
      <4>2. r.offset \in Nat /\ k \in Nat
        BY <1>1, <1>2, <1>3
      <4> QED BY <4>1, <4>2
    <3>2. r.offset + k - 1 \in 0 .. B - 1
      <4> HIDE DEF B
      <4>1. r.offset \in Nat /\ B \in Nat /\ b \in Nat /\ k \in Nat /\ 1 <= k /\ k <= b
        BY <1>1, <1>2, <1>3
      <4> QED BY <1>3, <4>1
    <3>3. FileByte(i, n * B + (r.offset + k - 1)) = block + (r.offset + k - 1)
      BY <3>2, ByteOfBlock
    <3>4. from + (L + k) - 1 = n * B + (r.offset + k - 1)
      <4>1. PICK m \in Nat : m = n * B
        BY <1>1
      <4> HIDE DEF B
      <4>2. from + L = m + r.offset
        BY <1>9, <4>1
      <4>3. r.offset \in Nat /\ L \in Nat /\ k \in Nat
        BY <1>1, <1>2, <1>3, <1>8
      <4>4. from + (L + k) - 1 = m + (r.offset + k - 1)
        BY <4>2, <4>3
      <4> QED BY <4>1, <4>4
    <3> QED BY <2>1, <3>1, <3>3, <3>4
  <2>3. CASE ~ok
    BY <1>5, <2>1, <2>3
  <2> QED BY <2>2, <2>3
<1>13. ASSUME NEW k \in 1 .. L + b, k \notin 1 .. L PROVE k - L \in 1 .. b /\ k = L + (k - L)
  BY <1>3, <1>8, <1>13
<1>14. FileBytes(c, i, from, lost)
  <2> SUFFICES ASSUME NEW k \in 1 .. L + b
               PROVE  c[k] = FileByte(i, from + k - 1) \/ (lost /\ c[k] = STALE)
    BY <1>10 DEF FileBytes
  <2>1. CASE k \in 1 .. L
    BY <1>11, <2>1
  <2>2. CASE k \notin 1 .. L
    <3>1. PICK j \in 1 .. b : k = L + j
      BY <1>13, <2>2
    <3> HIDE DEF c
    <3> QED BY <1>12, <3>1
  <2> QED BY <2>1, <2>2
<1> QED BY <1>6, <1>14

(* The loop fills the buffer; if it starts in the first block, with the bytes of the file. *)
LEMMA TransferDelivers ==
  ASSUME NEW i \in FileIds, NEW from \in Nat, NEW size \in Nat,
         from + size <= Inode[i].size,
         NEW wild \in Wilds(from, size), NEW oks \in [1 .. Turns(from, size) -> BOOLEAN]
  PROVE  LET buffer == Transfer(i, from, size, wild, oks)
         IN  /\ buffer \in Seq(Data) /\ Len(buffer) = size
             /\ from < DISK_BLK_SIZE =>
                  FileBytes(buffer, i, from, \E n \in DOMAIN oks : ~oks[n])
<1> DEFINE B == DISK_BLK_SIZE
           N == Turns(from, size)
           o == from % B
           lost == \E n \in DOMAIN oks : ~oks[n]
           Block(n) == BlockOffset(i, Aligned(from) + n - 1, wild[n])
<1>1. B \in Nat \ {0}
  BY FileSystemAssumption
<1>2. /\ N \in Nat /\ o \in 0 .. B - 1
      /\ size = 0 => N = 0
      /\ size # 0 => o + size <= N * B
      /\ \A n \in 0 .. N - 1 : n * B < o + size
  BY TurnsCover
<1>3. from < B => o = from
  <2> SUFFICES ASSUME from < B PROVE o = from
    OBVIOUS
  <2> HIDE DEF B
  <2>1. from \in 0 .. B - 1 /\ 0 \in Nat
    BY <1>1
  <2>2. (0 * B + from) % B = from
    BY <1>1, <2>1, DivMod
  <2>3. 0 * B + from = from
    BY <1>1
  <2> QED BY <2>2, <2>3 DEF B
<1>4. PICK turn : /\ TurnsOf(turn, i, from, size, wild, oks)
                  /\ Transfer(i, from, size, wild, oks) = turn[N].buffer
  BY TransferTurns
<1>5. /\ turn[0] = [bytes_read |-> 0, offset |-> o, buffer |-> <<>>]
      /\ \A n \in 0 .. N : turn[n] \in Turn(size)
      /\ \A n \in 1 .. N : turn[n] = Advance(turn[n - 1], size, Block(n), oks[n])
  BY <1>2, <1>4 DEF TurnsOf
<1> DEFINE Good(n) == /\ Progress(turn[n], n, o, size)
                      /\ from < B => FileBytes(turn[n].buffer, i, from, lost)
           T == {n \in Nat : n <= N => Good(n)}
<1>6. 0 \in T
  <2>1. Progress(turn[0], 0, o, size) /\ FileBytes(turn[0].buffer, i, from, lost)
    BY <1>1, <1>2, <1>5 DEF Progress, FileBytes
  <2> HIDE DEF N, B
  <2> QED BY <2>1
<1> HIDE DEF Good
<1>7. ASSUME NEW n \in Nat, n \in T PROVE n + 1 \in T
  <2> SUFFICES ASSUME n + 1 <= N PROVE Good(n + 1)
    BY <1>7
  <2> HIDE DEF N, o, B
  <2>1. Good(n) /\ n \in 0 .. N /\ n + 1 \in 1 .. N /\ (n + 1) - 1 = n /\ n \in 0 .. N - 1
    BY <1>2, <1>7
  <2> HIDE DEF T, lost
  <2>2. /\ turn[n + 1] = Advance(turn[n], size, Block(n + 1), oks[n + 1])
        /\ turn[n] \in Turn(size)
    BY <1>5, <2>1
  <2>3. n * B < o + size
    BY <1>2, <2>1
  <2>4. /\ Block(n + 1) \in Nat
        /\ from < B => /\ Block(n + 1) = Inode[i].data_block_offsets[n]
                       /\ Block(n + 1) % B = 0
                       /\ Block(n + 1) + B <= DISK_CAPACITY_BYTES
    <3>1. n + 1 \in 1 .. Turns(from, size)
      BY <2>1 DEF N
    <3>2. /\ Block(n + 1) \in Nat
          /\ from < B => /\ Block(n + 1) = Inode[i].data_block_offsets[(n + 1) - 1]
                         /\ Block(n + 1) % B = 0
                         /\ Block(n + 1) + B <= DISK_CAPACITY_BYTES
      BY <3>1, BlockIsNumber, Zenon DEF B
    <3> HIDE DEF Block
    <3> QED BY <2>1, <3>2
  <2> HIDE DEF Block
  <2> USE DEF Good
  <2>5. Progress(turn[n + 1], n + 1, o, size)
    BY <1>2, <2>1, <2>2, <2>3, <2>4, TurnProgress DEF B
  <2>6. ASSUME from < B PROVE FileBytes(turn[n + 1].buffer, i, from, lost)
    <3>1. oks[n + 1] \in BOOLEAN /\ (~oks[n + 1] => lost)
      BY <2>1 DEF N, lost
    <3>2. Progress(turn[n], n, from, size) /\ n * B < from + size
      BY <1>3, <2>1, <2>3, <2>6
    <3> QED BY <2>1, <2>2, <2>4, <2>6, <3>1, <3>2, TurnDelivers DEF B
  <2> QED BY <2>5, <2>6
<1>8. Good(N)
  <2>1. N \in T
    <3> HIDE DEF T, N
    <3> QED BY <1>2, <1>6, <1>7, Induction
  <2> HIDE DEF N
  <2> QED BY <1>2, <2>1
<1> USE DEF Good
<1>9. turn[N] \in Turn(size)
  BY <1>2, <1>5
<1>10. turn[N].buffer \in Seq(Data) /\ turn[N].bytes_read \in 0 .. size /\ turn[N].offset \in Nat
  BY <1>9, <1>1 DEF Turn
<1>11. turn[N].bytes_read = size
  <2>1. CASE size = 0
    BY <1>10, <2>1
  <2>2. CASE size # 0
    <3>1. PICK m \in Nat : m = N * B
      BY <1>1, <1>2
    <3> HIDE DEF N, o, B
    <3>2. \/ o + turn[N].bytes_read = m + turn[N].offset
          \/ turn[N].bytes_read = size
      BY <1>8, <3>1 DEF Progress, B
    <3>3. o + size <= m
      BY <1>2, <2>2, <3>1
    <3>4. o \in Nat
      BY <1>1, <1>2
    <3> QED BY <1>10, <3>2, <3>3, <3>4, SMTT(30)
  <2> QED BY <2>1, <2>2
<1> QED BY <1>4, <1>8, <1>10, <1>11 DEF Progress
-----------------------------------------------------------------------------
(* What FirstBlockRead says of the last call. *)
ReadOK ==
  last.op = "read" /\ last.ret >= 0 /\ last.from < DISK_BLK_SIZE =>
    /\ Len(last.buffer) = last.ret
    /\ FileBytes(last.buffer, last.of, last.from, last.failed)

TableOK ==
  /\ open_file_table \in [FDs -> [inode : FileIds \cup {NULL}, seek_offset : Nat]]
  /\ \A h \in FDs :
       LET i == open_file_table[h].inode
       IN  i # NULL => \/ open_file_table[h].seek_offset < Inode[i].size
                       \/ open_file_table[h].seek_offset = 0

LastOK == last \in Call /\ ReadOK

BooleansOK == the_disk \in BOOLEAN /\ aborted \in BOOLEAN

LEMMA FirstBlockReadParts == FirstBlockRead <=> TableOK /\ LastOK /\ BooleansOK
BY DEF FirstBlockRead, TypeOK, TableOK, LastOK, ReadOK, BooleansOK, FileBytes

LEMMA FirstBlockReadPartsNext == FirstBlockRead' <=> TableOK' /\ LastOK' /\ BooleansOK'
BY DEF FirstBlockRead, TypeOK, TableOK, LastOK, ReadOK, BooleansOK, FileBytes

(* The table holds what a call makes of it: a descriptor that is opened, closed, or moved. *)
LEMMA TableKept ==
  ASSUME TableOK, NEW h \in FDs, NEW i \in FileIds \cup {NULL}, NEW n \in Nat,
         i # NULL => n < Inode[i].size \/ n = 0,
         \/ open_file_table' = [open_file_table EXCEPT ![h] = [inode |-> i, seek_offset |-> n]]
         \/ /\ i = open_file_table[h].inode
            /\ open_file_table' = [open_file_table EXCEPT ![h].seek_offset = n]
         \/ /\ n = open_file_table[h].seek_offset
            /\ open_file_table' = [open_file_table EXCEPT ![h].inode = i]
  PROVE  TableOK'
<1>1. open_file_table' \in [FDs -> [inode : FileIds \cup {NULL}, seek_offset : Nat]]
  BY DEF TableOK
<1>2. open_file_table'[h].inode = i /\ open_file_table'[h].seek_offset = n
  BY DEF TableOK
<1>3. \A g \in FDs \ {h} : open_file_table'[g] = open_file_table[g]
  BY DEF TableOK
<1>4. ASSUME NEW g \in FDs, open_file_table'[g].inode # NULL
      PROVE  \/ open_file_table'[g].seek_offset < Inode[open_file_table'[g].inode].size
             \/ open_file_table'[g].seek_offset = 0
  <2>1. CASE g = h
    BY <1>2, <1>4, <2>1
  <2>2. CASE g # h
    BY <1>3, <1>4, <2>2 DEF TableOK
  <2> QED BY <2>1, <2>2
<1> QED BY <1>1, <1>4 DEF TableOK

LEMMA TableSame == TableOK /\ UNCHANGED open_file_table => TableOK'
BY DEF TableOK

LEMMA LastSame == LastOK /\ UNCHANGED last => LastOK'
BY DEF LastOK, ReadOK

(* A call that is no read, or that fails, delivers nothing. *)
LEMMA LastOther ==
  ASSUME NEW call \in Call, last' = call, call.op # "read" \/ call.ret = -1
  PROVE  LastOK'
BY DEF LastOK, ReadOK, Call

LEMMA NoCallOK == NoCall \in Call
BY DEF NoCall, Call

(* A call that fails. *)
LEMMA FailsKeeps ==
  ASSUME FirstBlockRead, NEW call \in Call, Fails(call)
  PROVE  FirstBlockRead'
<1>1. [call EXCEPT !.ret = -1] \in Call /\ [call EXCEPT !.ret = -1].ret = -1
  BY DEF Call
<1>2. /\ last' = [call EXCEPT !.ret = -1]
      /\ UNCHANGED <<the_disk, open_file_table, aborted>>
  BY DEF Fails, Returns
<1>3. TableOK' /\ BooleansOK'
  BY <1>2, FirstBlockReadParts, TableSame DEF BooleansOK
<1>4. LastOK'
  BY <1>1, <1>2, LastOther
<1> QED BY <1>3, <1>4, FirstBlockReadPartsNext

LEMMA CrashKeeps ==
  ASSUME FirstBlockRead, Crashes PROVE FirstBlockRead'
BY FirstBlockReadParts, FirstBlockReadPartsNext, TableSame, LastSame DEF Crashes, BooleansOK

LEMMA OpenReads ==
  ASSUME FirstBlockRead, NEW way \in Paths \cup {NULL}, lab3_open(way)
  PROVE  FirstBlockRead'
<1> DEFINE i == IF way = NULL THEN NULL ELSE find_inode_by_path(Inode, Root, way)
           call == [NoCall EXCEPT !.op = "open", !.of = i]
<1>1. i \in Ids \cup {NULL}
  BY PathFound
<1> HIDE DEF i
<1>2. call \in Call
  BY <1>1, NoCallOK DEF Call
<1>3. CASE Fails(call)
  BY <1>2, <1>3, FailsKeeps
<1>4. CASE Crashes
  BY <1>4, CrashKeeps
<1>5. ASSUME NEW h \in Slot, i # NULL, ~Inode[i].is_directory,
             open_file_table' = [open_file_table EXCEPT ![h] = [inode |-> i, seek_offset |-> 0]],
             Returns([call EXCEPT !.ret = h]), UNCHANGED the_disk
      PROVE  FirstBlockRead'
  <2>1. h \in FDs /\ h \in Nat
    BY FileSystemAssumption DEF Slot, FreeSlots, FDs
  <2>2. i \in FileIds
    BY <1>1, <1>5 DEF FileIds
  <2>3. TableOK'
    BY <1>5, <2>1, <2>2, FirstBlockReadParts, TableKept
  <2>4. [call EXCEPT !.ret = h] \in Call /\ [call EXCEPT !.ret = h].op = "open"
    BY <1>1, <2>1, NoCallOK DEF Call
  <2>5. LastOK'
    BY <1>5, <2>4, LastOther DEF Returns
  <2> QED
    BY <1>5, <2>3, <2>5, FirstBlockReadParts, FirstBlockReadPartsNext DEF Returns, BooleansOK
<1> QED BY <1>3, <1>4, <1>5 DEF lab3_open, i

LEMMA CloseReads ==
  ASSUME FirstBlockRead, NEW h, lab3_close(h)
  PROVE  FirstBlockRead'
<1>1. CASE Fails([NoCall EXCEPT !.op = "close"])
  <2>1. [NoCall EXCEPT !.op = "close"] \in Call
    BY NoCallOK DEF Call
  <2> QED BY <1>1, <2>1, FailsKeeps
<1>2. ASSUME h \in FDs, UNCHANGED the_disk,
             open_file_table' = [open_file_table EXCEPT ![h].inode = NULL],
             Returns([NoCall EXCEPT !.op = "close", !.of = open_file_table[h].inode])
      PROVE  FirstBlockRead'
  <2>1. TableOK
    BY FirstBlockReadParts
  <2>2. /\ open_file_table[h].inode \in Ids \cup {NULL}
        /\ open_file_table[h].seek_offset \in Nat
    BY <1>2, <2>1 DEF TableOK, FileIds
  <2>4. TableOK'
    <3>1. PICK n \in Nat : n = open_file_table[h].seek_offset
      BY <2>2
    <3> QED BY <1>2, <2>1, <3>1, TableKept
  <2> DEFINE call == [NoCall EXCEPT !.op = "close", !.of = open_file_table[h].inode]
  <2>5. call \in Call /\ call.op = "close"
    BY <2>2, NoCallOK DEF Call
  <2>6. LastOK'
    BY <1>2, <2>5, LastOther DEF Returns
  <2> QED
    BY <1>2, <2>4, <2>6, FirstBlockReadParts, FirstBlockReadPartsNext DEF Returns, BooleansOK
<1> QED BY <1>1, <1>2 DEF lab3_close, Invalid

LEMMA SeekReads ==
  ASSUME FirstBlockRead, NEW h, NEW offset \in Sizes, lab3_seek(h, offset)
  PROVE  FirstBlockRead'
<1> DEFINE call == [NoCall EXCEPT !.op = "seek", !.from = offset]
<1>1. offset \in Nat
  BY FileSystemAssumption
<1>2. call \in Call /\ call.op = "seek"
  BY <1>1, NoCallOK DEF Call
<1>3. CASE Fails(call)
  BY <1>2, <1>3, FailsKeeps
<1>4. ASSUME h \in FDs, h \notin FreeSlots, ~Beyond(h, offset), UNCHANGED the_disk,
             open_file_table' = [open_file_table EXCEPT ![h].seek_offset = offset],
             Returns(call)
      PROVE  FirstBlockRead'
  <2>1. TableOK
    BY FirstBlockReadParts
  <2> DEFINE i == open_file_table[h].inode
  <2>2. i \in FileIds
    BY <1>4, <2>1 DEF TableOK, FreeSlots
  <2>3. Inode[i].size \in Nat
    BY <2>2, FileSystemAssumption, ImageAssumption DEF FileIds
  <2>4. offset < Inode[i].size
    BY <1>1, <1>4, <2>3 DEF Beyond
  <2>6. TableOK'
    BY <1>1, <1>4, <2>1, <2>2, <2>4, TableKept
  <2>7. LastOK'
    BY <1>2, <1>4, LastOther DEF Returns
  <2> QED
    BY <1>4, <2>6, <2>7, FirstBlockReadParts, FirstBlockReadPartsNext DEF Returns, BooleansOK
<1> QED BY <1>3, <1>4 DEF lab3_seek, Invalid

LEMMA ReadReads ==
  ASSUME FirstBlockRead, NEW h \in FDs, NEW size \in Sizes, lab3_read(h, size)
  PROVE  FirstBlockRead'
<1> DEFINE i == open_file_table[h].inode
           from == open_file_table[h].seek_offset
           call == [NoCall EXCEPT !.op = "read", !.of = i, !.from = from, !.size = size]
<1>1. TableOK /\ h \notin FreeSlots
  BY FirstBlockReadParts DEF lab3_read, Invalid
<1>2. i \in FileIds /\ from \in Nat
  BY <1>1 DEF TableOK, FreeSlots
<1>3. i \in Ids /\ Inode[i].size \in Nat
  BY <1>2, FileSystemAssumption, ImageAssumption DEF FileIds
<1>4. size \in Nat
  BY FileSystemAssumption
<1>5. CASE Fails(call)
  <2>1. call \in Call
    BY <1>2, <1>3, NoCallOK DEF Call
  <2> QED BY <1>5, <2>1, FailsKeeps
<1>6. CASE Crashes
  BY <1>6, CrashKeeps
<1>7. ASSUME from + size <= Inode[i].size, Inode[i].size # 0, UNCHANGED the_disk,
             NEW wild \in Wilds(from, size), NEW oks \in [1 .. Turns(from, size) -> BOOLEAN],
             Returns([call EXCEPT !.ret = size,
                                  !.buffer = Transfer(i, from, size, wild, oks),
                                  !.failed = \E n \in DOMAIN oks : ~oks[n]]),
             open_file_table' =
               [open_file_table EXCEPT ![h].seek_offset = NewOffset(i, from + size)]
      PROVE  FirstBlockRead'
  <2> DEFINE buffer == Transfer(i, from, size, wild, oks)
             lost == \E n \in DOMAIN oks : ~oks[n]
             made == [call EXCEPT !.ret = size, !.buffer = buffer, !.failed = lost]
             n == NewOffset(i, from + size)
  <2>1. /\ buffer \in Seq(Data) /\ Len(buffer) = size
        /\ from < DISK_BLK_SIZE => FileBytes(buffer, i, from, lost)
    BY <1>2, <1>4, <1>7, TransferDelivers
  <2>2. n \in Nat /\ n < Inode[i].size
    <3>1. Inode[i].size \in Nat \ {0} /\ from + size \in Nat
      BY <1>2, <1>3, <1>4, <1>7
    <3>2. (from + size) % Inode[i].size \in 0 .. Inode[i].size - 1
      BY <3>1, DivModNat
    <3> QED BY <3>1, <3>2, SMTT(30) DEF NewOffset
  <2>3. TableOK'
    <3>1. open_file_table' = [open_file_table EXCEPT ![h].seek_offset = n]
      BY <1>7
    <3> HIDE DEF n
    <3> QED BY <1>1, <1>2, <2>2, <3>1, TableKept
  <2> HIDE DEF buffer, lost
  <2>4. lost \in BOOLEAN
    BY DEF lost
  <2>5. call \in Call
    BY <1>2, <1>3, NoCallOK DEF Call
  <2>6. /\ made \in Call
        /\ made.ret = size /\ made.from = from /\ made.of = i
        /\ made.buffer = buffer /\ made.failed = lost
    <3> HIDE DEF call
    <3>1. /\ made \in Call
          /\ made.ret = size /\ made.from = call.from /\ made.of = call.of
          /\ made.buffer = buffer /\ made.failed = lost
      BY <1>4, <2>1, <2>4, <2>5 DEF Call, Data
    <3>2. call.from = from /\ call.of = i
      BY NoCallOK DEF call, Call
    <3> QED BY <3>1, <3>2
  <2>7. last' = made /\ UNCHANGED aborted
    BY <1>7 DEF Returns, buffer, lost
  <2>8. LastOK'
    BY <2>1, <2>6, <2>7 DEF LastOK, ReadOK
  <2> QED
    BY <1>7, <2>3, <2>7, <2>8, FirstBlockReadParts, FirstBlockReadPartsNext DEF BooleansOK
<1> QED BY <1>5, <1>6, <1>7 DEF lab3_read

LEMMA StepReads == FirstBlockRead /\ [Next]_vars => FirstBlockRead'
<1> SUFFICES ASSUME FirstBlockRead, [Next]_vars PROVE FirstBlockRead'
  OBVIOUS
<1>1. TableOK /\ LastOK /\ BooleansOK
  BY FirstBlockReadParts
<1> DEFINE call == [NoCall EXCEPT !.op = "disk"]
<1>2. call \in Call /\ call.op = "disk"
  BY NoCallOK DEF Call
<1>3. CASE UNCHANGED vars
  BY <1>1, <1>3, TableSame, LastSame, FirstBlockReadPartsNext DEF vars, BooleansOK
<1>4. ASSUME UNCHANGED open_file_table, the_disk' \in BOOLEAN, Returns(call)
      PROVE  FirstBlockRead'
  <2>1. LastOK' /\ TableOK'
    BY <1>1, <1>2, <1>4, LastOther, TableSame DEF Returns
  <2> QED BY <1>1, <1>4, <2>1, FirstBlockReadPartsNext DEF Returns, BooleansOK
<1>5. CASE open_emu_disk
  BY <1>2, <1>4, <1>5, FailsKeeps DEF open_emu_disk
<1>6. CASE close_emu_disk
  BY <1>4, <1>6, CrashKeeps DEF close_emu_disk
<1>7. CASE ReadRefused
  <2>1. [NoCall EXCEPT !.op = "read"] \in Call
    BY NoCallOK DEF Call
  <2> QED BY <1>7, <2>1, FailsKeeps DEF ReadRefused
<1> QED
  BY <1>3, <1>5, <1>6, <1>7, OpenReads, CloseReads, SeekReads, ReadReads DEF Next

LEMMA ReadsAtFirst == Init => FirstBlockRead
<1> SUFFICES ASSUME Init PROVE FirstBlockRead
  OBVIOUS
<1>1. TableOK /\ BooleansOK
  BY DEF Init, TableOK, BooleansOK
<1>2. LastOK
  BY DEF Init, LastOK, ReadOK, NoCall, Call
<1> QED BY <1>1, <1>2, FirstBlockReadParts

(* A read that starts in the first block of a file puts the bytes of the file in the buffer,
   each in its place, over any number of blocks (read.c:41-66); the types hold. *)
THEOREM ReadsTheFile == Spec => []FirstBlockRead
BY ReadsAtFirst, StepReads, PTL DEF Spec
-----------------------------------------------------------------------------
(* Cat, for every image, path and size of its buffer.  The inductive       *)
(* invariant says what is open at each call, and that the seek offset is a *)
(* number of whole buffers: it is what was printed, unless the file is     *)
(* made of whole buffers, for then it starts over.  Outcome is how the     *)
(* code ends, always with -1 and the whole buffers of the file.            *)
File == find_inode_by_path(Inode, Root, path)
Size == Inode[File].size
Offset == open_file_table[fd].seek_offset

WholeBuffers(n) == \E m \in Nat : n = m * BUFFER_SIZE

NothingOpen == FreeSlots = FDs

FileOpen == fd \in FDs /\ open_file_table[fd].inode = File /\ FreeSlots = FDs \ {fd}

Printing ==
  /\ FileOpen /\ the_disk
  /\ printed \in Nat
  /\ WholeBuffers(Offset)
  /\ ~WholeBuffers(Size) => printed = Offset
  /\ Size = 0 => printed = 0

Outcome ==
  /\ ret = -1 /\ Size \in Nat
  /\ printed = (Size \div BUFFER_SIZE) * BUFFER_SIZE
  /\ Size = 0 \/ printed < Size

CatPlaces ==
  /\ next_call \in {"open_emu_disk", "lab3_open", "lab3_read", "lab3_close",
                    "close_emu_disk", "exit"}
  /\ fd \in FDs \cup {-1}
  /\ next_call = "open_emu_disk" => fd = -1 /\ ~the_disk /\ NothingOpen /\ printed = 0
  /\ next_call = "lab3_open" => fd = -1 /\ the_disk /\ NothingOpen /\ printed = 0
  /\ next_call = "lab3_read" => Printing
  /\ next_call = "lab3_close" => FileOpen /\ the_disk /\ Outcome
  /\ next_call = "close_emu_disk" => the_disk /\ NothingOpen /\ (fd \in FDs => Outcome)
  /\ next_call = "exit" => (fd \in FDs => ~the_disk /\ NothingOpen /\ Outcome)

CatIInv == FirstBlockRead /\ path \in Paths /\ CatPlaces

LEMMA FDsNat == FDs \subseteq Nat /\ -1 \notin FDs /\ \A f \in FDs : f >= 0
BY FileSystemAssumption DEF FDs

LEMMA InitCatIInv == CatInit => CatIInv
<1> SUFFICES ASSUME CatInit PROVE CatIInv
  OBVIOUS
<1>1. FirstBlockRead
  BY ReadsAtFirst DEF CatInit
<1>2. NothingOpen
  BY DEF CatInit, Init, NothingOpen, FreeSlots
<1> QED BY <1>1, <1>2, FDsNat DEF CatInit, Init, CatIInv, CatPlaces

LEMMA OpenDiskCat == CatIInv /\ OpenDisk => CatIInv'
<1> SUFFICES ASSUME CatIInv, OpenDisk PROVE CatIInv'
  OBVIOUS
<1>1. FirstBlockRead'
  BY StepReads DEF CatIInv, OpenDisk, Next
<1>2. NothingOpen /\ fd = -1 /\ printed = 0 /\ path \in Paths
  BY DEF CatIInv, CatPlaces, OpenDisk
<1>3. UNCHANGED <<open_file_table, fd, printed, path>>
  BY DEF OpenDisk, open_emu_disk, Fails
<1>4. NothingOpen'
  BY <1>2, <1>3 DEF NothingOpen, FreeSlots
<1>5. \/ the_disk' = TRUE /\ last'.ret = 0
      \/ last'.ret = -1
  BY DEF OpenDisk, open_emu_disk, Fails, Returns, NoCall
<1>6. \/ next_call' = "exit"
      \/ next_call' = "lab3_open" /\ the_disk'
  BY <1>5 DEF OpenDisk
<1>7. CatPlaces'
  BY <1>2, <1>3, <1>4, <1>6, FDsNat DEF CatPlaces
<1> QED BY <1>1, <1>2, <1>3, <1>7 DEF CatIInv

LEMMA OpenCat == CatIInv /\ Open => CatIInv'
<1> SUFFICES ASSUME CatIInv, Open PROVE CatIInv'
  OBVIOUS
<1>1. path \in Paths /\ fd = -1 /\ the_disk /\ NothingOpen /\ printed = 0 /\ TableOK
  BY FirstBlockReadParts DEF CatIInv, CatPlaces, Open
<1>2. FirstBlockRead'
  BY <1>1, OpenReads DEF CatIInv, Open
<1>3. UNCHANGED <<path, printed>>
  BY DEF Open
<1>4. CASE last'.ret = -1 /\ UNCHANGED <<the_disk, open_file_table>>
  <2>1. fd' = -1 /\ next_call' = "close_emu_disk" /\ NothingOpen' /\ the_disk'
    BY <1>1, <1>4 DEF Open, NothingOpen, FreeSlots
  <2>2. CatPlaces'
    BY <2>1, FDsNat DEF CatPlaces
  <2> QED BY <1>1, <1>2, <1>3, <2>2 DEF CatIInv
<1>5. ASSUME NEW f \in Slot, File # NULL, last'.ret = f, UNCHANGED the_disk,
             open_file_table' = [open_file_table EXCEPT ![f] = [inode |-> File, seek_offset |-> 0]]
      PROVE  CatIInv'
  <2>1. f \in FDs /\ fd' = f /\ next_call' = "lab3_read"
    <3>1. f \in FDs
      BY DEF Slot, FreeSlots
    <3> QED BY <1>5, <3>1, FDsNat DEF Open
  <2>2. File' = File
    BY <1>3 DEF File
  <2>3. /\ open_file_table'[f].inode = File /\ open_file_table'[f].seek_offset = 0
        /\ \A g \in FDs \ {f} : open_file_table'[g].inode = NULL
    BY <1>1, <1>5, <2>1 DEF TableOK, NothingOpen, FreeSlots
  <2>4. FileOpen'
    BY <1>5, <2>1, <2>2, <2>3 DEF FileOpen, FreeSlots
  <2>5. WholeBuffers(0)
    <3>1. 0 = 0 * BUFFER_SIZE
      BY CatAssumption, FileSystemAssumption
    <3> QED BY <3>1 DEF WholeBuffers
  <2>6. Printing'
    BY <1>1, <1>3, <1>5, <2>1, <2>3, <2>4, <2>5 DEF Printing, Offset
  <2>7. CatPlaces'
    BY <2>1, <2>6 DEF CatPlaces
  <2> QED BY <1>1, <1>2, <1>3, <2>7 DEF CatIInv
<1>6. lab3_open(path)
  BY DEF Open
<1>7. CASE path = NULL
  BY <1>1, <1>4, <1>6, <1>7 DEF lab3_open, Fails, Returns, NoCall
<1>8. CASE path # NULL
  <2> DEFINE call == [NoCall EXCEPT !.op = "open", !.of = File]
  <2>1. \/ Fails(call)
        \/ \E f \in Slot :
             /\ open_file_table' =
                  [open_file_table EXCEPT ![f] = [inode |-> File, seek_offset |-> 0]]
             /\ Returns([call EXCEPT !.ret = f])
             /\ UNCHANGED the_disk /\ File # NULL
    BY <1>1, <1>6, <1>8 DEF lab3_open, File
  <2>2. CASE Fails(call)
    BY <1>4, <2>2 DEF Fails, Returns, NoCall
  <2> QED BY <1>5, <2>1, <2>2 DEF Returns, NoCall
<1> QED BY <1>7, <1>8

LEMMA CloseCat == CatIInv /\ Close => CatIInv'
<1> SUFFICES ASSUME CatIInv, Close PROVE CatIInv'
  OBVIOUS
<1>1. FirstBlockRead' /\ TableOK
  BY CloseReads, FirstBlockReadParts DEF CatIInv, Close
<1>2. FileOpen /\ the_disk /\ Outcome /\ fd \in FDs
  BY DEF CatIInv, CatPlaces, Close, FileOpen
<1>3. ~Invalid(fd)
  BY <1>2 DEF FileOpen, Invalid, FreeSlots
<1>4. /\ open_file_table' = [open_file_table EXCEPT ![fd].inode = NULL]
      /\ next_call' = "close_emu_disk"
      /\ UNCHANGED <<the_disk, path, fd, ret, printed>>
  BY <1>3 DEF Close, lab3_close
<1>5. NothingOpen'
  <2>1. \A g \in FDs : open_file_table'[g].inode = NULL
    BY <1>1, <1>2, <1>4 DEF FileOpen, FreeSlots, TableOK
  <2> QED BY <2>1 DEF NothingOpen, FreeSlots
<1>6. Outcome'
  BY <1>2, <1>4 DEF Outcome, Size, File
<1>7. CatPlaces'
  BY <1>2, <1>4, <1>5, <1>6 DEF CatPlaces
<1> QED BY <1>1, <1>4, <1>7 DEF CatIInv

LEMMA CloseDiskCat == CatIInv /\ CloseDisk => CatIInv'
<1> SUFFICES ASSUME CatIInv, CloseDisk PROVE CatIInv'
  OBVIOUS
<1>1. FirstBlockRead'
  BY StepReads DEF CatIInv, CloseDisk, Next
<1>2. NothingOpen /\ the_disk /\ (fd \in FDs => Outcome) /\ fd \in FDs \cup {-1}
  BY DEF CatIInv, CatPlaces, CloseDisk
<1>3. /\ UNCHANGED <<open_file_table, fd, ret, printed, path>>
      /\ the_disk' = FALSE /\ next_call' = "exit"
  BY <1>2 DEF CloseDisk, close_emu_disk
<1>4. NothingOpen' /\ (fd \in FDs => Outcome')
  BY <1>2, <1>3 DEF NothingOpen, FreeSlots, Outcome, Size, File
<1>5. CatPlaces'
  BY <1>2, <1>3, <1>4 DEF CatPlaces
<1> QED BY <1>1, <1>3, <1>5 DEF CatIInv

(* Numbers of whole buffers. *)
LEMMA BufferAfterBuffer ==
  ASSUME NEW n \in Nat, WholeBuffers(n)
  PROVE  WholeBuffers(n + BUFFER_SIZE)
<1>1. BUFFER_SIZE \in Nat
  BY CatAssumption, FileSystemAssumption
<1>2. PICK m \in Nat : n = m * BUFFER_SIZE
  BY DEF WholeBuffers
<1>3. n + BUFFER_SIZE = (m + 1) * BUFFER_SIZE /\ m + 1 \in Nat
  BY <1>1, <1>2
<1> QED BY <1>3 DEF WholeBuffers

(* Between two of them there is none. *)
LEMMA BufferAtEnd ==
  ASSUME NEW n \in Nat, NEW size \in Nat, WholeBuffers(n),
         n <= size, n + BUFFER_SIZE > size
  PROVE  /\ n = (size \div BUFFER_SIZE) * BUFFER_SIZE
         /\ WholeBuffers(size) => n = size
<1> DEFINE S == BUFFER_SIZE
           r == size - n
<1>1. S \in Nat \ {0}
  BY CatAssumption, FileSystemAssumption
<1>2. PICK m \in Nat : n = m * S
  BY DEF WholeBuffers
<1>3. r \in 0 .. S - 1
  <2> HIDE DEF S
  <2> QED BY <1>1 DEF S
<1>4. size = m * S + r
  <2>1. PICK p \in Nat : p = m * S
    BY <1>2
  <2> HIDE DEF S
  <2> QED BY <1>2, <2>1
<1>5. (m * S + r) \div S = m /\ (m * S + r) % S = r
  <2> HIDE DEF S, r
  <2> QED BY <1>1, <1>3, DivMod
<1>6. n = (size \div S) * S
  BY <1>2, <1>4, <1>5
<1>7. ASSUME WholeBuffers(size) PROVE n = size
  <2>1. PICK q \in Nat : size = q * S
    BY <1>7 DEF WholeBuffers
  <2> HIDE DEF S
  <2>2. 0 \in 0 .. S - 1 /\ q * S + 0 = size
    BY <1>1, <2>1
  <2>3. (q * S + 0) \div S = q
    BY <1>1, <2>2, DivMod
  <2> QED BY <1>6, <2>1, <2>2, <2>3 DEF S
<1> QED BY <1>6, <1>7

LEMMA ReadCat == CatIInv /\ Read => CatIInv'
<1> SUFFICES ASSUME CatIInv, Read PROVE CatIInv'
  OBVIOUS
<1> DEFINE S == BUFFER_SIZE
<1>1. Printing /\ FileOpen /\ TableOK /\ path \in Paths /\ fd \in FDs
  BY FirstBlockReadParts DEF CatIInv, CatPlaces, Read, Printing, FileOpen
<1>2. S \in Sizes /\ S \in Nat \ {0}
  BY CatAssumption, FileSystemAssumption
<1>3. FirstBlockRead'
  BY <1>1, <1>2, ReadReads DEF CatIInv, Read
<1>4. UNCHANGED <<path, fd>> /\ lab3_read(fd, S)
  BY DEF Read
<1>5. File \in FileIds /\ File = open_file_table[fd].inode
  BY <1>1 DEF FileOpen, TableOK, FreeSlots
<1>6. Size \in Nat
  BY <1>5, FileSystemAssumption, ImageAssumption DEF FileIds, Size
<1>7. Offset \in Nat /\ (Offset < Size \/ Offset = 0) /\ WholeBuffers(Offset)
  <2>1. WholeBuffers(Offset)
    BY <1>1 DEF Printing
  <2>2. open_file_table[fd].inode # NULL
    BY <1>5, FileSystemAssumption DEF FileIds
  <2>3. Offset \in Nat /\ (Offset < Size \/ Offset = 0)
    BY <1>1, <1>5, <2>2 DEF TableOK, Offset, Size
  <2> QED BY <2>1, <2>3
<1>8. UNCHANGED <<File, Size>>
  BY <1>4 DEF File, Size
<1>9. CASE Crashes
  <2>1. UNCHANGED <<open_file_table, the_disk, next_call, path, fd, ret, printed>>
    BY <1>4, <1>9 DEF Crashes, Read
  <2>2. CatPlaces'
    BY <2>1 DEF CatIInv, CatPlaces, NothingOpen, FreeSlots, FileOpen, Printing, Outcome,
       Offset, Size, File
  <2> QED BY <1>1, <1>3, <2>1, <2>2 DEF CatIInv
<1>10. ASSUME Offset + S > Size, last'.ret = -1, ~aborted',
              UNCHANGED <<open_file_table, the_disk>>
       PROVE  CatIInv'
  <2>1. /\ ret' = -1 /\ next_call' = "lab3_close" /\ UNCHANGED <<printed, path, fd>>
    BY <1>2, <1>10 DEF Read, AfterRead
  <2>2. FileOpen' /\ the_disk'
    BY <1>1, <1>4, <1>8, <1>10 DEF FileOpen, FreeSlots, Printing
  <2>3. Offset <= Size
    BY <1>6, <1>7
  <2>4. Offset = (Size \div S) * S /\ (WholeBuffers(Size) => Offset = Size)
    BY <1>6, <1>7, <1>10, <2>3, BufferAtEnd
  <2>5. printed = (Size \div S) * S /\ (Size = 0 \/ printed < Size)
    <3>1. CASE WholeBuffers(Size)
      BY <1>1, <1>6, <1>7, <2>4, <3>1 DEF Printing
    <3>2. CASE ~WholeBuffers(Size)
      BY <1>1, <1>6, <1>7, <2>4, <3>2 DEF Printing
    <3> QED BY <3>1, <3>2
  <2>6. Outcome'
    BY <1>6, <1>8, <2>1, <2>5 DEF Outcome
  <2>7. CatPlaces'
    BY <1>1, <1>4, <2>1, <2>2, <2>6 DEF CatPlaces
  <2> QED BY <1>1, <1>3, <2>1, <2>7 DEF CatIInv
<1>11. ASSUME Offset + S <= Size, Size # 0, last'.ret = S, ~aborted', UNCHANGED the_disk,
              open_file_table' =
                [open_file_table EXCEPT ![fd].seek_offset = (Offset + S) % Size]
       PROVE  CatIInv'
  <2>1. next_call' = "lab3_read" /\ printed' = printed + S
    BY <1>2, <1>11 DEF Read, AfterRead
  <2>2. /\ open_file_table'[fd].seek_offset = (Offset + S) % Size
        /\ \A g \in FDs : open_file_table'[g].inode = open_file_table[g].inode
    BY <1>1, <1>11 DEF TableOK
  <2>3. FileOpen'
    BY <1>1, <1>4, <1>8, <2>2 DEF FileOpen, FreeSlots
  <2>4. Offset' = (Offset + S) % Size
    BY <1>4, <2>2 DEF Offset
  <2>5. WholeBuffers(Offset + S)
    BY <1>7, BufferAfterBuffer
  <2>6. CASE Offset + S = Size
    <3>1. Offset' = 0 /\ WholeBuffers(Size)
      BY <1>6, <1>11, <2>4, <2>5, <2>6
    <3>2. WholeBuffers(0)
      <4>1. 0 = 0 * BUFFER_SIZE
        BY <1>2
      <4> QED BY <4>1 DEF WholeBuffers
    <3>3. Printing'
      BY <1>1, <1>2, <1>8, <1>11, <2>1, <2>3, <3>1, <3>2 DEF Printing
    <3>4. CatPlaces'
      BY <1>1, <1>4, <2>1, <3>3 DEF CatPlaces
    <3> QED BY <1>1, <1>3, <1>4, <3>4 DEF CatIInv
  <2>7. CASE Offset + S < Size
    <3>1. Offset' = Offset + S
      <4>1. PICK n \in Nat : n = Offset + S
        BY <1>2, <1>7
      <4>2. n \in 0 .. Size - 1 /\ 0 \in Nat /\ Size \in Nat \ {0} /\ 0 * Size + n = n
        BY <1>6, <1>11, <2>7, <4>1
      <4>3. (0 * Size + n) % Size = n
        BY <4>2, DivMod
      <4> QED BY <2>4, <4>1, <4>2, <4>3
    <3>2. Printing'
      <4>1. ~WholeBuffers(Size) => printed = Offset
        BY <1>1 DEF Printing
      <4> QED BY <1>1, <1>2, <1>7, <1>8, <1>11, <2>1, <2>3, <2>5, <3>1, <4>1 DEF Printing
    <3>3. CatPlaces'
      BY <1>1, <1>4, <2>1, <3>2 DEF CatPlaces
    <3> QED BY <1>1, <1>3, <1>4, <3>3 DEF CatIInv
  <2> QED BY <1>2, <1>6, <1>7, <1>11, <2>6, <2>7
<1> DEFINE call == [NoCall EXCEPT !.op = "read", !.of = File, !.from = Offset, !.size = S]
<1>12. \/ Offset + S > Size /\ Fails(call)
       \/ /\ Offset + S <= Size /\ Size # 0 /\ UNCHANGED the_disk
          /\ ~aborted' /\ last'.ret = S
          /\ open_file_table' =
               [open_file_table EXCEPT ![fd].seek_offset = (Offset + S) % Size]
       \/ Crashes
  BY <1>4, <1>5 DEF lab3_read, NewOffset, Returns, Offset, Size, NoCall
<1>13. ASSUME Fails(call)
       PROVE  last'.ret = -1 /\ ~aborted' /\ UNCHANGED <<open_file_table, the_disk>>
  BY <1>13 DEF Fails, Returns, NoCall
<1> QED BY <1>9, <1>10, <1>11, <1>12, <1>13

(* When lab3_cat ends nothing is left open, less than a buffer of the file *)
(* is missing and nothing was printed twice, and it does not return 0 with *)
(* a part missing (lab3_cat.c:15-36, read.c:32 and 67).                    *)
THEOREM CatPrints == CatSpec => []CatOutcome
<1>1. CatIInv /\ [CatNext]_<<vars, catVars>> => CatIInv'
  <2> SUFFICES ASSUME CatIInv, [CatNext]_<<vars, catVars>> PROVE CatIInv'
    OBVIOUS
  <2>1. CASE CatNext
    BY <2>1, OpenDiskCat, OpenCat, ReadCat, CloseCat, CloseDiskCat DEF CatNext
  <2>2. CASE UNCHANGED <<vars, catVars>>
    <3>1. FirstBlockRead'
      BY <2>2, StepReads DEF CatIInv
    <3> QED BY <2>2, <3>1 DEF CatIInv, CatPlaces, NothingOpen, FreeSlots, FileOpen, Printing,
          Outcome, Offset, Size, File, vars, catVars
  <2> QED BY <2>1, <2>2
<1>2. CatIInv => CatOutcome
  <2> SUFFICES ASSUME CatIInv, next_call = "exit", fd >= 0
               PROVE  /\ ~the_disk /\ FreeSlots = FDs
                      /\ printed <= FileSize
                      /\ FileSize < printed + BUFFER_SIZE
                      /\ ret = 0 => printed = FileSize
    BY DEF CatOutcome
  <2>1. ~the_disk /\ NothingOpen /\ Outcome
    BY FDsNat DEF CatIInv, CatPlaces
  <2>2. FileSize = Size
    BY DEF FileSize, Size, File
  <2>3. BUFFER_SIZE \in Nat \ {0}
    BY CatAssumption, FileSystemAssumption
  <2>4. /\ (FileSize \div BUFFER_SIZE) * BUFFER_SIZE <= FileSize
        /\ FileSize < (FileSize \div BUFFER_SIZE) * BUFFER_SIZE + BUFFER_SIZE
    BY <2>1, <2>2, <2>3, DivModNat DEF Outcome
  <2> QED BY <2>1, <2>2, <2>4 DEF Outcome, NothingOpen
<1> QED BY <1>1, <1>2, InitCatIInv, PTL DEF CatSpec

-----------------------------------------------------------------------------
(* Malloc, for any heap, any chunks, header and alignment, and any requests. *)
(* The chunk allocator's search never goes past a place where a run of free  *)
(* chunks starts, so that the chunks of a new region were not taken, and a   *)
(* refusal means that no such place is left.  For the free list the          *)
(* invariant names the list as a sequence without repetition of the regions  *)
(* that the client does not hold, linked from the head to NULL; a request    *)
(* replaces or removes one of its elements and a free puts one in front, the *)
(* regions tiling the heap throughout.                                       *)

(* What n pieces hold. *)
LEMMA CeilingHolds ==
  ASSUME NEW n \in Nat \ {0}, NEW size \in Nat
  PROVE  /\ Ceiling(size, n) \in Nat /\ size <= Ceiling(size, n) * n
         /\ Ceiling(size, n) * n < size + n
         /\ size # 0 => Ceiling(size, n) # 0
<1> DEFINE q == size \div n
           r == size % n
<1>1. q \in Nat /\ r \in 0 .. n - 1 /\ size = q * n + r
  BY DivModNat
<1>2. Ceiling(size, n) = q + IF r # 0 THEN 1 ELSE 0
  BY DEF Ceiling
<1> HIDE DEF q, r
<1>3. PICK m \in Nat : m = q * n
  BY <1>1
<1>4. CASE r # 0
  <2>1. Ceiling(size, n) = q + 1 /\ (q + 1) * n = m + n
    BY <1>1, <1>2, <1>3, <1>4
  <2> QED BY <1>1, <1>3, <1>4, <2>1
<1>5. CASE r = 0
  <2>1. Ceiling(size, n) = q
    BY <1>1, <1>2, <1>5
  <2>2. size # 0 => q # 0
    BY <1>1, <1>3, <1>5
  <2> QED BY <1>1, <1>3, <1>5, <2>1, <2>2
<1> QED BY <1>4, <1>5

-----------------------------------------------------------------------------
(* The search of l1_chunk_malloc *)
LEMMA ArenaType == CHUNK_ARENA_LENGTH \in Nat /\ CHUNK_ARENA_LENGTH <= ALLOC8R_HEAP_SIZE
<1> USE HeapAssumption, ChunkAssumption
<1> DEFINE q == CHUNK_ARENA_LENGTH
           r == ALLOC8R_HEAP_SIZE % CHUNK_SIZE
<1>1. q \in Nat /\ r \in Nat /\ ALLOC8R_HEAP_SIZE = q * CHUNK_SIZE + r
  BY DivModNat DEF CHUNK_ARENA_LENGTH
<1> HIDE DEF q, r
<1>2. q <= q * CHUNK_SIZE
  BY <1>1
<1> QED BY <1>1, <1>2 DEF q

(* Nothing can start here. *)
Blocked(here, len) == ~IS_CHUNK_FREE(here) \/ Run(here, len) \cap Taken # {}

(* The search stays where it is. *)
Settled(here, len) == here >= Bound(len) \/ ~Blocked(here, len)

(* What the search has passed over: no run of len free chunks starts there. *)
Passed(start, len) == \E i \in Run(start, len) : i \notin Chunks \/ ~IS_CHUNK_FREE(i)

(* A step of the search stays or goes on, and passes over nothing. *)
LEMMA SearchSteps ==
  ASSUME NEW len \in Nat \ {0}, NEW here \in Nat
  PROVE  LET after == NextHead(here, len)
         IN  /\ after \in Nat
             /\ Settled(here, len) => after = here
             /\ ~Settled(here, len) => after > here
             /\ \A s \in here .. after - 1 : Passed(s, len)
<1> USE ArenaType
<1> DEFINE after == NextHead(here, len)
<1>0. Bound(len) \in Int
  BY DEF Bound
<1>1. CASE here >= Bound(len)
  <2>1. after = here
    BY <1>1 DEF NextHead
  <2> QED BY <1>1, <2>1 DEF Settled
<1>2. CASE here < Bound(len) /\ ~IS_CHUNK_FREE(here)
  <2>1. after = here + 1
    BY <1>0, <1>2 DEF NextHead
  <2>2. here \in Run(here, len)
    BY DEF Run
  <2>3. Passed(here, len)
    BY <1>2, <2>2 DEF Passed
  <2>4. \A s \in here .. here + 1 - 1 : s = here
    OBVIOUS
  <2> QED BY <1>0, <1>2, <2>1, <2>3, <2>4 DEF Settled, Blocked
<1>3. CASE here < Bound(len) /\ IS_CHUNK_FREE(here) /\ Run(here, len) \cap Taken # {}
  <2> DEFINE T == Run(here, len) \cap Taken
             m == CHOOSE i \in T : \A j \in T : i <= j
  <2>1. T \subseteq Nat /\ T # {}
    BY <1>3 DEF Run
  <2>2. \E i \in T : \A j \in T : i <= j
    BY <2>1, LeastNumber
  <2>3. m \in T
    BY <2>2
  <2>4. after = 1 + m
    BY <1>0, <1>3 DEF NextHead
  <2> HIDE DEF m
  <2>5. m \in here .. here + len - 1 /\ m \in Taken
    BY <2>3 DEF Run
  <2>6. ~IS_CHUNK_FREE(m)
    BY <2>5 DEF Taken, IS_CHUNK_FREE
  <2>7. ASSUME NEW s \in here .. (m + 1) - 1 PROVE Passed(s, len)
    <3>1. m \in Run(s, len)
      BY <2>5 DEF Run
    <3> QED BY <2>6, <3>1 DEF Passed
  <2>8. ~Settled(here, len)
    BY <1>0, <1>3 DEF Settled, Blocked
  <2> QED BY <2>4, <2>5, <2>7, <2>8
<1>4. CASE here < Bound(len) /\ IS_CHUNK_FREE(here) /\ Run(here, len) \cap Taken = {}
  <2>1. after = here
    BY <1>0, <1>4 DEF NextHead
  <2>2. Settled(here, len)
    BY <1>4 DEF Settled, Blocked
  <2> QED BY <2>1, <2>2
<1> QED BY <1>0, <1>1, <1>2, <1>3, <1>4

(* The search has gone far enough, or has settled. *)
HeadsOf(at, len) ==
  /\ at \in [0 .. CHUNK_ARENA_LENGTH -> Nat]
  /\ at[0] = 0
  /\ \A n \in 1 .. CHUNK_ARENA_LENGTH : at[n] = NextHead(at[n - 1], len)

LEMMA SearchHeads ==
  ASSUME NEW len \in Nat \ {0}
  PROVE  \E at : /\ HeadsOf(at, len)
                 /\ Search(len) = IF at[CHUNK_ARENA_LENGTH] < Bound(len)
                                    THEN at[CHUNK_ARENA_LENGTH] ELSE NULL
<1> DEFINE N == CHUNK_ARENA_LENGTH
           F == [n \in 1 .. N |-> [h \in Nat |-> NextHead(h, len)]]
           StepTo(g, n) == IF n = 0 THEN 0 ELSE NextHead(g[n - 1], len)
           at == CHOOSE g : g = [n \in 0 .. N |-> StepTo(g, n)]
<1>1. N \in Nat
  BY ArenaType
<1>2. \A h \in Nat : NextHead(h, len) \in Nat
  BY SearchSteps
<1>3. F \in [1 .. N -> [Nat -> Nat]]
  BY <1>2
<1>4. PICK f : Iterates(f, N, Nat, 0, F)
  <2> HIDE DEF N, F
  <2> QED BY <1>1, <1>3, Recursion
<1>5. ASSUME NEW n \in 0 .. N PROVE f[n] = StepTo(f, n)
  <2>1. CASE n = 0
    BY <1>4, <2>1 DEF Iterates
  <2>2. CASE n # 0
    <3>1. n \in 1 .. N /\ n - 1 \in 0 .. N
      BY <1>1, <2>2
    <3>2. f[n - 1] \in Nat
      BY <1>4, <3>1 DEF Iterates
    <3> QED BY <1>4, <2>2, <3>1, <3>2 DEF Iterates
  <2> QED BY <2>1, <2>2
<1>6. f = [n \in 0 .. N |-> StepTo(f, n)]
  BY <1>4, <1>5 DEF Iterates
<1>7. at = [n \in 0 .. N |-> StepTo(at, n)]
  BY <1>6
<1>8. Search(len) = IF at[N] < Bound(len) THEN at[N] ELSE NULL
  BY DEF Search
<1> HIDE DEF at
<1>9. at[0] = 0 /\ \A n \in 1 .. N : at[n] = NextHead(at[n - 1], len)
  BY <1>1, <1>7
<1> DEFINE T == {n \in Nat : n <= N => at[n] \in Nat}
<1>10. 0 \in T
  BY <1>1, <1>9
<1>11. ASSUME NEW n \in Nat, n \in T PROVE n + 1 \in T
  <2> SUFFICES ASSUME n + 1 <= N PROVE at[n + 1] \in Nat
    OBVIOUS
  <2>1. at[n] \in Nat /\ n + 1 \in 1 .. N /\ (n + 1) - 1 = n
    BY <1>1, <1>11
  <2> QED BY <1>2, <1>9, <2>1
<1>12. Nat \subseteq T
  <2> HIDE DEF T
  <2> QED BY <1>10, <1>11, Induction
<1>13. HeadsOf(at, len)
  <2>1. \A n \in 0 .. N : at[n] \in Nat
    BY <1>1, <1>12
  <2>2. at \in [0 .. N -> Nat]
    <3> HIDE DEF StepTo
    <3> QED BY <1>7, <2>1
  <2> QED BY <1>9, <2>2 DEF HeadsOf
<1> QED BY <1>8, <1>13

(* The search finds a run of chunks of which none is taken, or there is no run of free
   chunks. *)
LEMMA SearchFinds ==
  ASSUME NEW len \in Nat \ {0}
  PROVE  /\ Search(len) # NULL =>
              /\ Search(len) \in Nat /\ Search(len) + len <= CHUNK_ARENA_LENGTH
              /\ IS_CHUNK_FREE(Search(len)) /\ Run(Search(len), len) \cap Taken = {}
         /\ Search(len) = NULL => \A s \in Chunks : Passed(s, len)
<1> USE ArenaType, HeapAssumption
<1> DEFINE N == CHUNK_ARENA_LENGTH
<1>1. PICK at : /\ HeadsOf(at, len)
                /\ Search(len) = IF at[N] < Bound(len) THEN at[N] ELSE NULL
  BY SearchHeads
<1>2. /\ at \in [0 .. N -> Nat] /\ at[0] = 0
      /\ \A n \in 1 .. N : at[n] = NextHead(at[n - 1], len)
  BY <1>1 DEF HeadsOf
<1>3. N \in Nat /\ Bound(len) \in Int /\ Bound(len) = N - len + 1
  BY DEF Bound
<1> DEFINE Far(n) == /\ at[n] >= n \/ Settled(at[n], len)
                     /\ \A s \in 0 .. at[n] - 1 : Passed(s, len)
           T == {n \in Nat : n <= N => Far(n)}
<1>4. 0 \in T
  BY <1>2, <1>3
<1>5. ASSUME NEW n \in Nat, n \in T PROVE n + 1 \in T
  <2> SUFFICES ASSUME n + 1 <= N PROVE Far(n + 1)
    OBVIOUS
  <2>1. n + 1 \in 1 .. N /\ (n + 1) - 1 = n /\ n \in 0 .. N /\ n + 1 \in 0 .. N
    BY <1>3
  <2>2. at[n] \in Nat /\ at[n + 1] \in Nat /\ at[n + 1] = NextHead(at[n], len)
    BY <1>2, <2>1
  <2>3. Far(n)
    BY <1>5, <2>1
  <2>4. /\ Settled(at[n], len) => at[n + 1] = at[n]
        /\ ~Settled(at[n], len) => at[n + 1] > at[n]
        /\ \A s \in at[n] .. at[n + 1] - 1 : Passed(s, len)
    BY <2>2, SearchSteps
  <2>5. at[n + 1] >= n + 1 \/ Settled(at[n + 1], len)
    BY <2>2, <2>3, <2>4
  <2>6. ASSUME NEW s \in 0 .. at[n + 1] - 1 PROVE Passed(s, len)
    <3>1. s \in 0 .. at[n] - 1 \/ s \in at[n] .. at[n + 1] - 1
      BY <2>2
    <3> QED BY <2>3, <2>4, <3>1
  <2> QED BY <2>5, <2>6
<1>6. Nat \subseteq T
  <2> HIDE DEF T
  <2> QED BY <1>4, <1>5, Induction
<1>7. Far(N) /\ at[N] \in Nat
  BY <1>2, <1>3, <1>6
<1>8. CASE at[N] < Bound(len)
  <2>1. Search(len) = at[N] /\ at[N] # NULL
    BY <1>1, <1>7, <1>8
  <2>2. at[N] + len <= N
    BY <1>3, <1>7, <1>8
  <2>3. ~Blocked(at[N], len)
    BY <1>3, <1>7, <1>8, <2>2 DEF Settled
  <2> QED BY <1>7, <2>1, <2>2, <2>3 DEF Blocked
<1>9. CASE ~(at[N] < Bound(len))
  <2>1. Search(len) = NULL
    BY <1>1, <1>9
  <2>2. ASSUME NEW s \in Chunks PROVE Passed(s, len)
    <3>1. s \in 0 .. N - 1
      BY DEF Chunks
    <3>2. CASE s <= at[N] - 1
      BY <1>7, <3>1, <3>2
    <3>3. CASE s > at[N] - 1
      <4>1. s + len > N
        BY <1>3, <1>7, <1>9, <3>1, <3>3
      <4>2. s + len - 1 \in Run(s, len) /\ s + len - 1 \notin Chunks
        BY <1>3, <3>1, <4>1 DEF Run, Chunks
      <4> QED BY <4>2 DEF Passed
    <3> QED BY <1>7, <3>1, <3>2, <3>3
  <2> QED BY <2>1, <2>2
<1> QED BY <1>8, <1>9

-----------------------------------------------------------------------------
(* The chunk allocator. *)
ChunkState == HeapTypeOK /\ ChunkTypeOK /\ ChunksAccounted

(* No room was left when the last request was refused. *)
ChunkFull == refused \notin {NULL, 0} => ~ChunkRoom(refused)

LEMMA ChunkCount ==
  ASSUME NEW size \in Nat
  PROVE  /\ chunk_count(size) \in Nat \ {0}
         /\ size # 0 => chunk_count(size) >= 2
         /\ size > ALLOC8R_HEAP_SIZE => chunk_count(size) > CHUNK_ARENA_LENGTH
<1> USE HeapAssumption, ChunkAssumption
<1> DEFINE c == Ceiling(size, CHUNK_SIZE)
           q == CHUNK_ARENA_LENGTH
           r == ALLOC8R_HEAP_SIZE % CHUNK_SIZE
<1>1. c \in Nat /\ size <= c * CHUNK_SIZE /\ (size # 0 => c # 0)
  BY CeilingHolds
<1>2. chunk_count(size) = c + 1
  BY DEF chunk_count
<1>3. q \in Nat /\ r \in Nat /\ ALLOC8R_HEAP_SIZE = q * CHUNK_SIZE + r
  BY DivModNat DEF CHUNK_ARENA_LENGTH
<1> HIDE DEF c, q, r
<1>4. ASSUME size > ALLOC8R_HEAP_SIZE PROVE q < c
  <2>1. q * CHUNK_SIZE \in Nat /\ c * CHUNK_SIZE \in Nat
    BY <1>1, <1>3
  <2>2. q * CHUNK_SIZE < c * CHUNK_SIZE
    BY <1>1, <1>3, <1>4, <2>1
  <2> QED BY <1>1, <1>3, <2>2, FewerBlocks
<1> QED BY <1>1, <1>2, <1>3, <1>4 DEF q

(* Where the region at p is. *)
LEMMA ExtentIs ==
  ASSUME ChunkState, NEW p \in DOMAIN live
  PROVE  /\ p \in Nat /\ p - 1 \in Chunks /\ p - 1 \in ChunkExtent(p) /\ live[p] \in Nat \ {0}
         /\ Run(p, chunk_count(live[p]) - 1) = ChunkExtent(p) \ {p - 1}
<1> USE HeapAssumption DEF ChunkState
<1>1. p \in Nat /\ live[p] \in Nat \ {0}
  <2>1. p \in 0 .. ALLOC8R_HEAP_SIZE
    BY DEF HeapTypeOK
  <2>2. live[p] \in Requests \ {0}
    BY DEF HeapTypeOK
  <2>3. p \in Nat
    BY <2>1
  <2>4. live[p] \in Nat
    BY <2>2
  <2> QED BY <2>2, <2>3, <2>4
<1>2. chunk_count(live[p]) \in Nat \ {0}
  BY <1>1, ChunkCount
<1>3. ChunkExtent(p) = p - 1 .. p - 1 + chunk_count(live[p]) - 1
  BY DEF ChunkExtent, Run
<1>4. p - 1 \in ChunkExtent(p)
  BY <1>1, <1>2, <1>3
<1>5. ChunkExtent(p) \subseteq Chunks
  BY DEF ChunksAccounted, Taken
<1>6. Run(p, chunk_count(live[p]) - 1) = ChunkExtent(p) \ {p - 1}
  BY <1>1, <1>2, <1>3 DEF Run
<1> QED BY <1>1, <1>4, <1>5, <1>6

LEMMA ChunkInit ==
  HeapInit /\ (l1_chunk_init \/ NoChunks) => ChunkState /\ ChunkFull
BY DEF HeapInit, l1_chunk_init, NoChunks, ChunkState, ChunkFull, HeapTypeOK, ChunkTypeOK,
       ChunksAccounted

(* A request is given a run of chunks of which none was taken. *)
LEMMA ChunkGives ==
  ASSUME ChunkState, NEW size \in Requests, size \in 1 .. ALLOC8R_HEAP_SIZE,
         NEW head, head = Search(chunk_count(size)), head # NULL,
         SET(Run(head, chunk_count(size)), 1), header' = [header EXCEPT ![head] = size],
         Gives(size, head + 1)
  PROVE  ChunkState' /\ ChunkFull'
<1> USE HeapAssumption, ArenaType
<1> DEFINE len == chunk_count(size)
           p == head + 1
<1>1. len \in Nat \ {0}
  BY ChunkCount
<1>2. /\ head \in Nat /\ head + len <= CHUNK_ARENA_LENGTH
      /\ IS_CHUNK_FREE(head) /\ Run(head, len) \cap Taken = {}
  BY <1>1, SearchFinds
<1>3. Run(head, len) \subseteq Chunks /\ head \in Run(head, len) /\ head \in Chunks
  BY <1>1, <1>2 DEF Run, Chunks
<1> HIDE DEF len, p
<1>4. /\ l1_chunk_meta' = [i \in Chunks |-> IF i \in Run(head, len) THEN 1 ELSE l1_chunk_meta[i]]
      /\ unset' = unset \ Run(head, len)
      /\ header' = [header EXCEPT ![head] = size]
      /\ live' = [q \in DOMAIN live \cup {p} |-> IF q = p THEN size ELSE live[q]]
      /\ refused' = NULL /\ l1_errno' = l1_errno
  BY DEF SET, Gives, len, p
<1>5. p - 1 = head /\ p \in 0 .. ALLOC8R_HEAP_SIZE
  BY <1>1, <1>2 DEF p
<1>6. p \notin DOMAIN live
  <2> SUFFICES ASSUME p \in DOMAIN live PROVE FALSE
    OBVIOUS
  <2>1. head \in Taken
    BY <1>5, ExtentIs DEF ChunkState, ChunksAccounted
  <2> QED BY <1>2, <1>3, <2>1
<1>7. /\ DOMAIN live' = DOMAIN live \cup {p} /\ live'[p] = size
      /\ \A q \in DOMAIN live : live'[q] = live[q]
  BY <1>4, <1>6
<1>8. ChunkTypeOK' /\ HeapTypeOK'
  <2>1. ChunkTypeOK'
    BY <1>3, <1>4 DEF ChunkState, ChunkTypeOK
  <2>2. HeapTypeOK'
    BY <1>4, <1>5, <1>7 DEF ChunkState, HeapTypeOK
  <2> QED BY <2>1, <2>2
<1>9. ChunkExtent(p)' = Run(head, len) /\ \A q \in DOMAIN live : ChunkExtent(q)' = ChunkExtent(q)
  BY <1>5, <1>7 DEF ChunkExtent, len
<1>10. Taken' = Taken \cup Run(head, len)
  BY <1>3, <1>4 DEF Taken
<1>11. \A q \in DOMAIN live : ChunkExtent(q) \cap Run(head, len) = {}
  BY <1>2 DEF ChunkState, ChunksAccounted
<1>12. ASSUME NEW q \in DOMAIN live'
       PROVE  header'[q - 1] = live'[q] /\ ChunkExtent(q)' \subseteq Taken' \ unset'
  <2>1. CASE q = p
    <3>1. header'[head] = size
      BY <1>3, <1>4 DEF ChunkState, ChunkTypeOK
    <3>2. Run(head, len) \subseteq Taken' \ unset'
      BY <1>4, <1>10
    <3> QED BY <1>5, <1>7, <1>9, <2>1, <3>1, <3>2
  <2>2. CASE q # p
    <3>1. q \in DOMAIN live
      BY <1>7, <2>2
    <3>2. q - 1 \in Chunks /\ q - 1 \in ChunkExtent(q)
      BY <3>1, ExtentIs
    <3>3. q - 1 # head
      BY <1>3, <1>11, <3>1, <3>2
    <3>4. header'[q - 1] = header[q - 1]
      BY <1>4, <3>2, <3>3 DEF ChunkState, ChunkTypeOK
    <3>5. header[q - 1] = live[q] /\ ChunkExtent(q) \subseteq Taken \ unset
      BY <3>1 DEF ChunkState, ChunksAccounted
    <3> QED BY <1>4, <1>7, <1>9, <1>10, <3>1, <3>4, <3>5
  <2> QED BY <2>1, <2>2
<1>13. \A q, r \in DOMAIN live' : q # r => ChunkExtent(q)' \cap ChunkExtent(r)' = {}
  BY <1>7, <1>9, <1>11 DEF ChunkState, ChunksAccounted
<1>14. ASSUME NEW i \in Chunks \ unset'
       PROVE  IS_CHUNK_FREE(i)' \/ \E q \in DOMAIN live' : i \in ChunkExtent(q)'
  <2>1. CASE i \in Run(head, len)
    BY <1>7, <1>9, <2>1
  <2>2. CASE i \notin Run(head, len)
    <3>1. i \in Chunks \ unset /\ l1_chunk_meta'[i] = l1_chunk_meta[i]
      BY <1>4, <2>2
    <3>2. IS_CHUNK_FREE(i) \/ \E q \in DOMAIN live : i \in ChunkExtent(q)
      BY <3>1 DEF ChunkState, ChunksAccounted
    <3> QED BY <1>7, <1>9, <3>1, <3>2 DEF IS_CHUNK_FREE
  <2> QED BY <2>1, <2>2
<1>15. ChunksAccounted'
  BY <1>12, <1>13, <1>14 DEF ChunksAccounted
<1> QED BY <1>4, <1>8, <1>15 DEF ChunkState, ChunkFull

(* A request that is refused finds no room. *)
LEMMA ChunkRefuses ==
  ASSUME ChunkState, NEW size \in Requests, NEW errno \in {"SUCCESS", "ERRNOMEM"},
         Refuses(size, errno), UNCHANGED chunkVars,
         size # 0 => size > ALLOC8R_HEAP_SIZE \/ Search(chunk_count(size)) = NULL
  PROVE  ChunkState' /\ ChunkFull'
<1> USE HeapAssumption, ArenaType
<1>1. ChunkState'
  BY DEF ChunkState, HeapTypeOK, ChunkTypeOK, ChunksAccounted, Refuses, chunkVars,
         ChunkExtent, Taken, IS_CHUNK_FREE
<1>2. ASSUME size # 0, ChunkRoom(size) PROVE FALSE
  <2> DEFINE len == chunk_count(size)
  <2>1. len \in Nat \ {0} /\ (size > ALLOC8R_HEAP_SIZE => len > CHUNK_ARENA_LENGTH)
    BY ChunkCount
  <2> HIDE DEF len
  <2>2. PICK s \in Chunks : \A i \in Run(s, len) : i \in Chunks /\ IS_CHUNK_FREE(i)
    BY <1>2 DEF ChunkRoom, len
  <2>3. CASE size > ALLOC8R_HEAP_SIZE
    <3>1. s + len - 1 \in Run(s, len) /\ s + len - 1 \notin Chunks
      BY <2>1, <2>3 DEF Run, Chunks
    <3> QED BY <2>2, <3>1
  <2>4. CASE Search(len) = NULL
    BY <2>1, <2>2, <2>4, SearchFinds DEF Passed
  <2> QED BY <1>2, <2>3, <2>4 DEF len
<1>3. ChunkFull'
  <2>1. refused' = size /\ ChunkRoom(size)' = ChunkRoom(size)
    BY DEF Refuses, ChunkRoom, IS_CHUNK_FREE, chunkVars
  <2>2. ChunkRoom(refused)' = ChunkRoom(size)'
    BY <2>1 DEF ChunkRoom
  <2> QED BY <1>2, <2>1, <2>2 DEF ChunkFull
<1> QED BY <1>1, <1>3

(* The client writes into its own chunks. *)
LEMMA ChunkWrites ==
  ASSUME ChunkState, ChunkFull, NEW p \in DOMAIN live, ChunkWrite(p)
  PROVE  ChunkState' /\ ChunkFull'
<1>1. /\ header' = [i \in Chunks |->
                      IF i \in Run(p, chunk_count(live[p]) - 1) THEN NULL ELSE header[i]]
      /\ UNCHANGED <<l1_chunk_meta, unset, l1_errno, live, refused>>
  BY DEF ChunkWrite, heapVars
<1>2. ASSUME NEW q \in DOMAIN live PROVE header'[q - 1] = header[q - 1]
  <2>1. q - 1 \in Chunks /\ q - 1 \in ChunkExtent(q)
    BY ExtentIs
  <2>2. Run(p, chunk_count(live[p]) - 1) = ChunkExtent(p) \ {p - 1}
    BY ExtentIs
  <2>3. q - 1 \notin ChunkExtent(p) \ {p - 1}
    <3>1. q # p => ChunkExtent(p) \cap ChunkExtent(q) = {}
      BY DEF ChunkState, ChunksAccounted
    <3> QED BY <2>1, <3>1
  <2> QED BY <1>1, <2>1, <2>2, <2>3
<1>3. HeapTypeOK' /\ ChunkTypeOK'
  BY <1>1 DEF ChunkState, HeapTypeOK, ChunkTypeOK
<1>4. ChunksAccounted'
  BY <1>1, <1>2 DEF ChunkState, ChunksAccounted, ChunkExtent, Taken, IS_CHUNK_FREE
<1>5. ChunkFull'
  BY <1>1 DEF ChunkFull, ChunkRoom, IS_CHUNK_FREE
<1> QED BY <1>3, <1>4, <1>5 DEF ChunkState

(* A region is given back, or nothing is. *)
LEMMA ChunkFrees ==
  ASSUME ChunkState, NEW p, l1_chunk_free(p),
         p \in DOMAIN live \/ (p \notin DOMAIN live /\ header[p - 1] = NULL)
  PROVE  ChunkState' /\ ChunkFull'
<1> USE HeapAssumption
<1> DEFINE S == Released(p)
<1>1. /\ l1_chunk_meta' = [i \in Chunks |-> IF i \in S THEN 0 ELSE l1_chunk_meta[i]]
      /\ unset' = unset \ S /\ header' = header
      /\ live' = [q \in DOMAIN live \ {p} |-> live[q]]
      /\ refused' = NULL /\ l1_errno' = l1_errno
  BY DEF l1_chunk_free, SET, Frees
<1>2. S = IF p \in DOMAIN live THEN ChunkExtent(p) ELSE {}
  <2>1. CASE p \in DOMAIN live
    <3>1. header[p - 1] = live[p] /\ live[p] # NULL
      BY <2>1, ExtentIs DEF ChunkState, ChunksAccounted
    <3> QED BY <2>1, <3>1 DEF Released, ChunkExtent
  <2>2. CASE p \notin DOMAIN live
    BY <2>2 DEF Released
  <2> QED BY <2>1, <2>2
<1> HIDE DEF S
<1>3. /\ DOMAIN live' = DOMAIN live \ {p} /\ \A q \in DOMAIN live' : live'[q] = live[q]
  BY <1>1
<1>4. \A q \in DOMAIN live' : ChunkExtent(q)' = ChunkExtent(q)
  BY <1>3 DEF ChunkExtent
<1>5. \A q \in DOMAIN live' : ChunkExtent(q) \cap S = {}
  BY <1>2, <1>3 DEF ChunkState, ChunksAccounted
<1>6. HeapTypeOK' /\ ChunkTypeOK'
  BY <1>1, <1>3 DEF ChunkState, HeapTypeOK, ChunkTypeOK
<1>7. Taken' = Taken \ S
  BY <1>1 DEF Taken
<1>8. \A q \in DOMAIN live' : header'[q - 1] = live'[q] /\ ChunkExtent(q)' \subseteq Taken' \ unset'
  BY <1>1, <1>3, <1>4, <1>5, <1>7 DEF ChunkState, ChunksAccounted
<1>9. \A q, r \in DOMAIN live' : q # r => ChunkExtent(q)' \cap ChunkExtent(r)' = {}
  BY <1>3, <1>4 DEF ChunkState, ChunksAccounted
<1>10. ASSUME NEW i \in Chunks \ unset'
       PROVE  IS_CHUNK_FREE(i)' \/ \E q \in DOMAIN live' : i \in ChunkExtent(q)'
  <2>1. CASE i \in S
    BY <1>1, <2>1 DEF IS_CHUNK_FREE
  <2>2. CASE i \notin S
    <3>1. i \in Chunks \ unset /\ l1_chunk_meta'[i] = l1_chunk_meta[i]
      BY <1>1, <2>2
    <3>2. IS_CHUNK_FREE(i) \/ \E q \in DOMAIN live : i \in ChunkExtent(q)
      BY <3>1 DEF ChunkState, ChunksAccounted
    <3> QED BY <1>2, <1>3, <1>4, <2>2, <3>1, <3>2 DEF IS_CHUNK_FREE
  <2> QED BY <2>1, <2>2
<1>11. ChunksAccounted'
  BY <1>8, <1>9, <1>10 DEF ChunksAccounted
<1> QED BY <1>1, <1>6, <1>11 DEF ChunkState, ChunkFull

LEMMA ChunkSteps ==
  ASSUME ChunkState, ChunkFull, Chunk
  PROVE  ChunkState' /\ ChunkFull'
<1> USE HeapAssumption
<1>1. ASSUME NEW size \in Requests, l1_chunk_malloc(size) PROVE ChunkState' /\ ChunkFull'
  <2>1. CASE size = 0 /\ Refuses(size, l1_errno) /\ UNCHANGED chunkVars
    BY <2>1, ChunkRefuses DEF ChunkState, HeapTypeOK
  <2>2. CASE /\ size > ALLOC8R_HEAP_SIZE \/ (size # 0 /\ Search(chunk_count(size)) = NULL)
             /\ Refuses(size, "ERRNOMEM") /\ UNCHANGED chunkVars
    BY <2>2, ChunkRefuses
  <2>3. CASE /\ size \in 1 .. ALLOC8R_HEAP_SIZE /\ Search(chunk_count(size)) # NULL
             /\ SET(Run(Search(chunk_count(size)), chunk_count(size)), 1)
             /\ header' = [header EXCEPT ![Search(chunk_count(size))] = size]
             /\ Gives(size, Search(chunk_count(size)) + 1)
    BY <2>3, ChunkGives
  <2> QED BY <1>1, <2>1, <2>2, <2>3 DEF l1_chunk_malloc
<1>2. ASSUME NEW p \in DOMAIN live, l1_chunk_free(p) \/ ChunkWrite(p)
      PROVE  ChunkState' /\ ChunkFull'
  BY <1>2, ChunkFrees, ChunkWrites
<1>3. ASSUME NEW i \in Chunks, header[i] = NULL, l1_chunk_free(i + 1)
      PROVE  ChunkState' /\ ChunkFull'
  <2>1. i \in Nat /\ (i + 1) - 1 = i
    BY ArenaType DEF Chunks
  <2>2. i + 1 \notin DOMAIN live
    <3> SUFFICES ASSUME i + 1 \in DOMAIN live PROVE FALSE
      OBVIOUS
    <3>1. header[i] = live[i + 1] /\ live[i + 1] # NULL
      BY <2>1, ExtentIs DEF ChunkState, ChunksAccounted
    <3> QED BY <1>3, <3>1
  <2> QED BY <1>3, <2>1, <2>2, ChunkFrees
<1> QED BY <1>1, <1>2, <1>3 DEF Chunk

-----------------------------------------------------------------------------
(* The free list allocator.  Following links, in at most C steps: from the head, by the
   links nx of the regions R, to null. *)
Linked(g, n, head, R, nx, null) ==
  IF n = 1 THEN head ELSE IF g[n - 1] \in R THEN nx[g[n - 1]] ELSE null

Follows(g, C, head, R, nx, null) == g = [n \in 1 .. C |-> Linked(g, n, head, R, nx, null)]

(* Where K regions are linked. *)
Links(q, K, head, R, nx, null) ==
  /\ \A i \in 1 .. K : q[i] \in R
  /\ head = IF K = 0 THEN null ELSE q[1]
  /\ \A i \in 1 .. K : nx[q[i]] = IF i = K THEN null ELSE q[i + 1]

Padded(q, K, C, null) == [n \in 1 .. C |-> IF n <= K THEN q[n] ELSE null]

LEMMA PaddedFollows ==
  ASSUME NEW C \in Nat \ {0}, NEW K \in Nat, K < C, NEW R, NEW null, null \notin R, NEW nx,
         NEW head, NEW q, Links(q, K, head, R, nx, null)
  PROVE  Follows(Padded(q, K, C, null), C, head, R, nx, null)
<1> DEFINE f == Padded(q, K, C, null)
<1>0. /\ \A n \in 1 .. K : f[n] = q[n]
      /\ \A n \in 1 .. C : n > K => f[n] = null
      /\ f = [n \in 1 .. C |-> f[n]]
  BY DEF Padded
<1>1. /\ \A i \in 1 .. K : q[i] \in R
      /\ head = IF K = 0 THEN null ELSE q[1]
      /\ \A i \in 1 .. K : nx[q[i]] = IF i = K THEN null ELSE q[i + 1]
  BY DEF Links
<1> HIDE DEF f
<1>2. ASSUME NEW n \in 1 .. C PROVE f[n] = Linked(f, n, head, R, nx, null)
  <2>1. CASE n = 1
    <3>1. Linked(f, n, head, R, nx, null) = head
      BY <2>1 DEF Linked
    <3>2. K = 0 => f[n] = null
      BY <1>0, <2>1
    <3>3. K # 0 => f[n] = q[1]
      BY <1>0, <2>1
    <3> QED BY <1>1, <3>1, <3>2, <3>3
  <2>2. CASE n # 1
    <3>0. Linked(f, n, head, R, nx, null) = IF f[n - 1] \in R THEN nx[f[n - 1]] ELSE null
      BY <2>2 DEF Linked
    <3>1. n - 1 \in 1 .. C /\ (n - 1) + 1 = n
      BY <2>2
    <3>2. CASE n <= K
      <4>1. n - 1 \in 1 .. K /\ n - 1 # K /\ n \in 1 .. K
        BY <3>1, <3>2
      <4>2. f[n - 1] = q[n - 1] /\ f[n] = q[n]
        BY <1>0, <4>1
      <4>3. nx[q[n - 1]] = q[n] /\ q[n - 1] \in R
        BY <1>1, <3>1, <4>1
      <4> QED BY <3>0, <4>2, <4>3
    <3>3. CASE n - 1 = K
      <4>1. n - 1 \in 1 .. K /\ n > K
        BY <3>1, <3>3
      <4>2. f[n - 1] = q[n - 1] /\ f[n] = null
        BY <1>0, <4>1
      <4>3. nx[q[n - 1]] = null /\ q[n - 1] \in R
        BY <1>1, <3>3, <4>1
      <4> QED BY <3>0, <4>2, <4>3
    <3>4. CASE n - 1 > K
      <4>1. f[n - 1] = null /\ f[n] = null
        BY <1>0, <3>1, <3>4
      <4> QED BY <3>0, <4>1
    <3> QED BY <3>1, <3>2, <3>3, <3>4
  <2> QED BY <2>1, <2>2
<1>3. f = [n \in 1 .. C |-> Linked(f, n, head, R, nx, null)]
  BY <1>0, <1>2
<1> QED BY <1>3 DEF Follows, f

LEMMA FollowsOnce ==
  ASSUME NEW C \in Nat \ {0}, NEW head, NEW R, NEW nx, NEW null,
         NEW f, Follows(f, C, head, R, nx, null), NEW g, Follows(g, C, head, R, nx, null)
  PROVE  \A n \in 1 .. C : g[n] = f[n]
<1>1. \A n \in 1 .. C : /\ f[n] = Linked(f, n, head, R, nx, null)
                        /\ g[n] = Linked(g, n, head, R, nx, null)
  <2>1. /\ f = [n \in 1 .. C |-> Linked(f, n, head, R, nx, null)]
        /\ g = [n \in 1 .. C |-> Linked(g, n, head, R, nx, null)]
    BY DEF Follows
  <2>2. ASSUME NEW n \in 1 .. C PROVE f[n] = Linked(f, n, head, R, nx, null)
    BY <2>1, Zenon
  <2>3. ASSUME NEW n \in 1 .. C PROVE g[n] = Linked(g, n, head, R, nx, null)
    BY <2>1, Zenon
  <2> QED BY <2>2, <2>3
<1> DEFINE T == {n \in Nat : n + 1 <= C => g[n + 1] = f[n + 1]}
<1>2. 0 \in T
  <2>1. 1 \in 1 .. C /\ 0 + 1 = 1
    OBVIOUS
  <2>2. g[1] = f[1]
    BY <1>1, <2>1 DEF Linked
  <2> QED BY <2>1, <2>2
<1>3. ASSUME NEW n \in Nat, n \in T PROVE n + 1 \in T
  <2> SUFFICES ASSUME (n + 1) + 1 <= C PROVE g[(n + 1) + 1] = f[(n + 1) + 1]
    OBVIOUS
  <2> DEFINE m == (n + 1) + 1
  <2>1. g[n + 1] = f[n + 1] /\ m \in 1 .. C /\ m - 1 = n + 1 /\ m # 1
    BY <1>3
  <2> HIDE DEF m
  <2>2. Linked(g, m, head, R, nx, null) = Linked(f, m, head, R, nx, null)
    BY <2>1 DEF Linked
  <2> QED BY <1>1, <2>1, <2>2 DEF m
<1>4. Nat \subseteq T
  <2> HIDE DEF T
  <2> QED BY <1>2, <1>3, Induction
<1>5. ASSUME NEW n \in 1 .. C PROVE g[n] = f[n]
  <2>1. n - 1 \in Nat /\ (n - 1) + 1 = n
    OBVIOUS
  <2> QED BY <1>4, <2>1
<1> QED BY <1>5

(* The free list as a sequence of K regions: the head, the links, no region twice. *)
Chain(q, K) ==
  /\ K \in Nat /\ q \in [1 .. K -> Regions]
  /\ \A i, j \in 1 .. K : q[i] = q[j] => i = j
  /\ Links(q, K, l1_list_free_head, Regions, next, NULL)

LEMMA RegionsFinite ==
  ASSUME ListTypeOK
  PROVE  /\ IsFiniteSet(Regions) /\ Cardinality(Regions) \in Nat
         /\ Regions \subseteq Nat /\ NULL \notin Regions
<1> USE HeapAssumption, ListAssumption
<1>1. IsFiniteSet(0 .. ALLOC8R_HEAP_SIZE)
  BY FS_Interval
<1>2. Regions \subseteq 0 .. ALLOC8R_HEAP_SIZE
  BY DEF ListTypeOK, Positions
<1>3. IsFiniteSet(Regions)
  BY <1>1, <1>2, FS_Subset
<1>4. Cardinality(Regions) \in Nat
  BY <1>3, FS_CardinalityType
<1>5. Regions \subseteq Nat
  BY <1>2
<1>6. NULL \notin Regions
  <2>1. NULL \notin Nat
    OBVIOUS
  <2> QED BY <1>5, <2>1
<1> QED BY <1>3, <1>4, <1>5, <1>6

(* Following the links gives the chain. *)
LEMMA FreeListIs ==
  ASSUME ListTypeOK, NEW q, NEW K, Chain(q, K)
  PROVE  FreeList = q
<1> DEFINE C == Cardinality(Regions) + 1
           at == CHOOSE g : Follows(g, C, l1_list_free_head, Regions, next, NULL)
           met == {n \in 1 .. C : at[n] # NULL}
           f == Padded(q, K, C, NULL)
<1>1. /\ IsFiniteSet(Regions) /\ Cardinality(Regions) \in Nat /\ NULL \notin Regions
  BY RegionsFinite
<1>2. /\ K \in Nat /\ DOMAIN q = 1 .. K /\ q = [n \in 1 .. K |-> q[n]]
      /\ \A i \in 1 .. K : q[i] \in Regions
      /\ \A i, j \in 1 .. K : q[i] = q[j] => i = j
      /\ Links(q, K, l1_list_free_head, Regions, next, NULL)
  BY DEF Chain
<1>3. FreeList = [n \in 1 .. Cardinality(met) |-> at[n]]
  BY DEF FreeList, Follows, Linked
<1>4. K <= Cardinality(Regions)
  <2>1. q \in Injection(1 .. K, Regions)
    BY <1>2 DEF Injection, IsInjective
  <2>2. Cardinality(1 .. K) <= Cardinality(Regions)
    BY <1>1, <2>1, FS_Injection
  <2>3. Cardinality(1 .. K) = K
    BY <1>2, FS_Interval
  <2> QED BY <2>2, <2>3
<1>5. C \in Nat \ {0} /\ K < C
  BY <1>1, <1>2, <1>4
<1> HIDE DEF C, f
<1>6. Follows(f, C, l1_list_free_head, Regions, next, NULL)
  BY <1>1, <1>2, <1>5, PaddedFollows DEF f
<1>7. Follows(at, C, l1_list_free_head, Regions, next, NULL)
  BY <1>6
<1> HIDE DEF at
<1>8. \A n \in 1 .. C : at[n] = f[n]
  BY <1>5, <1>6, <1>7, FollowsOnce
<1>9. /\ \A n \in 1 .. K : f[n] = q[n] /\ f[n] # NULL
      /\ \A n \in 1 .. C : n > K => f[n] = NULL
  <2>1. ASSUME NEW n \in 1 .. K PROVE f[n] = q[n] /\ f[n] # NULL
    <3>1. n \in 1 .. C /\ n <= K
      BY <1>2, <1>5
    <3>2. f[n] = q[n]
      BY <3>1 DEF f, Padded
    <3> QED BY <1>1, <1>2, <3>2
  <2>2. ASSUME NEW n \in 1 .. C, n > K PROVE f[n] = NULL
    <3>1. ~(n <= K)
      BY <1>2, <2>2
    <3> QED BY <3>1 DEF f, Padded
  <2> QED BY <2>1, <2>2
<1>10. met = 1 .. K
  BY <1>2, <1>5, <1>8, <1>9
<1>11. Cardinality(met) = K
  <2> HIDE DEF met
  <2>1. Cardinality(1 .. K) = K
    BY <1>2, FS_Interval
  <2> QED BY <1>10, <2>1
<1>12. \A n \in 1 .. K : at[n] = q[n]
  BY <1>2, <1>5, <1>8, <1>9
<1>13. FreeList = [n \in 1 .. K |-> q[n]]
  BY <1>3, <1>11, <1>12
<1> QED BY <1>2, <1>13

(* The parts of RegionsAccounted. *)
Tiles ==
  /\ UNION {RegionExtent(r) : r \in Regions} = 0 .. ALLOC8R_HEAP_SIZE - 1
  /\ \A r, s \in Regions : r # s => RegionExtent(r) \cap RegionExtent(s) = {}

Holdings == \A p \in DOMAIN live : p - HEADER \in Regions /\ live[p] <= capacity[p - HEADER]

FreeChain(q, K) ==
  /\ Chain(q, K)
  /\ {q[i] : i \in 1 .. K} = Regions \ {p - HEADER : p \in DOMAIN live}

ListState == HeapTypeOK /\ ListTypeOK /\ Tiles /\ Holdings /\ \E q, K : FreeChain(q, K)

(* No region that is large enough was free when the last request was refused. *)
ListFull == refused \notin {NULL, 0} => ~RegionRoom(refused)

LEMMA StateAccounted ==
  ASSUME ListState
  PROVE  RegionsAccounted
<1>1. PICK q, K : FreeChain(q, K)
  BY DEF ListState
<1>2. FreeList = q
  BY <1>1, FreeListIs DEF ListState, FreeChain
<1>3. DOMAIN q = 1 .. K /\ \A i, j \in 1 .. K : q[i] = q[j] => i = j
  BY <1>1 DEF FreeChain, Chain
<1>4. {FreeList[i] : i \in DOMAIN FreeList} = Regions \ {p - HEADER : p \in DOMAIN live}
  BY <1>1, <1>2, <1>3 DEF FreeChain
<1>5. \A i, j \in DOMAIN FreeList : FreeList[i] = FreeList[j] => i = j
  BY <1>2, <1>3
<1> QED BY <1>4, <1>5 DEF ListState, Tiles, Holdings, RegionsAccounted

-----------------------------------------------------------------------------
(* What it is to be aligned. *)
LEMMA Multiple ==
  ASSUME NEW A \in Nat \ {0}, NEW x \in Nat, x % A = 0
  PROVE  \E i \in Nat : x = i * A
<1>1. x \div A \in Nat /\ x = (x \div A) * A + (x % A) /\ (x \div A) * A \in Nat
  BY DivModNat
<1>2. x = (x \div A) * A
  BY <1>1
<1> QED BY <1>1, <1>2

LEMMA MultipleAligned ==
  ASSUME NEW A \in Nat \ {0}, NEW i \in Nat
  PROVE  i * A \in Nat /\ (i * A) % A = 0
<1>1. 0 \in 0 .. A - 1 /\ i * A \in Nat
  OBVIOUS
<1>2. (i * A + 0) % A = 0
  BY <1>1, DivMod
<1>3. i * A + 0 = i * A
  BY <1>1
<1> QED BY <1>1, <1>2, <1>3

(* Sums and differences of aligned numbers are aligned. *)
LEMMA AlignedSum ==
  ASSUME NEW A \in Nat \ {0}, NEW x \in Nat, NEW y \in Nat, x % A = 0, y % A = 0
  PROVE  (x + y) % A = 0 /\ (x >= y => (x - y) % A = 0)
<1>1. PICK i \in Nat : x = i * A
  BY Multiple
<1>2. PICK j \in Nat : y = j * A
  BY Multiple
<1>3. (x + y) % A = 0
  <2>1. i + j \in Nat /\ x + y = (i + j) * A
    BY <1>1, <1>2
  <2>2. ((i + j) * A) % A = 0
    BY <2>1, MultipleAligned
  <2> QED BY <2>1, <2>2
<1>4. ASSUME x >= y PROVE (x - y) % A = 0
  <2>1. x - y = (i - j) * A
    BY <1>1, <1>2
  <2>2. i - j \in Nat
    <3>1. ASSUME i < j PROVE FALSE
      <4>1. PICK d \in Nat \ {0} : j = i + d
        <5>1. j - i \in Nat \ {0} /\ j = i + (j - i)
          BY <3>1
        <5> QED BY <5>1
      <4>2. y = x + d * A /\ d * A \in Nat \ {0}
        BY <1>1, <1>2, <4>1
      <4> QED BY <1>4, <4>2
    <3> QED BY <3>1
  <2>3. ((i - j) * A) % A = 0
    BY <2>2, MultipleAligned
  <2> QED BY <2>1, <2>3
<1> QED BY <1>3, <1>4

(* What a request takes of a region. *)
LEMMA AlignedSize ==
  ASSUME NEW size \in Nat
  PROVE  /\ aligned_sz(size) \in Nat /\ size <= aligned_sz(size)
         /\ aligned_sz(size) % ALIGN = 0 /\ (size # 0 => aligned_sz(size) # 0)
         /\ \A x \in Nat : x % ALIGN = 0 /\ size <= x => aligned_sz(size) <= x
<1> USE ListAssumption
<1> DEFINE c == Ceiling(size, ALIGN)
<1>1. /\ c \in Nat /\ size <= c * ALIGN /\ c * ALIGN < size + ALIGN
      /\ (size # 0 => c # 0)
  BY CeilingHolds
<1>2. aligned_sz(size) = c * ALIGN
  BY DEF aligned_sz
<1> HIDE DEF c
<1>3. c * ALIGN \in Nat
  BY <1>1, MultipleAligned
<1>4. (c * ALIGN) % ALIGN = 0
  BY <1>1, MultipleAligned
<1>5. size # 0 => c * ALIGN # 0
  BY <1>1
<1>6. ASSUME NEW x \in Nat, x % ALIGN = 0, size <= x PROVE c * ALIGN <= x
  <2>1. PICK i \in Nat : x = i * ALIGN
    BY <1>6, Multiple
  <2>2. c * ALIGN < (i + 1) * ALIGN
    <3>1. (i + 1) * ALIGN = x + ALIGN
      BY <2>1
    <3>2. c * ALIGN < x + ALIGN
      BY <1>1, <1>3, <1>6
    <3> QED BY <3>1, <3>2
  <2>3. c < i + 1
    BY <1>1, <2>1, <2>2, FewerBlocks
  <2>4. c <= i
    BY <1>1, <2>1, <2>3
  <2>5. PICK d \in Nat : i = c + d
    <3>1. i - c \in Nat /\ i = c + (i - c)
      BY <1>1, <2>1, <2>4
    <3> QED BY <3>1
  <2>6. x = c * ALIGN + d * ALIGN /\ d * ALIGN \in Nat
    BY <1>1, <2>1, <2>5
  <2> QED BY <1>3, <2>6
<1> QED BY <1>1, <1>2, <1>3, <1>4, <1>5, <1>6
-----------------------------------------------------------------------------
(* What is done to a chain: one link is replaced, one is left out, one is put in front. *)
Elements(q, K) == {q[j] : j \in 1 .. K}

LinkList(q, K) == q = [j \in 1 .. K |-> q[j]] /\ \A i, j \in 1 .. K : q[i] = q[j] => i = j

Replaced(q, K, i, new) == [j \in 1 .. K |-> IF j = i THEN new ELSE q[j]]

Without(q, K, i) == [j \in 1 .. K - 1 |-> IF j < i THEN q[j] ELSE q[j + 1]]

InFront(q, K, new) == [j \in 1 .. K + 1 |-> IF j = 1 THEN new ELSE q[j - 1]]

Replaces(q, K, i, new, R, head, nx, head2, nx2) ==
  /\ new \notin R /\ nx2[new] = nx[q[i]] /\ (i # 1 => nx2[q[i - 1]] = new)
  /\ \A j \in 1 .. K : j # i /\ j # i - 1 => nx2[q[j]] = nx[q[j]]
  /\ head2 = IF i = 1 THEN new ELSE head

Removes(q, K, i, head, nx, head2, nx2) ==
  /\ i # 1 => nx2[q[i - 1]] = nx[q[i]]
  /\ \A j \in 1 .. K : j # i /\ j # i - 1 => nx2[q[j]] = nx[q[j]]
  /\ head2 = IF i = 1 THEN nx[q[i]] ELSE head

LEMMA LinkReplaced ==
  ASSUME NEW K \in Nat, NEW i \in 1 .. K, NEW q, NEW head, NEW R, NEW nx, NEW null,
         LinkList(q, K), Links(q, K, head, R, nx, null),
         NEW new, NEW nx2, NEW head2, Replaces(q, K, i, new, R, head, nx, head2, nx2)
  PROVE  /\ Links(Replaced(q, K, i, new), K, head2, R \cup {new}, nx2, null)
         /\ LinkList(Replaced(q, K, i, new), K)
<1> DEFINE s == Replaced(q, K, i, new)
<1>1. /\ s[i] = new /\ \A j \in 1 .. K : j # i => s[j] = q[j]
      /\ s = [j \in 1 .. K |-> s[j]]
  BY DEF Replaced
<1>2. /\ \A j \in 1 .. K : q[j] \in R
      /\ head = IF K = 0 THEN null ELSE q[1]
      /\ \A j \in 1 .. K : nx[q[j]] = IF j = K THEN null ELSE q[j + 1]
      /\ \A j, k \in 1 .. K : q[j] = q[k] => j = k
  BY DEF Links, LinkList
<1> HIDE DEF s
<1>0. /\ new \notin R /\ nx2[new] = nx[q[i]] /\ (i # 1 => nx2[q[i - 1]] = new)
      /\ \A j \in 1 .. K : j # i /\ j # i - 1 => nx2[q[j]] = nx[q[j]]
      /\ head2 = IF i = 1 THEN new ELSE head
  BY DEF Replaces
<1>3. ASSUME NEW j \in 1 .. K PROVE nx2[s[j]] = IF j = K THEN null ELSE s[j + 1]
  <2>1. CASE j = i
    <3>1. nx2[s[j]] = IF j = K THEN null ELSE q[j + 1]
      BY <1>0, <1>1, <1>2, <2>1
    <3>2. j # K => s[j + 1] = q[j + 1]
      BY <1>1, <2>1
    <3> QED BY <3>1, <3>2
  <2>2. CASE j = i - 1
    <3>1. s[j] = q[j] /\ j # K /\ j + 1 = i /\ i # 1
      BY <1>1, <2>2
    <3> QED BY <1>0, <1>1, <2>2, <3>1
  <2>3. CASE j # i /\ j # i - 1
    <3>1. s[j] = q[j] /\ nx2[q[j]] = IF j = K THEN null ELSE q[j + 1]
      BY <1>0, <1>1, <1>2, <2>3
    <3>2. j # K => s[j + 1] = q[j + 1]
      BY <1>1, <2>3
    <3> QED BY <3>1, <3>2
  <2> QED BY <2>1, <2>2, <2>3
<1>4. \A j \in 1 .. K : s[j] \in R \cup {new}
  BY <1>0, <1>1, <1>2
<1>5. head2 = IF K = 0 THEN null ELSE s[1]
  BY <1>0, <1>1, <1>2
<1>6. \A j, k \in 1 .. K : s[j] = s[k] => j = k
  BY <1>0, <1>1, <1>2
<1> QED BY <1>1, <1>3, <1>4, <1>5, <1>6 DEF Links, LinkList, s

LEMMA ElementReplaced ==
  ASSUME NEW K \in Nat, NEW q, LinkList(q, K), NEW i \in 1 .. K, NEW new
  PROVE  Elements(Replaced(q, K, i, new), K) = (Elements(q, K) \ {q[i]}) \cup {new}
<1> DEFINE s == Replaced(q, K, i, new)
<1>1. s[i] = new /\ \A j \in 1 .. K : j # i => s[j] = q[j]
  BY DEF Replaced
<1>2. \A j, k \in 1 .. K : q[j] = q[k] => j = k
  BY DEF LinkList
<1> HIDE DEF s
<1>3. ASSUME NEW j \in 1 .. K PROVE s[j] \in ({q[k] : k \in 1 .. K} \ {q[i]}) \cup {new}
  BY <1>1, <1>2
<1>4. ASSUME NEW j \in 1 .. K, q[j] # q[i] PROVE q[j] \in {s[k] : k \in 1 .. K}
  <2>1. s[j] = q[j]
    BY <1>1, <1>4
  <2> QED BY <2>1
<1>5. new \in {s[k] : k \in 1 .. K}
  BY <1>1
<1>6. {s[j] : j \in 1 .. K} = ({q[j] : j \in 1 .. K} \ {q[i]}) \cup {new}
  BY <1>3, <1>4, <1>5
<1> QED BY <1>6 DEF Elements, s

LEMMA LinkRemoved ==
  ASSUME NEW K \in Nat, NEW i \in 1 .. K, NEW q, NEW head, NEW R, NEW nx, NEW null,
         LinkList(q, K), Links(q, K, head, R, nx, null),
         NEW nx2, NEW head2, Removes(q, K, i, head, nx, head2, nx2)
  PROVE  /\ Links(Without(q, K, i), K - 1, head2, R, nx2, null)
         /\ LinkList(Without(q, K, i), K - 1)
         /\ Elements(Without(q, K, i), K - 1) = Elements(q, K) \ {q[i]}
<1> DEFINE s == Without(q, K, i)
<1>1. /\ \A j \in 1 .. K - 1 : j < i => s[j] = q[j]
      /\ \A j \in 1 .. K - 1 : j >= i => s[j] = q[j + 1]
      /\ s = [j \in 1 .. K - 1 |-> s[j]]
  BY DEF Without
<1>2. /\ \A j \in 1 .. K : q[j] \in R
      /\ head = IF K = 0 THEN null ELSE q[1]
      /\ \A j \in 1 .. K : nx[q[j]] = IF j = K THEN null ELSE q[j + 1]
      /\ \A j, k \in 1 .. K : q[j] = q[k] => j = k
  BY DEF Links, LinkList
<1> HIDE DEF s
<1>0. /\ i # 1 => nx2[q[i - 1]] = nx[q[i]]
      /\ \A j \in 1 .. K : j # i /\ j # i - 1 => nx2[q[j]] = nx[q[j]]
      /\ head2 = IF i = 1 THEN nx[q[i]] ELSE head
  BY DEF Removes
<1>3. ASSUME NEW j \in 1 .. K - 1 PROVE nx2[s[j]] = IF j = K - 1 THEN null ELSE s[j + 1]
  <2>1. CASE j < i - 1
    <3>1. s[j] = q[j] /\ j # K - 1 /\ j # K /\ s[j + 1] = q[j + 1]
      BY <1>1, <2>1
    <3>2. nx2[q[j]] = q[j + 1]
      BY <1>0, <1>2, <2>1, <3>1
    <3> QED BY <3>1, <3>2
  <2>2. CASE j = i - 1
    <3>1. s[j] = q[j] /\ i # 1 /\ nx2[q[j]] = nx[q[i]]
      BY <1>0, <1>1, <2>2
    <3>2. nx[q[i]] = IF i = K THEN null ELSE q[i + 1]
      BY <1>2
    <3>3. j # K - 1 => s[j + 1] = q[i + 1] /\ i # K
      <4> SUFFICES ASSUME j # K - 1 PROVE s[j + 1] = q[i + 1] /\ i # K
        OBVIOUS
      <4>1. i \in 1 .. K - 1 /\ j + 1 = i
        BY <2>2
      <4> QED BY <1>1, <4>1
    <3> QED BY <2>2, <3>1, <3>2, <3>3
  <2>3. CASE j > i - 1
    <3>1. s[j] = q[j + 1] /\ j + 1 \in 1 .. K /\ j + 1 # i /\ j + 1 # i - 1
      BY <1>1, <2>3
    <3>2. nx2[q[j + 1]] = IF j + 1 = K THEN null ELSE q[(j + 1) + 1]
      BY <1>0, <1>2, <3>1
    <3>3. ASSUME j # K - 1 PROVE s[j + 1] = q[(j + 1) + 1]
      <4>1. j + 1 \in 1 .. K - 1 /\ j + 1 >= i
        BY <2>3, <3>3
      <4> QED BY <1>1, <4>1
    <3> QED BY <3>1, <3>2, <3>3
  <2> QED BY <2>1, <2>2, <2>3
<1>4. \A j \in 1 .. K - 1 : s[j] \in R
  <2> TAKE j \in 1 .. K - 1
  <2>1. j \in 1 .. K /\ j + 1 \in 1 .. K
    OBVIOUS
  <2> QED BY <1>0, <1>1, <1>2, <2>1
<1>5. head2 = IF K - 1 = 0 THEN null ELSE s[1]
  <2>1. CASE i = 1
    <3>1. head2 = IF 1 = K THEN null ELSE q[1 + 1]
      BY <1>0, <1>2, <2>1
    <3>2. K # 1 => s[1] = q[1 + 1]
      BY <1>1, <2>1
    <3> QED BY <3>1, <3>2
  <2>2. CASE i # 1
    <3>1. head2 = q[1] /\ K # 1 /\ s[1] = q[1]
      BY <1>0, <1>1, <1>2, <2>2
    <3> QED BY <3>1
  <2> QED BY <2>1, <2>2
<1>6. ASSUME NEW j \in 1 .. K - 1, NEW k \in 1 .. K - 1, s[j] = s[k] PROVE j = k
  <2>1. \A m \in 1 .. K - 1 : s[m] = q[IF m < i THEN m ELSE m + 1]
    BY <1>1
  <2> DEFINE f(m) == IF m < i THEN m ELSE m + 1
  <2>2. f(j) \in 1 .. K /\ f(k) \in 1 .. K /\ q[f(j)] = q[f(k)]
    BY <1>6, <2>1
  <2>3. f(j) = f(k)
    BY <1>2, <2>2
  <2> QED BY <2>3
<1>7. {s[j] : j \in 1 .. K - 1} = {q[j] : j \in 1 .. K} \ {q[i]}
  <2>1. ASSUME NEW j \in 1 .. K - 1 PROVE s[j] \in {q[k] : k \in 1 .. K} \ {q[i]}
    <3>1. CASE j < i
      <4>1. s[j] = q[j] /\ j \in 1 .. K /\ j # i
        BY <1>1, <3>1
      <4> QED BY <1>2, <4>1
    <3>2. CASE j >= i
      <4>1. s[j] = q[j + 1] /\ j + 1 \in 1 .. K /\ j + 1 # i
        BY <1>1, <3>2
      <4> QED BY <1>2, <4>1
    <3> QED BY <3>1, <3>2
  <2>2. ASSUME NEW j \in 1 .. K, q[j] # q[i] PROVE q[j] \in {s[k] : k \in 1 .. K - 1}
    <3>1. CASE j < i
      <4>1. j \in 1 .. K - 1 /\ s[j] = q[j]
        BY <1>1, <3>1
      <4> QED BY <4>1
    <3>2. CASE j > i
      <4>1. j - 1 \in 1 .. K - 1 /\ s[j - 1] = q[(j - 1) + 1] /\ (j - 1) + 1 = j
        BY <1>1, <3>2
      <4> QED BY <4>1
    <3> QED BY <2>2, <3>1, <3>2
  <2> QED BY <2>1, <2>2
<1> QED BY <1>1, <1>3, <1>4, <1>5, <1>6, <1>7 DEF Links, LinkList, Elements, s

LEMMA LinkInFront ==
  ASSUME NEW K \in Nat, NEW q, NEW head, NEW R, NEW nx, NEW null,
         LinkList(q, K), Links(q, K, head, R, nx, null),
         NEW new \in R, \A j \in 1 .. K : q[j] # new,
         NEW nx2, nx2[new] = head, \A j \in 1 .. K : nx2[q[j]] = nx[q[j]]
  PROVE  /\ Links(InFront(q, K, new), K + 1, new, R, nx2, null)
         /\ LinkList(InFront(q, K, new), K + 1)
         /\ Elements(InFront(q, K, new), K + 1) = Elements(q, K) \cup {new}
<1> DEFINE s == InFront(q, K, new)
<1>1. /\ s[1] = new /\ \A j \in 1 .. K + 1 : j # 1 => s[j] = q[j - 1]
      /\ s = [j \in 1 .. K + 1 |-> s[j]]
  BY DEF InFront
<1>2. /\ \A j \in 1 .. K : q[j] \in R
      /\ head = IF K = 0 THEN null ELSE q[1]
      /\ \A j \in 1 .. K : nx[q[j]] = IF j = K THEN null ELSE q[j + 1]
      /\ \A j, k \in 1 .. K : q[j] = q[k] => j = k
  BY DEF Links, LinkList
<1> HIDE DEF s
<1>3. \A j \in 1 .. K + 1 : j # 1 => j - 1 \in 1 .. K
  OBVIOUS
<1>4. ASSUME NEW j \in 1 .. K + 1 PROVE nx2[s[j]] = IF j = K + 1 THEN null ELSE s[j + 1]
  <2>0. ASSUME j # K + 1 PROVE s[j + 1] = q[j]
    <3>1. j + 1 \in 1 .. K + 1 /\ j + 1 # 1 /\ (j + 1) - 1 = j
      BY <2>0
    <3> QED BY <1>1, <3>1
  <2>1. CASE j = 1
    <3>1. nx2[s[j]] = IF K = 0 THEN null ELSE q[1]
      BY <1>1, <1>2, <2>1
    <3>2. (j = K + 1) <=> (K = 0)
      BY <2>1
    <3> QED BY <2>0, <2>1, <3>1, <3>2
  <2>2. CASE j # 1
    <3> DEFINE k == j - 1
    <3>1. k \in 1 .. K /\ s[j] = q[k] /\ (k = K <=> j = K + 1) /\ k + 1 = j
      BY <1>1, <2>2
    <3> HIDE DEF k
    <3>2. nx2[q[k]] = IF k = K THEN null ELSE q[k + 1]
      BY <1>2, <3>1
    <3> QED BY <2>0, <3>1, <3>2
  <2> QED BY <2>1, <2>2
<1>5. ASSUME NEW j \in 1 .. K + 1 PROVE s[j] \in R
  <2>1. j # 1 => j - 1 \in 1 .. K
    BY <1>3
  <2> QED BY <1>1, <1>2, <2>1
<1>6. \A j, k \in 1 .. K + 1 : s[j] = s[k] => j = k
  <2> SUFFICES ASSUME NEW j \in 1 .. K + 1, NEW k \in 1 .. K + 1, s[j] = s[k] PROVE j = k
    OBVIOUS
  <2>1. /\ j # 1 => j - 1 \in 1 .. K /\ s[j] = q[j - 1]
        /\ k # 1 => k - 1 \in 1 .. K /\ s[k] = q[k - 1]
    BY <1>1, <1>3
  <2>2. CASE j # 1 /\ k # 1
    <3>1. j - 1 = k - 1
      BY <1>2, <2>1, <2>2
    <3> QED BY <3>1
  <2> QED BY <1>1, <2>1, <2>2
<1>7. {s[j] : j \in 1 .. K + 1} = {q[j] : j \in 1 .. K} \cup {new}
  <2>1. ASSUME NEW j \in 1 .. K + 1 PROVE s[j] \in {q[k] : k \in 1 .. K} \cup {new}
    <3>1. j # 1 => j - 1 \in 1 .. K /\ s[j] = q[j - 1]
      BY <1>1, <1>3
    <3> QED BY <1>1, <3>1
  <2>2. ASSUME NEW j \in 1 .. K PROVE q[j] \in {s[k] : k \in 1 .. K + 1}
    <3>1. j + 1 \in 1 .. K + 1 /\ j + 1 # 1 /\ (j + 1) - 1 = j
      OBVIOUS
    <3>2. s[j + 1] = q[j]
      BY <1>1, <3>1
    <3> QED BY <3>1, <3>2
  <2>3. new \in {s[k] : k \in 1 .. K + 1}
    BY <1>1
  <2> QED BY <2>1, <2>2, <2>3
<1>8. new = IF K + 1 = 0 THEN null ELSE s[1]
  BY <1>1
<1> QED BY <1>1, <1>4, <1>5, <1>6, <1>7, <1>8 DEF Links, LinkList, Elements, s
-----------------------------------------------------------------------------
(* The steps of the free list allocator. *)
LEMMA RegionType ==
  ASSUME HeapTypeOK, ListTypeOK, Tiles, NEW r \in Regions
  PROVE  /\ r \in Nat /\ r % ALIGN = 0 /\ r \in Positions
         /\ capacity[r] \in Nat \ {0} /\ capacity[r] % ALIGN = 0
         /\ r + HEADER + capacity[r] <= ALLOC8R_HEAP_SIZE
         /\ r \in RegionExtent(r)
<1> USE HeapAssumption, ListAssumption
<1>1. r \in Positions /\ capacity[r] \in Positions /\ capacity[r] # 0
  BY DEF ListTypeOK
<1>2. r \in Nat /\ r % ALIGN = 0
  BY <1>1 DEF Positions
<1>3. capacity[r] \in Nat /\ capacity[r] % ALIGN = 0
  BY <1>1 DEF Positions
<1>4. RegionExtent(r) = r .. r + HEADER + capacity[r] - 1
  BY DEF RegionExtent
<1>5. RegionExtent(r) \subseteq 0 .. ALLOC8R_HEAP_SIZE - 1
  BY DEF Tiles
<1>6. r \in RegionExtent(r) /\ r + HEADER + capacity[r] - 1 \in RegionExtent(r)
  BY <1>1, <1>2, <1>3, <1>4
<1>7. r + HEADER + capacity[r] - 1 \in 0 .. ALLOC8R_HEAP_SIZE - 1
  BY <1>5, <1>6
<1> QED BY <1>1, <1>2, <1>3, <1>6, <1>7

LEMMA LiveType ==
  ASSUME HeapTypeOK, NEW p \in DOMAIN live
  PROVE  p \in Nat /\ live[p] \in Nat \ {0}
<1> USE HeapAssumption
<1>1. p \in 0 .. ALLOC8R_HEAP_SIZE /\ live[p] \in Requests /\ live[p] # 0
  BY DEF HeapTypeOK
<1>2. p \in Nat
  BY <1>1
<1>3. live[p] \in Nat
  BY <1>1
<1> QED BY <1>1, <1>2, <1>3

(* The regions whose data the client holds. *)
InUse == {p - HEADER : p \in DOMAIN live}

LEMMA InUseIs ==
  ASSUME HeapTypeOK, NEW r \in Nat
  PROVE  r \in InUse <=> r + HEADER \in DOMAIN live
<1> USE ListAssumption
<1>1. ASSUME r \in InUse PROVE r + HEADER \in DOMAIN live
  <2>1. PICK p \in DOMAIN live : r = p - HEADER
    BY <1>1 DEF InUse
  <2>2. r + HEADER = p
    BY <2>1, LiveType
  <2> QED BY <2>1, <2>2
<1>2. ASSUME r + HEADER \in DOMAIN live PROVE r \in InUse
  <2>1. r = (r + HEADER) - HEADER
    OBVIOUS
  <2> QED BY <1>2, <2>1 DEF InUse
<1> QED BY <1>1, <1>2

LEMMA ChainIs ==
  ASSUME NEW q, NEW K
  PROVE  FreeChain(q, K) <=>
           /\ K \in Nat /\ LinkList(q, K)
           /\ Links(q, K, l1_list_free_head, Regions, next, NULL)
           /\ Elements(q, K) = Regions \ InUse
<1>1. ASSUME FreeChain(q, K) PROVE LinkList(q, K)
  <2>1. q \in [1 .. K -> Regions] /\ \A i, j \in 1 .. K : q[i] = q[j] => i = j
    BY <1>1 DEF FreeChain, Chain
  <2> QED BY <2>1 DEF LinkList
<1>2. ASSUME LinkList(q, K), Links(q, K, l1_list_free_head, Regions, next, NULL)
      PROVE  q \in [1 .. K -> Regions]
  <2>1. q = [j \in 1 .. K |-> q[j]] /\ \A j \in 1 .. K : q[j] \in Regions
    BY <1>2 DEF Links, LinkList
  <2> QED BY <2>1
<1>3. ASSUME LinkList(q, K) PROVE \A i, j \in 1 .. K : q[i] = q[j] => i = j
  BY <1>3 DEF LinkList
<1> QED BY <1>1, <1>2, <1>3 DEF FreeChain, Chain, InUse, Elements

LEMMA ChainNext ==
  ASSUME NEW q, NEW K \in Nat, LinkList(q, K),
         Links(q, K, l1_list_free_head', Regions', next', NULL),
         Elements(q, K) = Regions' \ InUse'
  PROVE  FreeChain(q, K)'
<1>1. q \in [1 .. K -> Regions']
  <2>1. q = [j \in 1 .. K |-> q[j]] /\ \A j \in 1 .. K : q[j] \in Regions'
    BY DEF Links, LinkList
  <2> QED BY <2>1
<1>2. \A i, j \in 1 .. K : q[i] = q[j] => i = j
  BY DEF LinkList
<1> QED BY <1>1, <1>2 DEF FreeChain, Chain, InUse, Elements

LEMMA ListRefuses ==
  ASSUME ListState, NEW size \in Requests, NEW errno \in {"SUCCESS", "ERRNOMEM"},
         Refuses(size, errno), UNCHANGED listVars,
         size # 0 => size > ALLOC8R_HEAP_SIZE - HEADER \/ FirstFit(size) = {}
  PROVE  ListState' /\ ListFull'
<1> USE HeapAssumption, ListAssumption
<1>1. ListState'
  <2>1. UNCHANGED <<l1_list_free_head, capacity, next, live>> /\ refused' = size
        /\ l1_errno' = errno
    BY DEF Refuses, listVars
  <2>2. HeapTypeOK' /\ ListTypeOK' /\ Tiles' /\ Holdings'
    BY <2>1 DEF ListState, HeapTypeOK, ListTypeOK, Tiles, Holdings, Regions, RegionExtent
  <2>3. PICK q, K : FreeChain(q, K)
    BY DEF ListState
  <2>4. FreeChain(q, K)'
    BY <2>1, <2>3 DEF FreeChain, Chain, Regions
  <2> QED BY <2>2, <2>4 DEF ListState
<1>2. ASSUME size # 0, RegionRoom(size) PROVE FALSE
  <2>1. PICK r \in Regions : r + HEADER \notin DOMAIN live /\ capacity[r] >= size
    BY <1>2 DEF RegionRoom
  <2>2. size \in Nat /\ r \in Nat /\ capacity[r] \in Nat /\ capacity[r] % ALIGN = 0
        /\ r + HEADER + capacity[r] <= ALLOC8R_HEAP_SIZE
    BY RegionType DEF ListState
  <2>3. FirstFit(size) = {}
    BY <1>2, <2>1, <2>2
  <2>4. PICK q, K : FreeChain(q, K)
    BY DEF ListState
  <2>5. /\ FreeList = q /\ DOMAIN q = 1 .. K /\ K \in Nat
        /\ \A i \in 1 .. K : q[i] \in Regions
        /\ {q[i] : i \in 1 .. K} = Regions \ InUse
    BY <2>4, FreeListIs DEF ListState, FreeChain, Chain, InUse
  <2>6. aligned_sz(size) \in Nat /\ capacity[r] >= aligned_sz(size)
    BY <2>1, <2>2, AlignedSize
  <2>7. r \notin InUse
    BY <2>1, <2>2, InUseIs DEF ListState
  <2> DEFINE T == {i \in 1 .. K : capacity[q[i]] >= aligned_sz(size)}
  <2>8. PICK k \in 1 .. K : q[k] = r
    <3>1. r \in {q[i] : i \in 1 .. K}
      BY <2>5, <2>7
    <3> QED BY <3>1
  <2>9. k \in T /\ T \subseteq Nat
    BY <2>6, <2>8
  <2>10. PICK i \in T : \A j \in T : i <= j
    <3> HIDE DEF T
    <3> QED BY <2>9, LeastNumber
  <2>11. ASSUME NEW j \in 1 .. i - 1 PROVE capacity[q[j]] < aligned_sz(size)
    <3>1. j \in 1 .. K /\ j \notin T
      BY <2>5, <2>10
    <3>2. capacity[q[j]] \in Nat
      BY <2>5, <3>1, RegionType DEF ListState
    <3> QED BY <2>6, <3>1, <3>2
  <2>12. i \in FirstFit(size)
    BY <2>5, <2>10, <2>11 DEF FirstFit
  <2> QED BY <2>3, <2>12
<1>3. ListFull'
  <2>1. refused' = size
    BY DEF Refuses
  <2>2. RegionRoom(refused)' => RegionRoom(size)
    BY <2>1 DEF Refuses, RegionRoom, Regions, listVars
  <2> QED BY <1>2, <2>1, <2>2 DEF ListFull
<1> QED BY <1>1, <1>3

(* The regions as they are after one has been taken, and perhaps split. *)
LEMMA TakeTiles ==
  ASSUME HeapTypeOK, ListTypeOK, Tiles, NEW cur \in Regions, NEW prev, NEW size \in Nat \ {0},
         capacity[cur] >= aligned_sz(size), Take(cur, prev, size)
  PROVE  LET rest == cur + HEADER + aligned_sz(size)
             split == capacity[cur] >= aligned_sz(size) + min_reg_sz
         IN  /\ Tiles'
             /\ Regions' = IF split THEN Regions \cup {rest} ELSE Regions
             /\ split => rest \notin Regions
             /\ Regions' \subseteq Positions
             /\ \A r \in Regions' : capacity'[r] \in Positions \ {0}
             /\ capacity'[cur] >= size
             /\ \A r \in Regions : r # cur => capacity'[r] = capacity[r]
<1> USE HeapAssumption, ListAssumption
<1> DEFINE a == aligned_sz(size)
           c == capacity[cur]
           rest == cur + HEADER + a
           split == c >= a + min_reg_sz
           added == IF split THEN {rest} ELSE {}
           left == c - HEADER - a
<1>1. a \in Nat \ {0} /\ size <= a /\ a % ALIGN = 0
  BY AlignedSize
<1>2. /\ cur \in Nat /\ cur % ALIGN = 0 /\ c \in Nat \ {0} /\ c % ALIGN = 0
      /\ cur + HEADER + c <= ALLOC8R_HEAP_SIZE /\ cur \in RegionExtent(cur)
  BY RegionType
<1>3. capacity' = [r \in Regions \cup added |->
                     CASE r = cur /\ split -> a [] r \in added -> left [] OTHER -> capacity[r]]
  BY DEF Take
<1>4. c >= a
  OBVIOUS
<1> HIDE DEF a, c
<1>5. CASE ~split
  <2>1. Regions' = Regions /\ \A r \in Regions : capacity'[r] = capacity[r]
    BY <1>3, <1>5 DEF Regions
  <2>2. \A r \in Regions : RegionExtent(r)' = RegionExtent(r)
    BY <2>1 DEF RegionExtent
  <2>3. Tiles'
    BY <2>1, <2>2 DEF Tiles
  <2>4. /\ Regions' \subseteq Positions
        /\ \A r \in Regions' : capacity'[r] \in Positions \ {0}
    BY <2>1 DEF ListTypeOK
  <2>5. capacity'[cur] >= size
    BY <1>1, <1>2, <1>4, <2>1 DEF c
  <2> QED BY <1>5, <2>1, <2>3, <2>4, <2>5 DEF a, c
<1>6. CASE split
  <2>1. rest \in RegionExtent(cur) /\ rest # cur /\ rest \in Nat
    BY <1>1, <1>2, <1>6 DEF RegionExtent, min_reg_sz, c
  <2>2. rest \notin Regions
    <3> SUFFICES ASSUME rest \in Regions PROVE FALSE
      OBVIOUS
    <3>1. rest \in RegionExtent(rest)
      BY RegionType
    <3> QED BY <2>1, <3>1 DEF Tiles
  <2>3. /\ Regions' = Regions \cup {rest}
        /\ capacity'[cur] = a /\ capacity'[rest] = left
        /\ \A r \in Regions : r # cur => capacity'[r] = capacity[r]
    <3>1. added = {rest}
      BY <1>6
    <3> HIDE DEF rest, split, left
    <3>2. Regions' = Regions \cup {rest}
      BY <1>3, <3>1 DEF Regions
    <3>3. capacity'[cur] = a
      BY <1>3, <1>6, <2>1, <3>1
    <3>4. capacity'[rest] = left
      BY <1>3, <2>1, <3>1
    <3>5. ASSUME NEW r \in Regions, r # cur PROVE capacity'[r] = capacity[r]
      BY <1>3, <2>2, <3>1, <3>5
    <3> QED BY <3>2, <3>3, <3>4, <3>5
  <2>4. left \in Positions \ {0} /\ a \in Positions \ {0} /\ rest \in Positions
    <3>1. (HEADER + a) \in Nat /\ (HEADER + a) % ALIGN = 0
      <4>1. HEADER \in Nat /\ HEADER % ALIGN = 0 /\ a \in Nat /\ ALIGN \in Nat \ {0}
        BY <1>1
      <4>2. (HEADER + a) % ALIGN = 0
        BY <1>1, <4>1, AlignedSum
      <4> QED BY <4>1, <4>2
    <3>2. (c - (HEADER + a)) % ALIGN = 0 /\ (cur + (HEADER + a)) % ALIGN = 0
      <4>1. c >= HEADER + a
        BY <1>1, <1>2, <1>6 DEF min_reg_sz
      <4>2. PICK y \in Nat : y = HEADER + a
        BY <3>1
      <4>3. ALIGN \in Nat \ {0} /\ y % ALIGN = 0 /\ c >= y
        BY <1>1, <3>1, <4>1, <4>2
      <4>4. c \in Nat /\ c % ALIGN = 0 /\ cur \in Nat /\ cur % ALIGN = 0
        BY <1>1, <1>2
      <4>5. (c - y) % ALIGN = 0
        BY <4>3, <4>4, AlignedSum
      <4>6. (cur + y) % ALIGN = 0
        BY <4>3, <4>4, AlignedSum
      <4> QED BY <4>2, <4>5, <4>6
    <3>3. left = c - (HEADER + a) /\ rest = cur + (HEADER + a)
      BY <1>1, <1>2
    <3>4. left \in 1 .. ALLOC8R_HEAP_SIZE /\ rest \in 0 .. ALLOC8R_HEAP_SIZE
          /\ a \in 1 .. ALLOC8R_HEAP_SIZE
      BY <1>1, <1>2, <1>6 DEF min_reg_sz
    <3> HIDE DEF left, rest
    <3>5. left % ALIGN = 0 /\ rest % ALIGN = 0
      BY <3>2, <3>3
    <3> QED BY <1>1, <3>4, <3>5 DEF Positions
  <2>5. RegionExtent(cur)' = cur .. rest - 1 /\ RegionExtent(rest)' = rest .. cur + HEADER + c - 1
    <3>1. RegionExtent(cur)' = cur .. cur + HEADER + a - 1
      BY <2>3 DEF RegionExtent
    <3>2. RegionExtent(rest)' = rest .. rest + HEADER + left - 1
      BY <2>3 DEF RegionExtent
    <3>3. /\ rest + HEADER + left - 1 = cur + HEADER + c - 1
          /\ rest - 1 = cur + HEADER + a - 1
      BY <1>1, <1>2
    <3>4. RegionExtent(cur)' = cur .. rest - 1
      BY <3>1, <3>3
    <3>5. RegionExtent(rest)' = rest .. cur + HEADER + c - 1
      <4> HIDE DEF rest, left
      <4> QED BY <3>2, <3>3
    <3> QED BY <3>4, <3>5
  <2>6. \A r \in Regions : r # cur => RegionExtent(r)' = RegionExtent(r)
    BY <2>3 DEF RegionExtent
  <2>7. /\ RegionExtent(cur)' \cup RegionExtent(rest)' = RegionExtent(cur)
        /\ RegionExtent(cur)' \cap RegionExtent(rest)' = {}
    <3>1. RegionExtent(cur) = cur .. cur + HEADER + c - 1
      BY DEF RegionExtent, c
    <3>2. rest \in cur .. cur + HEADER + c - 1
      BY <2>1, <3>1
    <3> HIDE DEF rest
    <3> QED BY <1>2, <2>1, <2>5, <3>1, <3>2
  <2> HIDE DEF rest, left
  <2>8. UNION {RegionExtent(r)' : r \in Regions'} = 0 .. ALLOC8R_HEAP_SIZE - 1
    <3>1. UNION {RegionExtent(r)' : r \in Regions'} = UNION {RegionExtent(r) : r \in Regions}
      <4>1. ASSUME NEW r \in Regions', NEW x \in RegionExtent(r)'
            PROVE  \E s \in Regions : x \in RegionExtent(s)
        BY <2>3, <2>6, <2>7
      <4>2. ASSUME NEW r \in Regions, NEW x \in RegionExtent(r)
            PROVE  \E s \in Regions' : x \in RegionExtent(s)'
        BY <2>3, <2>6, <2>7
      <4> QED BY <4>1, <4>2
    <3> QED BY <3>1 DEF Tiles
  <2>9. ASSUME NEW r \in Regions', NEW s \in Regions', r # s
        PROVE  RegionExtent(r)' \cap RegionExtent(s)' = {}
    <3>1. \A t \in Regions : t # cur => RegionExtent(t) \cap RegionExtent(cur) = {}
      BY DEF Tiles
    <3>2. \A t, u \in Regions : t # u => RegionExtent(t) \cap RegionExtent(u) = {}
      BY DEF Tiles
    <3> QED BY <2>3, <2>6, <2>7, <2>9, <3>1, <3>2
  <2>10. Tiles'
    BY <2>8, <2>9 DEF Tiles
  <2>11. /\ Regions' \subseteq Positions
         /\ \A r \in Regions' : capacity'[r] \in Positions \ {0}
    BY <2>3, <2>4 DEF ListTypeOK
  <2>12. capacity'[cur] >= size
    BY <1>1, <2>3
  <2> QED BY <1>6, <2>2, <2>3, <2>10, <2>11, <2>12 DEF a, c, rest
<1> QED BY <1>5, <1>6
(* The free list as it is after the region in its place i has been taken. *)
LEMMA TakeChain ==
  ASSUME ListTypeOK, HeapTypeOK, Holdings, NEW q, NEW K, FreeChain(q, K), NEW i \in 1 .. K,
         NEW size, Take(q[i], IF i = 1 THEN NULL ELSE q[i - 1], size),
         LET rest == q[i] + HEADER + aligned_sz(size)
             split == capacity[q[i]] >= aligned_sz(size) + min_reg_sz
         IN  /\ Regions' = IF split THEN Regions \cup {rest} ELSE Regions
             /\ split => rest \notin Regions,
         Regions' \subseteq Positions, \A r \in Regions' : capacity'[r] \in Positions \ {0}
  PROVE  /\ ListTypeOK'
         /\ \E s, L : /\ L \in Nat /\ LinkList(s, L)
                      /\ Links(s, L, l1_list_free_head', Regions', next', NULL)
                      /\ Elements(s, L) = (Regions' \ InUse) \ {q[i]}
<1> USE HeapAssumption, ListAssumption
<1> DEFINE cur == q[i]
           prev == IF i = 1 THEN NULL ELSE q[i - 1]
           rest == cur + HEADER + aligned_sz(size)
           split == capacity[cur] >= aligned_sz(size) + min_reg_sz
           added == IF split THEN {rest} ELSE {}
           successor == IF split THEN rest ELSE next[cur]
<1>1. /\ K \in Nat /\ LinkList(q, K)
      /\ Links(q, K, l1_list_free_head, Regions, next, NULL)
      /\ Elements(q, K) = Regions \ InUse
  BY ChainIs
<1>2. /\ \A j, k \in 1 .. K : q[j] = q[k] => j = k
      /\ \A j \in 1 .. K : q[j] \in Regions
      /\ \A j \in 1 .. K : next[q[j]] = IF j = K THEN NULL ELSE q[j + 1]
  BY <1>1 DEF LinkList, Links
<1>3. NULL \notin Regions
  BY RegionsFinite
<1>4. /\ next' = [r \in Regions \cup added |->
                    CASE r = cur -> NULL [] r \in added -> next[cur]
                      [] r = prev -> successor [] OTHER -> next[r]]
      /\ l1_list_free_head' = IF prev = NULL THEN successor ELSE l1_list_free_head
      /\ capacity' = [r \in Regions \cup added |-> capacity'[r]]
  BY SMTT(30) DEF Take
<1>5. /\ Regions' = Regions \cup added /\ DOMAIN next' = Regions'
      /\ added \cap Regions = {} /\ NULL \notin added
  <2>1. Regions' = Regions \cup added
    OBVIOUS
  <2>2. NULL \notin Regions'
    <3>1. \A r \in Positions : r \in Int
      BY DEF Positions
    <3> QED BY <3>1
  <2> QED BY <1>4, <2>1, <2>2
<1>6. cur \in Regions /\ cur \notin added
  BY <1>2, <1>5
<1> HIDE DEF cur, rest, split, added, successor
<1>7. /\ prev = NULL <=> i = 1
      /\ i # 1 => prev = q[i - 1] /\ i - 1 \in 1 .. K /\ prev \in Regions
  <2>1. i # 1 => i - 1 \in 1 .. K
    BY <1>1
  <2>2. i # 1 => prev = q[i - 1] /\ prev \in Regions
    BY <1>2, <2>1
  <2>3. i = 1 => prev = NULL
    OBVIOUS
  <2> HIDE DEF prev
  <2> QED BY <1>3, <2>1, <2>2, <2>3
<1> HIDE DEF prev
<1>8. /\ \A r \in Regions : r # cur /\ r # prev => next'[r] = next[r]
      /\ \A r \in added : next'[r] = next[cur]
      /\ i # 1 => next'[prev] = successor
      /\ next'[cur] = NULL
  <2>1. ASSUME NEW r \in Regions, r # cur, r # prev PROVE next'[r] = next[r]
    <3>1. r \notin added
      BY <1>5
    <3> QED BY <1>4, <2>1, <3>1
  <2>2. ASSUME NEW r \in added PROVE next'[r] = next[cur]
    <3>1. r # cur
      BY <1>6
    <3>2. r # prev
      BY <1>5, <1>7
    <3> QED BY <1>4, <3>1, <3>2
  <2>3. ASSUME i # 1 PROVE next'[prev] = successor
    <3>1. prev # cur
      BY <1>2, <1>7, <2>3 DEF cur
    <3>2. prev \notin added
      BY <1>5, <1>7, <2>3
    <3> QED BY <1>4, <1>7, <2>3, <3>1, <3>2
  <2>4. next'[cur] = NULL
    <3>1. cur # prev
      BY <1>2, <1>3, <1>6, <1>7 DEF cur
    <3> QED BY <1>4, <1>6, <3>1
  <2> QED BY <2>1, <2>2, <2>3, <2>4
<1>9. \A j \in 1 .. K : j # i /\ j # i - 1 => next'[q[j]] = next[q[j]]
  <2> SUFFICES ASSUME NEW j \in 1 .. K, j # i, j # i - 1 PROVE next'[q[j]] = next[q[j]]
    OBVIOUS
  <2>1. q[j] # cur
    BY <1>2 DEF cur
  <2>2. q[j] # prev
    BY <1>2, <1>3, <1>7
  <2> QED BY <1>2, <1>8, <2>1, <2>2
<1>10. successor \in Regions' \cup {NULL}
  <2>1. next[cur] = IF i = K THEN NULL ELSE q[i + 1]
    BY <1>2 DEF cur
  <2>2. next[cur] \in Regions \cup {NULL}
    <3>1. i # K => i + 1 \in 1 .. K
      BY <1>1
    <3> QED BY <1>2, <2>1, <3>1
  <2> QED BY <1>5, <2>2 DEF successor, added
<1>11. ListTypeOK'
  <2>1. l1_list_free_head \in Regions \cup {NULL} /\ DOMAIN next = Regions
        /\ \A r \in Regions : next[r] \in Regions \cup {NULL, DATA}
    BY DEF ListTypeOK
  <2>2. l1_list_free_head' \in Regions' \cup {NULL}
    BY <1>4, <1>5, <1>10, <2>1
  <2>3. ASSUME NEW r \in Regions' PROVE next'[r] \in Regions' \cup {NULL, DATA}
    <3>1. CASE r = cur
      BY <1>8, <3>1
    <3>2. CASE r = prev
      <4>1. i # 1
        BY <1>3, <1>5, <1>7, <3>2
      <4> QED BY <1>8, <1>10, <3>2, <4>1
    <3>3. CASE r \in added
      <4>1. next'[r] = next[cur]
        BY <1>8, <3>3
      <4> QED BY <1>5, <1>6, <2>1, <4>1
    <3>4. CASE r \in Regions /\ r # cur /\ r # prev
      <4>1. next'[r] = next[r]
        BY <1>8, <3>4
      <4> QED BY <1>5, <2>1, <3>4, <4>1
    <3> QED BY <1>5, <3>1, <3>2, <3>3, <3>4
  <2> QED BY <1>5, <2>2, <2>3 DEF ListTypeOK
<1>12. CASE split
  <2>1. added = {rest} /\ successor = rest
    BY <1>12 DEF added, successor
  <2>2. /\ rest \notin Regions /\ next'[rest] = next[q[i]]
        /\ i # 1 => next'[q[i - 1]] = rest
        /\ l1_list_free_head' = IF i = 1 THEN rest ELSE l1_list_free_head
    BY <1>4, <1>5, <1>7, <1>8, <2>1 DEF cur
  <2> DEFINE s == Replaced(q, K, i, rest)
  <2>3. /\ Links(s, K, l1_list_free_head', Regions \cup {rest}, next', NULL)
        /\ LinkList(s, K)
        /\ Elements(s, K) = (Elements(q, K) \ {q[i]}) \cup {rest}
    <3>1. Replaces(q, K, i, rest, Regions, l1_list_free_head, next, l1_list_free_head', next')
      BY <1>9, <2>2 DEF Replaces
    <3>2. Links(s, K, l1_list_free_head', Regions \cup {rest}, next', NULL)
      BY <1>1, <3>1, LinkReplaced, Zenon
    <3>3. LinkList(s, K)
      BY <1>1, <3>1, LinkReplaced, Zenon
    <3>4. Elements(s, K) = (Elements(q, K) \ {q[i]}) \cup {rest}
      BY <1>1, ElementReplaced
    <3> QED BY <3>2, <3>3, <3>4
  <2> HIDE DEF s
  <2>4. InUse \subseteq Regions
    BY DEF Holdings, InUse
  <2>5. rest \notin InUse
    BY <2>2, <2>4
  <2>6. q[i] # rest /\ Regions' = Regions \cup {rest}
    BY <1>2, <1>5, <2>1, <2>2
  <2>7. Elements(s, K) = (Regions' \ InUse) \ {q[i]}
    BY <1>1, <2>3, <2>5, <2>6
  <2>8. Links(s, K, l1_list_free_head', Regions', next', NULL)
    BY <2>3, <2>6
  <2> QED BY <1>1, <1>11, <2>3, <2>7, <2>8
<1>13. CASE ~split
  <2>1. added = {} /\ successor = next[q[i]]
    BY <1>13 DEF added, successor, cur
  <2>2. /\ i # 1 => next'[q[i - 1]] = next[q[i]]
        /\ l1_list_free_head' = IF i = 1 THEN next[q[i]] ELSE l1_list_free_head
    BY <1>4, <1>7, <1>8, <2>1
  <2> DEFINE s == Without(q, K, i)
  <2>3. /\ Links(s, K - 1, l1_list_free_head', Regions, next', NULL)
        /\ LinkList(s, K - 1)
        /\ Elements(s, K - 1) = Elements(q, K) \ {q[i]}
    <3>1. Removes(q, K, i, l1_list_free_head, next, l1_list_free_head', next')
      BY <1>9, <2>2 DEF Removes
    <3> QED BY <1>1, <3>1, LinkRemoved
  <2> HIDE DEF s
  <2>4. Regions' = Regions /\ K - 1 \in Nat
    BY <1>1, <1>5, <2>1
  <2>5. Elements(s, K - 1) = (Regions' \ InUse) \ {q[i]}
    BY <1>1, <2>3, <2>4
  <2>6. Links(s, K - 1, l1_list_free_head', Regions', next', NULL)
    BY <2>3, <2>4
  <2> QED BY <1>11, <2>3, <2>4, <2>5, <2>6
<1> QED BY <1>11, <1>12, <1>13
(* A request is given the first free region that is large enough. *)
LEMMA ListGives ==
  ASSUME ListState, NEW size \in Requests, size \in 1 .. ALLOC8R_HEAP_SIZE - HEADER,
         NEW i \in FirstFit(size),
         Take(FreeList[i], IF i = 1 THEN NULL ELSE FreeList[i - 1], size),
         Gives(size, FreeList[i] + HEADER)
  PROVE  ListState' /\ ListFull'
<1> USE HeapAssumption, ListAssumption
<1>1. PICK q, K : FreeChain(q, K)
  BY DEF ListState
<1>2. /\ FreeList = q /\ DOMAIN q = 1 .. K
      /\ \A j \in 1 .. K : q[j] \in Regions
      /\ Elements(q, K) = Regions \ InUse
  BY <1>1, FreeListIs, ChainIs DEF ListState, FreeChain, Chain
<1> DEFINE cur == q[i]
           p == cur + HEADER
           rest == cur + HEADER + aligned_sz(size)
           split == capacity[cur] >= aligned_sz(size) + min_reg_sz
<1>3. /\ i \in 1 .. K /\ capacity[cur] >= aligned_sz(size) /\ size \in Nat \ {0}
      /\ Take(q[i], IF i = 1 THEN NULL ELSE q[i - 1], size)
  BY <1>2 DEF FirstFit
<1>4. cur \in Regions /\ cur \notin InUse
  <2>1. cur \in Elements(q, K)
    BY <1>3 DEF Elements
  <2> QED BY <1>2, <2>1
<1>5. /\ Tiles' /\ Regions' = IF split THEN Regions \cup {rest} ELSE Regions
      /\ split => rest \notin Regions
      /\ Regions' \subseteq Positions
      /\ \A r \in Regions' : capacity'[r] \in Positions \ {0}
      /\ capacity'[cur] >= size
      /\ \A r \in Regions : r # cur => capacity'[r] = capacity[r]
  BY <1>3, <1>4, TakeTiles DEF ListState
<1>6. /\ ListTypeOK'
      /\ \E s, L : /\ L \in Nat /\ LinkList(s, L)
                   /\ Links(s, L, l1_list_free_head', Regions', next', NULL)
                   /\ Elements(s, L) = (Regions' \ InUse) \ {cur}
  BY <1>1, <1>3, <1>5, TakeChain DEF ListState
<1>7. /\ cur \in Nat /\ p \in 0 .. ALLOC8R_HEAP_SIZE
  BY <1>4, RegionType DEF ListState
<1>8. p \notin DOMAIN live
  BY <1>4, <1>7, InUseIs DEF ListState
<1>9. /\ DOMAIN live' = DOMAIN live \cup {p} /\ live'[p] = size
      /\ \A k \in DOMAIN live : live'[k] = live[k]
      /\ refused' = NULL /\ l1_errno' = l1_errno
  BY <1>2, <1>8 DEF Gives
<1>10. HeapTypeOK'
  BY <1>7, <1>9 DEF ListState, HeapTypeOK
<1>11. InUse' = InUse \cup {cur} /\ p - HEADER = cur
  <2>1. p - HEADER = cur
    BY <1>7
  <2> HIDE DEF p, cur
  <2>2. InUse' = {k - HEADER : k \in DOMAIN live \cup {p}}
    BY <1>9 DEF InUse
  <2> QED BY <2>1, <2>2 DEF InUse
<1> HIDE DEF p, cur, rest, split
<1>12. Regions \subseteq Regions'
  BY <1>5
<1>13. ASSUME NEW k \in DOMAIN live'
       PROVE  k - HEADER \in Regions' /\ live'[k] <= capacity'[k - HEADER]
  <2>1. CASE k = p
    BY <1>4, <1>5, <1>9, <1>11, <1>12, <2>1
  <2>2. CASE k # p
    <3>1. k \in DOMAIN live /\ live'[k] = live[k]
      BY <1>9, <2>2
    <3>2. k - HEADER \in Regions /\ live[k] <= capacity[k - HEADER]
      BY <3>1 DEF ListState, Holdings
    <3>3. k - HEADER \in InUse
      BY <3>1 DEF InUse
    <3>4. capacity'[k - HEADER] = capacity[k - HEADER]
      BY <1>4, <1>5, <3>2, <3>3
    <3> QED BY <1>12, <3>1, <3>2, <3>4
  <2> QED BY <2>1, <2>2
<1>14. \E s, L : FreeChain(s, L)'
  <2>1. PICK s, L : /\ L \in Nat /\ LinkList(s, L)
                    /\ Links(s, L, l1_list_free_head', Regions', next', NULL)
                    /\ Elements(s, L) = (Regions' \ InUse) \ {cur}
    BY <1>6
  <2>2. Elements(s, L) = Regions' \ InUse'
    BY <1>11, <2>1
  <2>3. FreeChain(s, L)'
    BY <2>1, <2>2, ChainNext
  <2> QED BY <2>3
<1> QED BY <1>5, <1>6, <1>9, <1>10, <1>13, <1>14 DEF ListState, ListFull, Holdings

(* The client writes into a region that is not on the free list. *)
LEMMA ListWrites ==
  ASSUME ListState, ListFull, NEW p \in DOMAIN live, ListWrite(p)
  PROVE  ListState' /\ ListFull'
<1> USE HeapAssumption, ListAssumption
<1> DEFINE cur == p - HEADER
<1>1. /\ next' = [next EXCEPT ![cur] = DATA]
      /\ UNCHANGED <<l1_list_free_head, capacity, l1_errno, live, refused>>
  BY DEF ListWrite, heapVars
<1>2. cur \in InUse /\ cur \in Regions
  BY DEF InUse, ListState, Holdings
<1> HIDE DEF cur
<1>3. HeapTypeOK' /\ ListTypeOK' /\ Tiles' /\ Holdings'
  <2>1. HeapTypeOK' /\ Tiles' /\ Holdings'
    BY <1>1 DEF ListState, HeapTypeOK, Tiles, Holdings, Regions, RegionExtent
  <2>2. ListTypeOK'
    BY <1>1, <1>2 DEF ListState, ListTypeOK, Regions
  <2> QED BY <2>1, <2>2
<1>4. PICK q, K : FreeChain(q, K)
  BY DEF ListState
<1>5. /\ K \in Nat /\ LinkList(q, K)
      /\ Links(q, K, l1_list_free_head, Regions, next, NULL)
      /\ Elements(q, K) = Regions \ InUse
  BY <1>4, ChainIs
<1>6. \A j \in 1 .. K : q[j] # cur
  BY <1>2, <1>5 DEF Elements
<1>7. DOMAIN next = Regions
  BY DEF ListState, ListTypeOK
<1>8. Links(q, K, l1_list_free_head', Regions', next', NULL)
  <2>1. \A j \in 1 .. K : q[j] \in Regions /\ next'[q[j]] = next[q[j]]
    BY <1>1, <1>5, <1>6, <1>7 DEF Links
  <2> QED BY <1>1, <1>5, <2>1 DEF Links, Regions
<1>9. Elements(q, K) = Regions' \ InUse'
  BY <1>1, <1>5 DEF InUse, Regions
<1>10. FreeChain(q, K)'
  BY <1>5, <1>8, <1>9, ChainNext
<1>11. ListFull'
  BY <1>1 DEF ListFull, RegionRoom, Regions
<1> QED BY <1>3, <1>10, <1>11 DEF ListState

(* A region that the client gives back enters the list at its head. *)
LEMMA ListFrees ==
  ASSUME ListState, NEW p \in DOMAIN live, l1_list_free(p)
  PROVE  ListState' /\ ListFull'
<1> USE HeapAssumption, ListAssumption
<1> DEFINE cur == p - HEADER
<1>1. /\ next' = [next EXCEPT ![cur] = l1_list_free_head]
      /\ l1_list_free_head' = cur /\ capacity' = capacity
      /\ live' = [k \in DOMAIN live \ {p} |-> live[k]]
      /\ refused' = NULL /\ l1_errno' = l1_errno
  BY DEF l1_list_free, Frees
<1>2. cur \in InUse /\ cur \in Regions
  BY DEF InUse, ListState, Holdings
<1>3. InUse' = InUse \ {cur}
  <2>1. \A k \in DOMAIN live : k # p => k - HEADER # cur
    <3>1. \A k \in DOMAIN live : k \in Nat
      BY LiveType DEF ListState
    <3> QED BY <3>1
  <2>2. InUse' = {k - HEADER : k \in DOMAIN live \ {p}}
    BY <1>1 DEF InUse
  <2> HIDE DEF cur
  <2>3. ASSUME NEW r \in InUse \ {cur} PROVE r \in {k - HEADER : k \in DOMAIN live \ {p}}
    <3>1. PICK k \in DOMAIN live : r = k - HEADER
      BY DEF InUse
    <3>2. k # p
      BY <2>3, <3>1 DEF cur
    <3> QED BY <3>1, <3>2
  <2> QED BY <2>1, <2>2, <2>3 DEF InUse
<1> HIDE DEF cur
<1>4. HeapTypeOK' /\ ListTypeOK' /\ Tiles' /\ Holdings'
  <2>1. HeapTypeOK' /\ Tiles' /\ Holdings'
    BY <1>1 DEF ListState, HeapTypeOK, Tiles, Holdings, Regions, RegionExtent
  <2>2. ListTypeOK'
    BY <1>1, <1>2 DEF ListState, ListTypeOK, Regions
  <2> QED BY <2>1, <2>2
<1>5. PICK q, K : FreeChain(q, K)
  BY DEF ListState
<1>6. /\ K \in Nat /\ LinkList(q, K)
      /\ Links(q, K, l1_list_free_head, Regions, next, NULL)
      /\ Elements(q, K) = Regions \ InUse
  BY <1>5, ChainIs
<1>7. \A j \in 1 .. K : q[j] # cur
  BY <1>2, <1>6 DEF Elements
<1>8. DOMAIN next = Regions /\ Regions' = Regions
  BY <1>1 DEF ListState, ListTypeOK, Regions
<1>9. next'[cur] = l1_list_free_head /\ \A j \in 1 .. K : next'[q[j]] = next[q[j]]
  <2>1. \A j \in 1 .. K : q[j] \in Regions
    BY <1>6 DEF Links
  <2> QED BY <1>1, <1>2, <1>7, <1>8, <2>1
<1> DEFINE s == InFront(q, K, cur)
<1>10. /\ Links(s, K + 1, cur, Regions, next', NULL) /\ LinkList(s, K + 1)
       /\ Elements(s, K + 1) = Elements(q, K) \cup {cur}
  <2>1. Links(s, K + 1, cur, Regions, next', NULL)
    BY <1>2, <1>6, <1>7, <1>9, LinkInFront
  <2>2. LinkList(s, K + 1)
    BY <1>2, <1>6, <1>7, <1>9, LinkInFront
  <2>3. Elements(s, K + 1) = Elements(q, K) \cup {cur}
    BY <1>2, <1>6, <1>7, <1>9, LinkInFront
  <2> QED BY <2>1, <2>2, <2>3
<1> HIDE DEF s
<1>11. Elements(s, K + 1) = Regions' \ InUse' /\ K + 1 \in Nat
  BY <1>2, <1>3, <1>6, <1>8, <1>10
<1>12. Links(s, K + 1, l1_list_free_head', Regions', next', NULL)
  BY <1>1, <1>8, <1>10
<1>13. FreeChain(s, K + 1)'
  BY <1>10, <1>11, <1>12, ChainNext
<1> QED BY <1>1, <1>4, <1>13 DEF ListState, ListFull

(* There is no region to give back. *)
LEMMA ListNotFrees ==
  ASSUME ListState, NEW p, NotFreed(p)
  PROVE  ListState' /\ ListFull'
<1> USE HeapAssumption
<1>1. p \notin DOMAIN live
  BY DEF ListState, Holdings, NotFreed
<1>2. /\ UNCHANGED <<l1_list_free_head, capacity, next, l1_errno>> /\ refused' = NULL
      /\ live' = [k \in DOMAIN live |-> live[k]]
  BY <1>1 DEF NotFreed, Frees, listVars
<1>3. DOMAIN live' = DOMAIN live /\ \A k \in DOMAIN live : live'[k] = live[k]
  BY <1>2
<1>4. HeapTypeOK' /\ ListTypeOK' /\ Tiles' /\ Holdings'
  BY <1>2, <1>3 DEF ListState, HeapTypeOK, ListTypeOK, Tiles, Holdings, Regions, RegionExtent
<1>5. PICK q, K : FreeChain(q, K)
  BY DEF ListState
<1>6. FreeChain(q, K)'
  BY <1>2, <1>3, <1>5 DEF FreeChain, Chain, Regions
<1> QED BY <1>2, <1>4, <1>6 DEF ListState, ListFull

LEMMA ListSteps ==
  ASSUME ListState, ListFull, List
  PROVE  ListState' /\ ListFull'
<1> USE HeapAssumption
<1>1. ASSUME NEW size \in Requests, l1_list_malloc(size) PROVE ListState' /\ ListFull'
  <2>1. CASE size = 0 /\ Refuses(size, l1_errno) /\ UNCHANGED listVars
    BY <2>1, ListRefuses DEF ListState, HeapTypeOK
  <2>2. CASE /\ size > ALLOC8R_HEAP_SIZE - HEADER
             /\ Refuses(size, "ERRNOMEM") /\ UNCHANGED listVars
    BY <2>2, ListRefuses
  <2>3. CASE FirstFit(size) = {} /\ Refuses(size, l1_errno) /\ UNCHANGED listVars
    BY <2>3, ListRefuses DEF ListState, HeapTypeOK
  <2>4. CASE /\ size \in 1 .. ALLOC8R_HEAP_SIZE - HEADER
             /\ \E i \in FirstFit(size) :
                  /\ Take(FreeList[i], IF i = 1 THEN NULL ELSE FreeList[i - 1], size)
                  /\ Gives(size, FreeList[i] + HEADER)
    BY <2>4, ListGives
  <2> QED BY <1>1, <2>1, <2>2, <2>3, <2>4 DEF l1_list_malloc
<1>2. ASSUME NEW p \in DOMAIN live, l1_list_free(p) \/ ListWrite(p)
      PROVE  ListState' /\ ListFull'
  BY <1>2, ListFrees, ListWrites
<1>3. ASSUME NEW p \in Positions, NotFreed(p) PROVE ListState' /\ ListFull'
  BY <1>3, ListNotFrees
<1> QED BY <1>1, <1>2, <1>3 DEF List

LEMMA ListInit ==
  ASSUME HeapInit, l1_list_init
  PROVE  ListState /\ ListFull
<1> USE HeapAssumption, ListAssumption
<1> DEFINE cap == ALLOC8R_HEAP_SIZE - HEADER
<1>1. /\ l1_list_free_head = 0 /\ Regions = {0} /\ capacity[0] = cap /\ DOMAIN next = {0}
      /\ next[0] = NULL /\ DOMAIN live = {} /\ refused = NULL
  BY DEF HeapInit, l1_list_init, Regions
<1>2. cap \in Nat \ {0} /\ cap <= ALLOC8R_HEAP_SIZE /\ cap % ALIGN = 0
  <2>1. HEADER \in Nat /\ HEADER % ALIGN = 0 /\ ALLOC8R_HEAP_SIZE \in Nat
        /\ ALLOC8R_HEAP_SIZE % ALIGN = 0 /\ ALLOC8R_HEAP_SIZE >= HEADER + ALIGN
        /\ ALIGN \in Nat \ {0}
    OBVIOUS
  <2>2. ALLOC8R_HEAP_SIZE >= HEADER
    BY <2>1
  <2>3. cap % ALIGN = 0
    BY <2>1, <2>2, AlignedSum
  <2> QED BY <2>1, <2>3
<1>3. HeapTypeOK
  BY DEF HeapInit, HeapTypeOK
<1>4. 0 \in Positions /\ cap \in Positions \ {0}
  <2>1. 0 % ALIGN = 0
    <3>1. ALIGN \in Nat \ {0} /\ 0 \in Nat /\ 0 * ALIGN = 0
      OBVIOUS
    <3> QED BY <3>1, MultipleAligned
  <2> HIDE DEF cap
  <2> QED BY <1>2, <2>1 DEF Positions
<1>5. ListTypeOK
  <2> HIDE DEF cap
  <2> QED BY <1>1, <1>4 DEF ListTypeOK
<1>6. Tiles
  <2>1. RegionExtent(0) = 0 .. ALLOC8R_HEAP_SIZE - 1
    BY <1>1 DEF RegionExtent
  <2> QED BY <1>1, <2>1 DEF Tiles
<1>7. Holdings /\ InUse = {}
  BY <1>1 DEF Holdings, InUse
<1> DEFINE q == [j \in 1 .. 1 |-> 0]
<1>8. LinkList(q, 1)
  BY DEF LinkList
<1>9. Links(q, 1, l1_list_free_head, Regions, next, NULL)
  BY <1>1 DEF Links
<1>10. Elements(q, 1) = Regions \ InUse
  BY <1>1, <1>7 DEF Elements
<1>11. FreeChain(q, 1)
  BY <1>8, <1>9, <1>10, ChainIs
<1>12. ListFull
  BY <1>1 DEF ListFull
<1> QED BY <1>3, <1>5, <1>6, <1>7, <1>11, <1>12 DEF ListState
-----------------------------------------------------------------------------
(* The allocator in use keeps its invariant; the other one is as it was set up. *)
MallocInv ==
  /\ MallocTypeOK
  /\ IF l1_malloc = "chunk" THEN ChunkState /\ ChunkFull ELSE ListState /\ ListFull

LEMMA MallocInvInit == MallocInit => MallocInv
<1> SUFFICES ASSUME MallocInit PROVE MallocInv
  OBVIOUS
<1>1. ListState /\ ListFull /\ ChunkState /\ ChunkFull
  BY ChunkInit, ListInit DEF MallocInit
<1> QED BY <1>1 DEF MallocInit, MallocInv, MallocTypeOK, ListState, ChunkState

LEMMA MallocInvStep == MallocInv /\ [MallocNext]_mallocVars => MallocInv'
<1> SUFFICES ASSUME MallocInv, [MallocNext]_mallocVars PROVE MallocInv'
  OBVIOUS
<1>1. CASE l1_malloc = "chunk" /\ Chunk /\ UNCHANGED <<l1_malloc, listVars>>
  <2>1. ChunkState' /\ ChunkFull'
    BY <1>1, ChunkSteps DEF MallocInv
  <2>2. ListTypeOK'
    BY <1>1 DEF MallocInv, MallocTypeOK, ListTypeOK, listVars, Regions
  <2> QED BY <1>1, <2>1, <2>2 DEF MallocInv, MallocTypeOK, ChunkState
<1>2. CASE l1_malloc = "list" /\ List /\ UNCHANGED <<l1_malloc, chunkVars>>
  <2>1. ListState' /\ ListFull'
    BY <1>2, ListSteps DEF MallocInv
  <2>2. ChunkTypeOK'
    BY <1>2 DEF MallocInv, MallocTypeOK, ChunkTypeOK, chunkVars
  <2> QED BY <1>2, <2>1, <2>2 DEF MallocInv, MallocTypeOK, ListState
<1>3. CASE UNCHANGED mallocVars
  BY <1>3 DEF mallocVars, heapVars, chunkVars, listVars, MallocInv, MallocTypeOK, ChunkState,
     ChunkFull, ListState, ListFull, HeapTypeOK, ChunkTypeOK, ChunksAccounted, ListTypeOK,
     Tiles, Holdings, FreeChain, Chain, ChunkRoom, RegionRoom, Regions, RegionExtent, ChunkExtent,
     Taken, IS_CHUNK_FREE
<1> QED BY <1>1, <1>2, <1>3 DEF MallocNext

(* The bookkeeping of both allocators is exact after any sequence of calls: what the
   client holds and what is free make up the heap, and nothing overlaps. *)
THEOREM HeapIsAccounted == MallocSpec => []HeapAccounted
<1>1. MallocInv => HeapAccounted
  BY StateAccounted DEF MallocInv, HeapAccounted, ChunkState
<1> QED BY <1>1, MallocInvInit, MallocInvStep, PTL DEF MallocSpec

(* A request is refused only when there is no room for it. *)
THEOREM RefusesOnlyWhenFull == MallocSpec => []RefusedOnlyWhenFull
<1>1. MallocInv => RefusedOnlyWhenFull
  BY DEF MallocInv, RefusedOnlyWhenFull, ChunkFull, ListFull
<1> QED BY <1>1, MallocInvInit, MallocInvStep, PTL DEF MallocSpec

-----------------------------------------------------------------------------
(* Image, for any directories of a host.  The entries of a directory that are *)
(* written, one after the other.                                             *)
LEMMA CopiedSteps ==
  ASSUME NEW entries \in Seq(HostEntries)
  PROVE  /\ Copied(entries, 0) = <<>>
         /\ \A n \in 0 .. Len(entries) : Copied(entries, n) \in Seq(HostEntries)
         /\ \A n \in 1 .. Len(entries) :
              Copied(entries, n) = IF entries[n].kind = "symlink" THEN Copied(entries, n - 1)
                                   ELSE Append(Copied(entries, n - 1), entries[n])
<1> DEFINE N == Len(entries)
           V == Seq(HostEntries)
           Add(v, n) == IF entries[n].kind = "symlink" THEN v ELSE Append(v, entries[n])
           F == [n \in 1 .. N |-> [v \in V |-> Add(v, n)]]
           StepTo(g, n) == IF n = 0 THEN <<>> ELSE Add(g[n - 1], n)
           upTo == CHOOSE g : g = [n \in 0 .. N |-> StepTo(g, n)]
<1>1. N \in Nat /\ <<>> \in V
  OBVIOUS
<1>2. \A n \in 1 .. N : entries[n] \in HostEntries
  OBVIOUS
<1>3. F \in [1 .. N -> [V -> V]]
  <2>1. ASSUME NEW n \in 1 .. N, NEW v \in V PROVE Add(v, n) \in V
    BY <1>2
  <2> QED BY <2>1
<1>4. PICK f : Iterates(f, N, V, <<>>, F)
  <2> HIDE DEF N, V, F
  <2> QED BY <1>1, <1>3, Recursion
<1>5. ASSUME NEW n \in 0 .. N PROVE f[n] = StepTo(f, n)
  <2>1. CASE n = 0
    BY <1>4, <2>1 DEF Iterates
  <2>2. CASE n # 0
    <3>1. n \in 1 .. N /\ n - 1 \in 0 .. N
      BY <1>1, <2>2
    <3>2. f[n - 1] \in V
      BY <1>4, <3>1 DEF Iterates
    <3>3. f[n] = F[n][f[n - 1]]
      BY <1>4, <3>1 DEF Iterates
    <3>4. F[n][f[n - 1]] = Add(f[n - 1], n)
      BY <3>1, <3>2
    <3> HIDE DEF F, Add
    <3> QED BY <2>2, <3>3, <3>4
  <2> QED BY <2>1, <2>2
<1>6. f = [n \in 0 .. N |-> StepTo(f, n)]
  BY <1>4, <1>5 DEF Iterates
<1>7. upTo = [n \in 0 .. N |-> StepTo(upTo, n)]
  BY <1>6
<1>8. \A m : Copied(entries, m) = upTo[m]
  BY DEF Copied
<1> HIDE DEF upTo
<1>9. upTo[0] = <<>> /\ \A n \in 1 .. N : upTo[n] = Add(upTo[n - 1], n)
  <2> HIDE DEF Add
  <2> QED BY <1>1, <1>7
<1> DEFINE T == {n \in Nat : n <= N => upTo[n] \in V}
<1>10. 0 \in T
  BY <1>1, <1>9
<1>11. ASSUME NEW n \in Nat, n \in T PROVE n + 1 \in T
  <2> SUFFICES ASSUME n + 1 <= N PROVE upTo[n + 1] \in V
    OBVIOUS
  <2>1. upTo[n] \in V /\ n + 1 \in 1 .. N /\ (n + 1) - 1 = n
    BY <1>1, <1>11
  <2>2. upTo[n + 1] = Add(upTo[n], n + 1)
    BY <1>9, <2>1
  <2> QED BY <1>2, <2>1, <2>2
<1>12. Nat \subseteq T
  <2> HIDE DEF T
  <2> QED BY <1>10, <1>11, Induction
<1>13. \A n \in 0 .. N : upTo[n] \in V
  BY <1>1, <1>12
<1> QED BY <1>8, <1>9, <1>13

(* They are the entries that are no symbolic links, each of them once. *)
Selects(c, entries, n) ==
  /\ \A k \in 1 .. Len(c) : \E j \in 1 .. n : c[k] = entries[j] /\ entries[j].kind # "symlink"
  /\ \A j \in 1 .. n : entries[j].kind # "symlink" => \E k \in 1 .. Len(c) : c[k] = entries[j]
  /\ \A j, k \in 1 .. Len(c) : c[j].name = c[k].name => j = k

LEMMA CopiedSelects ==
  ASSUME NEW entries \in Seq(HostEntries),
         \A i, j \in 1 .. Len(entries) : entries[i].name = entries[j].name => i = j
  PROVE  \A n \in 0 .. Len(entries) : Selects(Copied(entries, n), entries, n)
<1> DEFINE N == Len(entries)
           C(n) == Copied(entries, n)
           T == {n \in Nat : n <= N => Selects(C(n), entries, n)}
<1>1. N \in Nat
  OBVIOUS
<1>2. /\ C(0) = <<>>
      /\ \A n \in 0 .. N : C(n) \in Seq(HostEntries)
      /\ \A n \in 1 .. N : C(n) = IF entries[n].kind = "symlink" THEN C(n - 1)
                                  ELSE Append(C(n - 1), entries[n])
  BY CopiedSteps
<1> HIDE DEF C
<1>3. 0 \in T
  BY <1>1, <1>2 DEF Selects
<1>4. ASSUME NEW n \in Nat, n \in T PROVE n + 1 \in T
  <2> SUFFICES ASSUME n + 1 <= N PROVE Selects(C(n + 1), entries, n + 1)
    OBVIOUS
  <2> DEFINE m == n + 1
             c == C(n)
             e == entries[m]
  <2>1. /\ m \in 1 .. N /\ n \in 0 .. N /\ m - 1 = n
        /\ Selects(c, entries, n) /\ c \in Seq(HostEntries) /\ e \in HostEntries
        /\ C(m) = IF e.kind = "symlink" THEN c ELSE Append(c, e)
    <3>1. m \in 1 .. N /\ n \in 0 .. N /\ m - 1 = n
      BY <1>1
    <3>2. Selects(c, entries, n)
      BY <1>1, <1>4
    <3> HIDE DEF m
    <3> QED BY <1>2, <3>1, <3>2
  <2>2. 1 .. m = (1 .. n) \cup {m} /\ \A j \in 1 .. n : j \in 1 .. N /\ j # m
    BY <1>1
  <2>3. Len(c) \in Nat
    BY <2>1
  <2>4. CASE e.kind = "symlink"
    <3>1. C(m) = c
      BY <2>1, <2>4
    <3> HIDE DEF m
    <3> QED BY <2>1, <2>2, <2>3, <2>4, <3>1 DEF Selects
  <2>5. CASE e.kind # "symlink"
    <3> DEFINE d == C(m)
    <3>1. d = Append(c, e)
      BY <2>1, <2>5
    <3>2. /\ Len(d) = Len(c) + 1 /\ d[Len(c) + 1] = e
          /\ \A k \in 1 .. Len(c) : d[k] = c[k]
      BY <2>1, <3>1
    <3>3. 1 .. Len(d) = (1 .. Len(c)) \cup {Len(c) + 1}
      BY <2>3, <3>2
    <3>4. \A k \in 1 .. Len(c) : \E j \in 1 .. n : c[k] = entries[j] /\ entries[j].kind # "symlink"
      BY <2>1 DEF Selects
    <3> DEFINE L == Len(c) + 1
    <3> HIDE DEF m, d, c, L
    <3>5. \A k \in 1 .. Len(d) : \E j \in 1 .. m : d[k] = entries[j] /\ entries[j].kind # "symlink"
      <4> SUFFICES ASSUME NEW k \in 1 .. Len(d)
                   PROVE  \E j \in 1 .. m : d[k] = entries[j] /\ entries[j].kind # "symlink"
        OBVIOUS
      <4>1. CASE k \in 1 .. Len(c)
        <5>1. PICK j \in 1 .. n : c[k] = entries[j] /\ entries[j].kind # "symlink"
          BY <3>4, <4>1
        <5>2. d[k] = c[k] /\ j \in 1 .. m
          BY <2>2, <3>2, <4>1
        <5> QED BY <5>1, <5>2
      <4>2. CASE k = L
        <5>1. d[k] = entries[m] /\ m \in 1 .. m
          BY <2>2, <3>2, <4>2 DEF L
        <5> QED BY <2>5, <5>1
      <4> QED BY <3>3, <4>1, <4>2 DEF L
    <3>6. \A j \in 1 .. m : entries[j].kind # "symlink" => \E k \in 1 .. Len(d) : d[k] = entries[j]
      <4>1. \A j \in 1 .. n : entries[j].kind # "symlink" => \E k \in 1 .. Len(c) : c[k] = entries[j]
        BY <2>1 DEF Selects
      <4> QED BY <2>2, <3>2, <3>3, <4>1 DEF L
    <3>7. \A k \in 1 .. Len(c) : c[k].name # e.name
      BY <2>1, <2>2, <3>4
    <3>8. \A j, k \in 1 .. Len(c) : c[j].name = c[k].name => j = k
      BY <2>1 DEF Selects
    <3>9. \A j, k \in 1 .. Len(d) : d[j].name = d[k].name => j = k
      BY <3>2, <3>3, <3>7, <3>8 DEF L
    <3> QED BY <3>5, <3>6, <3>9 DEF Selects, d, m
  <2> HIDE DEF e, m, c
  <2> QED BY <2>4, <2>5 DEF m
<1>5. Nat \subseteq T
  <2> HIDE DEF T
  <2> QED BY <1>3, <1>4, Induction
<1>6. \A n \in 0 .. N : Selects(C(n), entries, n)
  BY <1>1, <1>5
<1> QED BY <1>6 DEF C
-----------------------------------------------------------------------------
(* The inductive invariant: there is a function R that tells for each inode   *)
(* that is reserved the entry of the host it is for, and what is written of   *)
(* an inode agrees with that entry and with R at the inode's children.  B is  *)
(* the reserved inodes, D the written ones, d the data blocks of which K are  *)
(* reserved.                                                                  *)
CallRecords ==
  [inode_id : Nat, name : Seq(STRING), entries : Seq(HostEntries), children : Seq(Nat)]

(* The inodes are those of the entries up to the m-th. *)
ListsOf(R, D, ids, entries, m) ==
  /\ ids \in Seq(D) /\ Len(ids) = Len(Copied(entries, m))
  /\ \A k \in 1 .. Len(ids) : R[ids[k]] = Copied(entries, m)[k]

Stored(d, K, inode, file) ==
  \A n \in 0 .. BlocksOf(file.size) - 1 :
    LET b == (inode.data_block_offsets[n] - DATA_BLOCKS_OFFSET) \div DISK_BLK_SIZE
    IN  /\ b \in DOMAIN d /\ d[b] = [file |-> file, nth |-> n]
        /\ b < NUM_DATA_BLOCKS \/ K > NUM_DATA_BLOCKS

MadeOf(R, D, d, K, inode, e) ==
  /\ inode.name = e.name
  /\ \/ /\ e.kind = "file" /\ inode.is_directory = FALSE
        /\ inode.size = e.size /\ Stored(d, K, inode, e)
     \/ /\ e.kind = "dir" /\ inode.is_directory = TRUE
        /\ ListsOf(R, D, inode.children, e.entries, Len(e.entries))

(* Nothing is known of an inode whose name has moved the fields behind it. *)
Made(R, D, d, K, inode, e) ==
  Len(inode.name) <= MAX_NAME_SIZE => MadeOf(R, D, d, K, inode, e)

(* How many entries of its directory a call has taken. *)
EntriesTaken(R, call) == Len(R[call.inode_id].entries) - Len(call.entries)

OpenCall(R, B, D, call) ==
  /\ call \in CallRecords /\ call.inode_id \in B \ D
  /\ R[call.inode_id].kind = "dir" /\ R[call.inode_id].name = call.name
  /\ EntriesTaken(R, call) \in Nat
  /\ \A j \in 1 .. Len(call.entries) :
       call.entries[j] = R[call.inode_id].entries[EntriesTaken(R, call) + j]

(* The children are those of the entries that were taken, in a caller but the last. *)
Inner(R, D, call) == ListsOf(R, D, call.children, R[call.inode_id].entries, EntriesTaken(R, call))

Pending(R, D, call, e) ==
  /\ EntriesTaken(R, call) >= 1 /\ R[call.inode_id].entries[EntriesTaken(R, call)] = e
  /\ ListsOf(R, D, call.children, R[call.inode_id].entries, EntriesTaken(R, call) - 1)

Calls(R, B, D, cs) ==
  /\ cs \in Seq(CallRecords)
  /\ \A k \in 1 .. Len(cs) : OpenCall(R, B, D, cs[k])
  /\ \A k \in 1 .. Len(cs) : k = Len(cs) => Inner(R, D, cs[k])
  /\ \A k \in 1 .. Len(cs) : k < Len(cs) => Pending(R, D, cs[k], R[cs[k + 1].inode_id])
  /\ \A j, k \in 1 .. Len(cs) : cs[j].inode_id = cs[k].inode_id => j = k

Agrees(R, K) ==
  /\ host \in Hosts
  /\ INODE_BITMAP \subseteq Nat /\ 0 \in INODE_BITMAP /\ DOMAIN inodes \subseteq INODE_BITMAP
  /\ R \in [INODE_BITMAP -> HostEntries] /\ R[0] = host
  /\ K \in Nat /\ DNODE_BITMAP = 0 .. K - 1 /\ DOMAIN data \subseteq DNODE_BITMAP
  /\ \A id \in DOMAIN inodes : Made(R, DOMAIN inodes, data, K, inodes[id], R[id])
  /\ Calls(R, INODE_BITMAP, DOMAIN inodes, calls)
  /\ result = "writing" => calls # <<>> /\ calls[1].inode_id = 0
  /\ result = "done" => 0 \in DOMAIN inodes

ImageIInv == \E R, K : Agrees(R, K)

(* The entries of a directory are entries of the host, with names of their own. *)
LEMMA Entries ==
  ASSUME NEW e \in HostEntries, e.kind = "dir"
  PROVE  /\ e.entries \in Seq(HostEntries)
         /\ \A i, j \in 1 .. Len(e.entries) : e.entries[i].name = e.entries[j].name => i = j
  BY HostAssumption, SMTT(30)

-----------------------------------------------------------------------------
(* When more inodes are reserved or written, what was known stays true. *)
Extends(R, B, D, S, C, E) ==
  /\ D \subseteq B /\ B \subseteq C /\ D \subseteq E
  /\ \A b \in B : S[b] = R[b]

LEMMA ListsKeep ==
  ASSUME NEW R, NEW B, NEW D, NEW S, NEW C, NEW E, Extends(R, B, D, S, C, E),
         NEW ids, NEW entries, NEW m, ListsOf(R, D, ids, entries, m)
  PROVE  ListsOf(S, E, ids, entries, m)
<1> USE DEF Extends
<1>1. ids \in Seq(D) /\ ids \in Seq(E) /\ \A k \in 1 .. Len(ids) : ids[k] \in B
  BY DEF ListsOf
<1> QED BY <1>1 DEF ListsOf

LEMMA CallKeeps ==
  ASSUME NEW R, NEW B, NEW D, NEW S, NEW C, NEW E, Extends(R, B, D, S, C, E),
         NEW call, OpenCall(R, B, D, call), call.inode_id \notin E
  PROVE  /\ OpenCall(S, C, E, call) /\ EntriesTaken(S, call) = EntriesTaken(R, call)
         /\ Inner(R, D, call) => Inner(S, E, call)
         /\ \A e : Pending(R, D, call, e) => Pending(S, E, call, e)
<1>1. S[call.inode_id] = R[call.inode_id] /\ call.inode_id \in C \ E
  BY DEF OpenCall, Extends
<1>2. EntriesTaken(S, call) = EntriesTaken(R, call)
  BY <1>1 DEF EntriesTaken
<1>3. OpenCall(S, C, E, call)
  BY <1>1, <1>2 DEF OpenCall
<1>4. Inner(R, D, call) => Inner(S, E, call)
  BY <1>1, <1>2, ListsKeep DEF Inner
<1>5. ASSUME NEW e, Pending(R, D, call, e) PROVE Pending(S, E, call, e)
  BY <1>1, <1>2, <1>5, ListsKeep DEF Pending
<1> QED BY <1>2, <1>3, <1>4, <1>5

(* An inode keeps what was made of it while further blocks are written. *)
LEMMA MadeKeeps ==
  ASSUME NEW R, NEW B, NEW D, NEW S, NEW C, NEW E, Extends(R, B, D, S, C, E),
         NEW d, NEW K \in Nat, NEW f, NEW L \in Nat, K <= L,
         DOMAIN d \subseteq DOMAIN f, \A b \in DOMAIN d : f[b] = d[b],
         NEW inode, NEW e, Made(R, D, d, K, inode, e)
  PROVE  Made(S, E, f, L, inode, e)
<1>1. NUM_DATA_BLOCKS \in Int
  BY HostAssumption DEF NUM_DATA_BLOCKS
<1>2. Stored(d, K, inode, e) => Stored(f, L, inode, e)
  <2> HIDE DEF NUM_DATA_BLOCKS
  <2> SUFFICES ASSUME Stored(d, K, inode, e), NEW n \in 0 .. BlocksOf(e.size) - 1
               PROVE  LET b == (inode.data_block_offsets[n] - DATA_BLOCKS_OFFSET) \div DISK_BLK_SIZE
                      IN  /\ b \in DOMAIN f /\ f[b] = [file |-> e, nth |-> n]
                          /\ b < NUM_DATA_BLOCKS \/ L > NUM_DATA_BLOCKS
    BY DEF Stored
  <2> DEFINE b == (inode.data_block_offsets[n] - DATA_BLOCKS_OFFSET) \div DISK_BLK_SIZE
  <2>1. b \in DOMAIN d /\ d[b] = [file |-> e, nth |-> n]
        /\ (b < NUM_DATA_BLOCKS \/ K > NUM_DATA_BLOCKS)
    BY DEF Stored
  <2> HIDE DEF b
  <2>2. b \in DOMAIN f /\ f[b] = [file |-> e, nth |-> n]
    BY <2>1
  <2>3. b < NUM_DATA_BLOCKS \/ L > NUM_DATA_BLOCKS
    BY <1>1, <2>1
  <2> QED BY <2>2, <2>3 DEF b
<1> QED BY <1>2, ListsKeep DEF Made, MadeOf

LEMMA WrittenMade ==
  ASSUME NEW R, NEW D, NEW d, NEW K, NEW inode, NEW e, e.name \in Seq(STRING),
         MadeOf(R, D, d, K, inode, e)
  PROVE  Made(R, D, d, K, Written(inode), e)
<1>1. inode.name \in Seq(STRING) /\ MAX_NAME_SIZE \in Nat
  BY HostAssumption DEF MadeOf
<1>2. CASE Len(inode.name) <= MAX_NAME_SIZE
  BY <1>2 DEF Made, Written
<1>3. CASE ~(Len(inode.name) <= MAX_NAME_SIZE)
  <2>1. Len(Append(inode.name, "SOH")) = Len(inode.name) + 1
    BY <1>1
  <2>2. Written(inode).name \in {inode.name, Append(inode.name, "SOH")}
    BY <1>3 DEF Written
  <2>3. ~(Len(Written(inode).name) <= MAX_NAME_SIZE)
    BY <1>1, <1>3, <2>1, <2>2
  <2> QED BY <2>3 DEF Made
<1> QED BY <1>2, <1>3

(* A sequence without its last, and with another in its place. *)
LEMMA FrontIs ==
  ASSUME NEW T, NEW s \in Seq(T), s # <<>>
  PROVE  /\ Len(s) \in Nat \ {0} /\ Front(s) \in Seq(T) /\ Len(Front(s)) = Len(s) - 1
         /\ \A k \in 1 .. Len(s) - 1 : Front(s)[k] = s[k]
<1>1. Len(s) \in Nat \ {0}
  OBVIOUS
<1> DEFINE n == Len(s) - 1
<1>2. \A i \in 1 .. n : s[i] \in T /\ 1 + i - 1 = i
  BY <1>1
<1>3. n \in Int /\ n \in Nat /\ n - 1 + 1 = n
  BY <1>1
<1> HIDE DEF n
<1>4. SubSeq(s, 1, n) \in Seq(T) /\ Len(SubSeq(s, 1, n)) = (IF 1 <= n THEN n - 1 + 1 ELSE 0)
  BY <1>2, <1>3, SubSeqProperties
<1>5. \A k \in 1 .. n - 1 + 1 : SubSeq(s, 1, n)[k] = s[1 + k - 1]
  BY <1>2, <1>3, SubSeqProperties
<1>6. SubSeq(s, 1, n) \in Seq(T) /\ Len(SubSeq(s, 1, n)) = n
  BY <1>3, <1>4
<1>7. \A k \in 1 .. n : SubSeq(s, 1, n)[k] = s[k]
  BY <1>2, <1>3, <1>5
<1> QED BY <1>1, <1>6, <1>7 DEF Front, n

LEMMA LastReplaced ==
  ASSUME NEW T, NEW s \in Seq(T), s # <<>>, NEW x \in T
  PROVE  /\ Append(Front(s), x) \in Seq(T)
         /\ Len(Append(Front(s), x)) = Len(s)
         /\ Append(Front(s), x)[Len(s)] = x
         /\ \A k \in 1 .. Len(s) - 1 : Append(Front(s), x)[k] = s[k]
<1>1. /\ Len(s) \in Nat \ {0} /\ Front(s) \in Seq(T) /\ Len(Front(s)) = Len(s) - 1
      /\ \A k \in 1 .. Len(s) - 1 : Front(s)[k] = s[k]
  BY FrontIs
<1> HIDE DEF Front
<1> QED BY <1>1

-----------------------------------------------------------------------------
(* A call goes on to its next entry. *)
LEMMA CallAdvances ==
  ASSUME NEW R, NEW B, NEW D, R \in [B -> HostEntries],
         NEW call, OpenCall(R, B, D, call), Inner(R, D, call), call.entries # <<>>
  PROVE  /\ Done(call) \in CallRecords /\ Done(call).inode_id = call.inode_id
         /\ OpenCall(R, B, D, Done(call))
         /\ Pending(R, D, Done(call), Head(call.entries))
         /\ Head(call.entries) \in HostEntries
<1> DEFINE q == Done(call)
           entries == R[call.inode_id].entries
           t == EntriesTaken(R, call)
<1>1. call \in CallRecords
  BY DEF OpenCall
<1>2. /\ call.entries \in Seq(HostEntries) /\ Tail(call.entries) \in Seq(HostEntries)
      /\ Len(call.entries) \in Nat \ {0}
      /\ Len(Tail(call.entries)) = Len(call.entries) - 1
      /\ \A j \in 1 .. Len(call.entries) - 1 : Tail(call.entries)[j] = call.entries[j + 1]
      /\ Head(call.entries) = call.entries[1] /\ Head(call.entries) \in HostEntries
  BY <1>1 DEF CallRecords
<1>3. /\ q.inode_id = call.inode_id /\ q.name = call.name
      /\ q.entries = Tail(call.entries) /\ q.children = call.children
  BY <1>1 DEF Done, CallRecords
<1>4. q \in CallRecords
  BY <1>1, <1>2 DEF Done, CallRecords
<1>5. R[call.inode_id] \in HostEntries /\ R[call.inode_id].kind = "dir"
  BY DEF OpenCall
<1>6. entries \in Seq(HostEntries) /\ Len(entries) \in Nat
  BY <1>5, Entries
<1>7. t \in Nat /\ EntriesTaken(R, q) = t + 1
  <2>1. t = Len(entries) - Len(call.entries) /\ t \in Nat
    BY DEF OpenCall, EntriesTaken
  <2>2. EntriesTaken(R, q) = Len(entries) - Len(Tail(call.entries))
    BY <1>3 DEF EntriesTaken
  <2> DEFINE m == Len(call.entries)
             r == Len(entries)
  <2>3. m \in Nat \ {0} /\ r \in Nat /\ EntriesTaken(R, q) = r - (m - 1)
    BY <1>2, <1>6, <2>2
  <2> HIDE DEF t, q, entries, m, r
  <2>4. t = r - m
    BY <2>1 DEF m, r
  <2>5. EntriesTaken(R, q) = t + 1
    BY <2>3, <2>4
  <2>6. t \in Nat
    BY <2>1
  <2> QED BY <2>5, <2>6
<1>8. \A j \in 1 .. Len(call.entries) : call.entries[j] = entries[t + j]
  BY DEF OpenCall
<1> HIDE DEF q, t
<1>9. OpenCall(R, B, D, q)
  <2>1. ASSUME NEW j \in 1 .. Len(q.entries)
        PROVE  q.entries[j] = R[q.inode_id].entries[EntriesTaken(R, q) + j]
    <3>1. j \in 1 .. Len(call.entries) - 1 /\ j + 1 \in 1 .. Len(call.entries)
          /\ t + (j + 1) = (t + 1) + j
      BY <1>2, <1>3, <1>7, <2>1
    <3>2. q.entries[j] = call.entries[j + 1]
      BY <1>2, <1>3, <3>1
    <3>3. call.entries[j + 1] = entries[t + (j + 1)]
      BY <1>8, <3>1
    <3> QED BY <1>3, <1>7, <3>1, <3>2, <3>3
  <2>2. EntriesTaken(R, q) \in Nat
    BY <1>7
  <2> QED BY <1>3, <1>4, <2>1, <2>2 DEF OpenCall
<1>10. Pending(R, D, q, Head(call.entries))
  <2>1. entries[t + 1] = Head(call.entries)
    <3>1. 1 \in 1 .. Len(call.entries)
      BY <1>2
    <3> QED BY <1>2, <1>8, <3>1
  <2>2. (t + 1) - 1 = t /\ t + 1 >= 1
    BY <1>7
  <2>3. ListsOf(R, D, q.children, entries, t)
    BY <1>3 DEF Inner, t
  <2> QED BY <1>3, <1>7, <2>1, <2>2, <2>3 DEF Pending
<1> QED BY <1>2, <1>3, <1>4, <1>9, <1>10 DEF q

(* The entry it is at becomes a child, or is left out. *)
WithChild(call, id) == [call EXCEPT !.children = Append(@, id)]

Takes(R, B, D, call, id) ==
  LET q == WithChild(call, id)
  IN  q \in CallRecords /\ q.inode_id = call.inode_id
      /\ OpenCall(R, B, D, q) /\ Inner(R, D, q)

LEMMA CallTakes ==
  ASSUME NEW R, NEW B, NEW D, R \in [B -> HostEntries], D \subseteq Nat,
         NEW call, OpenCall(R, B, D, call), NEW e, Pending(R, D, call, e)
  PROVE  /\ e.kind = "symlink" => Inner(R, D, call)
         /\ \A id \in D : e.kind # "symlink" /\ R[id] = e => Takes(R, B, D, call, id)
<1> DEFINE entries == R[call.inode_id].entries
           t == EntriesTaken(R, call)
           c == Copied(entries, t - 1)
<1>1. call \in CallRecords
  BY DEF OpenCall
<1>2. R[call.inode_id] \in HostEntries /\ R[call.inode_id].kind = "dir"
  BY DEF OpenCall
<1>3. entries \in Seq(HostEntries) /\ Len(entries) \in Nat
  BY <1>2, Entries
<1>4. t \in 1 .. Len(entries) /\ t - 1 \in 0 .. Len(entries) /\ entries[t] = e
  <2>1. Len(call.entries) \in Nat
    BY <1>1 DEF CallRecords
  <2>2. t = Len(entries) - Len(call.entries) /\ t \in Nat /\ t >= 1 /\ entries[t] = e
    BY DEF OpenCall, Pending, EntriesTaken
  <2> HIDE DEF t, entries
  <2> QED BY <1>3, <2>1, <2>2
<1>5. /\ c \in Seq(HostEntries)
      /\ Copied(entries, t) = IF e.kind = "symlink" THEN c ELSE Append(c, e)
  BY <1>3, <1>4, CopiedSteps
<1>6. ListsOf(R, D, call.children, entries, t - 1)
  BY DEF Pending
<1> HIDE DEF t
<1>7. ASSUME e.kind = "symlink" PROVE Inner(R, D, call)
  BY <1>5, <1>6, <1>7 DEF Inner, ListsOf, t
<1>8. ASSUME NEW id \in D, e.kind # "symlink", R[id] = e
      PROVE  Takes(R, B, D, call, id)
  <2> DEFINE q == [call EXCEPT !.children = Append(@, id)]
  <2>1. /\ q.inode_id = call.inode_id /\ q.name = call.name
        /\ q.entries = call.entries /\ q.children = Append(call.children, id)
    BY <1>1 DEF CallRecords
  <2>2. q \in CallRecords
    <3>1. call.children \in Seq(Nat) /\ id \in Nat
      BY <1>1 DEF CallRecords
    <3>2. Append(call.children, id) \in Seq(Nat)
      BY <3>1
    <3> QED BY <1>1, <3>2 DEF CallRecords
  <2>3. EntriesTaken(R, q) = t
    BY <2>1 DEF EntriesTaken, t
  <2> HIDE DEF q
  <2>4. OpenCall(R, B, D, q)
    BY <2>1, <2>2, <2>3 DEF OpenCall, t
  <2>5. Inner(R, D, q)
    <3> DEFINE ids == call.children
               qs == Append(ids, id)
               f == Append(c, e)
    <3>1. ids \in Seq(D) /\ Len(ids) = Len(c) /\ \A k \in 1 .. Len(ids) : R[ids[k]] = c[k]
      BY <1>6 DEF ListsOf
    <3>2. /\ qs \in Seq(D) /\ Len(qs) = Len(ids) + 1 /\ qs[Len(ids) + 1] = id
          /\ \A k \in 1 .. Len(ids) : qs[k] = ids[k]
      BY <3>1
    <3>3. Len(f) = Len(c) + 1 /\ f[Len(c) + 1] = e /\ \A k \in 1 .. Len(c) : f[k] = c[k]
      BY <1>5
    <3>4. Len(ids) \in Nat /\ 1 .. Len(qs) = (1 .. Len(ids)) \cup {Len(ids) + 1}
      BY <3>1, <3>2
    <3> HIDE DEF qs, ids, f, c
    <3>5. \A k \in 1 .. Len(qs) : R[qs[k]] = f[k]
      BY <1>8, <3>1, <3>2, <3>3, <3>4
    <3>6. Len(qs) = Len(f)
      BY <3>1, <3>2, <3>3
    <3>7. ListsOf(R, D, qs, entries, t)
      BY <1>5, <1>8, <3>2, <3>5, <3>6 DEF ListsOf, f
    <3> QED BY <2>1, <2>3, <3>7 DEF Inner, qs, ids
  <2> QED BY <2>1, <2>2, <2>4, <2>5 DEF q, Takes, WithChild
<1> QED BY <1>7, <1>8
-----------------------------------------------------------------------------
(* The first m calls wait for the one that follows, which is for e. *)
Waits(R, B, D, cs, m, e) ==
  /\ \A k \in 1 .. m : OpenCall(R, B, D, cs[k])
  /\ \A k \in 1 .. m : Pending(R, D, cs[k], IF k = m THEN e ELSE R[cs[k + 1].inode_id])
  /\ \A j, k \in 1 .. m : cs[j].inode_id = cs[k].inode_id => j = k

LEMMA CallersWait ==
  ASSUME NEW R, NEW B, NEW D, NEW cs, Calls(R, B, D, cs), cs # <<>>
  PROVE  Waits(R, B, D, cs, Len(cs) - 1, R[cs[Len(cs)].inode_id])
<1> DEFINE L == Len(cs)
<1>1. L \in Nat \ {0}
  BY DEF Calls
<1>2. \A k \in 1 .. L - 1 : k \in 1 .. L /\ k < L /\ (k = L - 1 => k + 1 = L)
  BY <1>1
<1> QED BY <1>1, <1>2 DEF Calls, Waits

LEMMA WaitsLess ==
  ASSUME NEW R, NEW B, NEW D, NEW cs, NEW m \in Nat, NEW e, Waits(R, B, D, cs, m + 1, e)
  PROVE  /\ Waits(R, B, D, cs, m, R[cs[m + 1].inode_id])
         /\ OpenCall(R, B, D, cs[m + 1]) /\ Pending(R, D, cs[m + 1], e)
         /\ \A k \in 1 .. m : cs[k].inode_id # cs[m + 1].inode_id
<1> DEFINE M == m + 1
<1>1. M \in 1 .. M /\ \A k \in 1 .. m : k \in 1 .. M /\ k # M /\ (k = m => k + 1 = M)
  OBVIOUS
<1> HIDE DEF M
<1>2. Waits(R, B, D, cs, M, e)
  BY DEF M
<1>3. Waits(R, B, D, cs, m, R[cs[M].inode_id])
  BY <1>1, <1>2 DEF Waits
<1>4. OpenCall(R, B, D, cs[M]) /\ Pending(R, D, cs[M], e)
  BY <1>1, <1>2 DEF Waits
<1>5. \A k \in 1 .. m : cs[k].inode_id # cs[M].inode_id
  BY <1>1, <1>2 DEF Waits
<1> QED BY <1>3, <1>4, <1>5 DEF M

LEMMA WaitsKeeps ==
  ASSUME NEW R, NEW B, NEW D, NEW S, NEW C, NEW E, Extends(R, B, D, S, C, E),
         NEW cs, NEW m \in Nat, NEW e, Waits(R, B, D, cs, m, e),
         \A k \in 1 .. m : cs[k].inode_id \notin E
  PROVE  Waits(S, C, E, cs, m, e)
<1>1. ASSUME NEW k \in 1 .. m
      PROVE  /\ OpenCall(S, C, E, cs[k])
             /\ Pending(S, E, cs[k], IF k = m THEN e ELSE S[cs[k + 1].inode_id])
  <2>1. /\ OpenCall(R, B, D, cs[k]) /\ cs[k].inode_id \notin E
        /\ Pending(R, D, cs[k], IF k = m THEN e ELSE R[cs[k + 1].inode_id])
    BY DEF Waits
  <2>2. k # m => S[cs[k + 1].inode_id] = R[cs[k + 1].inode_id]
    <3> SUFFICES ASSUME k # m PROVE S[cs[k + 1].inode_id] = R[cs[k + 1].inode_id]
      OBVIOUS
    <3>1. k + 1 \in 1 .. m
      OBVIOUS
    <3>2. cs[k + 1].inode_id \in B
      BY <3>1 DEF Waits, OpenCall
    <3> QED BY <3>2 DEF Extends
  <2> QED BY <2>1, <2>2, CallKeeps
<1> QED BY <1>1 DEF Waits

(* A call that follows them. *)
LEMMA FollowsWaits ==
  ASSUME NEW R, NEW B, NEW D, NEW cs, NEW m \in Nat,
         NEW ds \in Seq(CallRecords), Len(ds) = m + 1, \A k \in 1 .. m : ds[k] = cs[k],
         Waits(R, B, D, cs, m, R[ds[m + 1].inode_id]),
         OpenCall(R, B, D, ds[m + 1]),
         \A k \in 1 .. m : cs[k].inode_id # ds[m + 1].inode_id
  PROVE  /\ Inner(R, D, ds[m + 1]) => Calls(R, B, D, ds)
         /\ \A e : Pending(R, D, ds[m + 1], e) => Waits(R, B, D, ds, m + 1, e)
<1> DEFINE M == m + 1
<1>1. /\ 1 .. M = (1 .. m) \cup {M} /\ M \in Nat
      /\ \A k \in 1 .. m : k # M /\ k < M /\ (k = m => k + 1 = M) /\ (k # m => k + 1 \in 1 .. m)
  OBVIOUS
<1>2. Len(ds) = M /\ Waits(R, B, D, cs, m, R[ds[M].inode_id]) /\ OpenCall(R, B, D, ds[M])
      /\ \A k \in 1 .. m : cs[k].inode_id # ds[M].inode_id
  OBVIOUS
<1> HIDE DEF M
<1>3. \A k \in 1 .. M : OpenCall(R, B, D, ds[k])
  BY <1>1, <1>2 DEF Waits
<1>4. \A k \in 1 .. m : Pending(R, D, ds[k], R[ds[k + 1].inode_id])
  <2> SUFFICES ASSUME NEW k \in 1 .. m PROVE Pending(R, D, ds[k], R[ds[k + 1].inode_id])
    OBVIOUS
  <2>1. Pending(R, D, cs[k], IF k = m THEN R[ds[M].inode_id] ELSE R[cs[k + 1].inode_id])
    BY <1>2 DEF Waits
  <2>2. ds[k] = cs[k] /\ (k = m => k + 1 = M) /\ (k # m => ds[k + 1] = cs[k + 1])
    BY <1>1
  <2> QED BY <2>1, <2>2
<1>5. \A j, k \in 1 .. M : ds[j].inode_id = ds[k].inode_id => j = k
  <2>1. \A j, k \in 1 .. m : ds[j].inode_id = ds[k].inode_id => j = k
    BY <1>2 DEF Waits
  <2>2. \A k \in 1 .. m : ds[k].inode_id # ds[M].inode_id
    BY <1>2
  <2> QED BY <1>1, <2>1, <2>2
<1>6. Inner(R, D, ds[M]) => Calls(R, B, D, ds)
  <2> SUFFICES ASSUME Inner(R, D, ds[M]) PROVE Calls(R, B, D, ds)
    OBVIOUS
  <2>1. \A k \in 1 .. M : k < M => k \in 1 .. m
    BY <1>1
  <2> QED BY <1>2, <1>3, <1>4, <1>5, <2>1 DEF Calls
<1>7. ASSUME NEW e, Pending(R, D, ds[M], e) PROVE Waits(R, B, D, ds, M, e)
  BY <1>1, <1>3, <1>4, <1>5, <1>7 DEF Waits
<1> QED BY <1>6, <1>7 DEF M
-----------------------------------------------------------------------------
(* The blocks that are written for a file hold it. *)
LEMMA FileBlocks ==
  ASSUME NEW size \in Nat
  PROVE  /\ BlocksOf(size) \in Nat
         /\ \A n \in 0 .. BlocksOf(size) - 1 : n * DISK_BLK_SIZE < size
<1> DEFINE B == DISK_BLK_SIZE
           x == size + B - 1
           q == x \div B
           r == x % B
<1>1. B \in Nat \ {0} /\ x \in Nat
  BY HostAssumption
<1>2. BlocksOf(size) = q
  BY DEF BlocksOf
<1> HIDE DEF B
<1>3. q \in Nat /\ r \in 0 .. B - 1 /\ x = q * B + r
  <2> HIDE DEF x
  <2> QED BY <1>1, DivModNat
<1> HIDE DEF q, r
<1>4. ASSUME NEW n \in 0 .. q - 1 PROVE n * B < size
  <2>1. n \in Nat /\ n + 1 \in Nat /\ n * B \in Nat /\ (n + 1) * B = n * B + B
    BY <1>1, <1>3
  <2>2. SUFFICES ASSUME size <= n * B PROVE FALSE
    BY <2>1
  <2>3. q * B < (n + 1) * B
    BY <1>1, <1>3, <2>1, <2>2
  <2>4. q < n + 1
    BY <1>1, <1>3, <2>1, <2>3, FewerBlocks
  <2> QED BY <1>3, <2>1, <2>4
<1> QED BY <1>2, <1>3, <1>4 DEF B

LEMMA FileStored ==
  ASSUME NEW file, file.size \in Nat, file.size <= MAX_DATA_BLOCKS_PER_INODE * DISK_BLK_SIZE,
         NEW K \in Nat, NEW i \in 0 .. NUM_DATA_BLOCKS - 1, i = K, NEW d,
         \A b \in K .. K + BlocksOf(file.size) - 1 :
           b \in DOMAIN d /\ d[b] = [file |-> file, nth |-> b - K]
  PROVE  Stored(d, K + BlocksOf(file.size), FileInode(file, K), file)
<1> DEFINE B == DISK_BLK_SIZE
           N == BlocksOf(file.size)
           M == MAX_DATA_BLOCKS_PER_INODE
           O == DATA_BLOCKS_OFFSET
           offsets == FileInode(file, K).data_block_offsets
<1>1. B \in Nat \ {0} /\ M \in Nat /\ O \in Nat
  BY HostAssumption DEF DATA_BLOCKS_OFFSET, INODE_BLOCKS_OFFSET
<1>2. N \in Nat /\ \A n \in 0 .. N - 1 : n * B < file.size
  BY FileBlocks
<1>3. offsets = [n \in 0 .. M - 1 |-> IF n * B < file.size THEN O + (K + n) * B ELSE 0]
  BY DEF FileInode
<1>4. NUM_DATA_BLOCKS \in Int
  BY HostAssumption DEF NUM_DATA_BLOCKS
<1> HIDE DEF B, N, M, O, offsets
<1>5. ASSUME NEW n \in 0 .. N - 1
      PROVE  LET b == (offsets[n] - O) \div B
             IN  /\ b \in DOMAIN d /\ d[b] = [file |-> file, nth |-> n]
                 /\ b < NUM_DATA_BLOCKS \/ K + N > NUM_DATA_BLOCKS
  <2>1. n \in Nat /\ n * B < file.size /\ n * B \in Nat
    BY <1>1, <1>2
  <2>2. n < M
    <3>1. n * B < M * B
      BY <1>1, <2>1 DEF M, B
    <3> QED BY <1>1, <2>1, <3>1, FewerBlocks
  <2>3. offsets[n] = O + (K + n) * B
    BY <1>1, <1>3, <2>1, <2>2
  <2>4. (K + n) \in Nat /\ (K + n) * B \in Nat
    BY <1>1, <2>1
  <2>5. offsets[n] - O = (K + n) * B + 0
    BY <1>1, <2>3, <2>4
  <2>6. (offsets[n] - O) \div B = K + n
    BY <1>1, <2>4, <2>5, DivMod
  <2>7. K + n \in K .. K + N - 1 /\ (K + n) - K = n
    BY <1>2, <2>1
  <2>8. K + n \in DOMAIN d /\ d[K + n] = [file |-> file, nth |-> n]
    BY <2>7 DEF N
  <2>9. K + n < NUM_DATA_BLOCKS \/ K + N > NUM_DATA_BLOCKS
    BY <1>2, <1>4, <2>1
  <2> QED BY <2>6, <2>8, <2>9
<1> QED BY <1>5 DEF Stored, B, N, M, O, offsets

-----------------------------------------------------------------------------
(* A step of the generator. *)
LEMMA InnermostCall ==
  ASSUME NEW R, NEW K, Agrees(R, K), result = "writing"
  PROVE  /\ calls \in Seq(CallRecords) /\ calls # <<>> /\ Len(calls) \in Nat \ {0}
         /\ Innermost = calls[Len(calls)] /\ Innermost \in CallRecords
         /\ Innermost.inode_id \in INODE_BITMAP \ DOMAIN inodes
         /\ OpenCall(R, INODE_BITMAP, DOMAIN inodes, Innermost)
         /\ Inner(R, DOMAIN inodes, Innermost)
         /\ Waits(R, INODE_BITMAP, DOMAIN inodes, calls, Len(calls) - 1, R[Innermost.inode_id])
         /\ \A k \in 1 .. Len(calls) - 1 :
              /\ calls[k].inode_id # Innermost.inode_id
              /\ calls[k].inode_id \in INODE_BITMAP \ DOMAIN inodes
<1> DEFINE L == Len(calls)
           D == DOMAIN inodes
<1>1. Calls(R, INODE_BITMAP, D, calls) /\ calls # <<>>
  BY DEF Agrees
<1>2. calls \in Seq(CallRecords) /\ L \in Nat \ {0} /\ Innermost = calls[L] /\ L \in 1 .. L
  BY <1>1 DEF Calls, Innermost, Last
<1> HIDE DEF L, D
<1>3. OpenCall(R, INODE_BITMAP, D, Innermost) /\ Inner(R, D, Innermost)
  BY <1>1, <1>2 DEF Calls, L
<1>4. Waits(R, INODE_BITMAP, D, calls, L - 1, R[Innermost.inode_id])
  BY <1>1, <1>2, CallersWait DEF L
<1>5. ASSUME NEW k \in 1 .. L - 1
      PROVE  calls[k].inode_id # Innermost.inode_id /\ calls[k].inode_id \in INODE_BITMAP \ D
  <2>1. k \in 1 .. L /\ k # L
    BY <1>2
  <2> QED BY <1>1, <1>2, <2>1 DEF Calls, OpenCall, L
<1>6. Innermost \in CallRecords /\ Innermost.inode_id \in INODE_BITMAP \ D
  BY <1>3 DEF OpenCall
<1> QED BY <1>1, <1>2, <1>3, <1>4, <1>5, <1>6 DEF L, D
(* What is reserved is free. *)
LEMMA ReservedIsFree ==
  ASSUME NEW id \in reserve_inode_space
  PROVE  id \in Nat /\ id \notin INODE_BITMAP
<1>1. MAX_INODES \in Int
  BY HostAssumption DEF MAX_INODES
<1> QED BY <1>1 DEF reserve_inode_space, FreeIn

LEMMA FreeBlockIsNext ==
  ASSUME NEW K \in Nat, DNODE_BITMAP = 0 .. K - 1, NEW i \in FreeBlock
  PROVE  i = K /\ i \in 0 .. NUM_DATA_BLOCKS - 1
<1>1. NUM_DATA_BLOCKS \in Int
  BY HostAssumption DEF NUM_DATA_BLOCKS
<1> HIDE DEF NUM_DATA_BLOCKS
<1>2. i \in 0 .. NUM_DATA_BLOCKS - 1 /\ i \notin 0 .. K - 1 /\ \A j \in 0 .. i - 1 : j \in 0 .. K - 1
  BY DEF FreeBlock, FreeIn
<1>3. i \in Nat /\ i >= K
  BY <1>1, <1>2
<1>4. CASE i > K
  <2>1. K \in 0 .. i - 1
    BY <1>3, <1>4
  <2> QED BY <1>2, <2>1
<1> QED BY <1>2, <1>3, <1>4

(* R goes on to an inode that was free. *)
LEMMA ReserveExtends ==
  ASSUME NEW R, NEW B, NEW D, D \subseteq B, B \subseteq Nat, 0 \in B, R \in [B -> HostEntries],
         NEW id \in Nat, id \notin B, NEW e \in HostEntries, NEW E, D \subseteq E
  PROVE  \E S : /\ S \in [B \cup {id} -> HostEntries] /\ S[id] = e /\ S[0] = R[0]
                /\ Extends(R, B, D, S, B \cup {id}, E)
<1> DEFINE S == [b \in B \cup {id} |-> IF b = id THEN e ELSE R[b]]
<1>1. S \in [B \cup {id} -> HostEntries] /\ S[id] = e /\ \A b \in B : S[b] = R[b]
  OBVIOUS
<1> HIDE DEF S
<1>2. S[0] = R[0]
  BY <1>1
<1> QED BY <1>1, <1>2 DEF Extends

(* The innermost call goes on, whatever is reserved or written besides. *)
CallGoesOn(S, C, E, y, ds) ==
  /\ \A k \in 1 .. Len(calls) - 1 : calls[k].inode_id \notin E
  /\ y \in CallRecords /\ y.inode_id = Innermost.inode_id /\ OpenCall(S, C, E, y)
  /\ ds = Append(Front(calls), y)

LEMMA InnermostReplaced ==
  ASSUME NEW R, NEW K, Agrees(R, K), result = "writing",
         NEW S, NEW C, NEW E, Extends(R, INODE_BITMAP, DOMAIN inodes, S, C, E),
         NEW y, NEW ds, CallGoesOn(S, C, E, y, ds)
  PROVE  /\ ds \in Seq(CallRecords) /\ Len(ds) = Len(calls) /\ ds[1].inode_id = calls[1].inode_id
         /\ \A k \in 1 .. Len(calls) - 1 : ds[k] = calls[k]
         /\ ds[Len(calls)] = y
         /\ Inner(S, E, y) => Calls(S, C, E, ds)
         /\ \A e : Pending(S, E, y, e) => Waits(S, C, E, ds, Len(calls), e)
<1> DEFINE B == INODE_BITMAP
           D == DOMAIN inodes
           L == Len(calls)
           m == L - 1
<1>0. /\ \A k \in 1 .. m : calls[k].inode_id \notin E
      /\ y \in CallRecords /\ y.inode_id = Innermost.inode_id /\ OpenCall(S, C, E, y)
      /\ ds = Append(Front(calls), y)
  BY DEF CallGoesOn
<1>1. /\ calls \in Seq(CallRecords) /\ calls # <<>> /\ L \in Nat \ {0}
      /\ Waits(R, B, D, calls, m, R[Innermost.inode_id])
      /\ \A k \in 1 .. m : calls[k].inode_id # Innermost.inode_id
      /\ Innermost.inode_id \in B /\ Innermost = calls[L]
  BY InnermostCall
<1>2. m \in Nat /\ m + 1 = L /\ \A k \in 1 .. m : calls[k].inode_id \notin E
  BY <1>0, <1>1
<1>3. S[Innermost.inode_id] = R[Innermost.inode_id]
  BY <1>1 DEF Extends
<1> HIDE DEF B, D, m
<1>4. Waits(S, C, E, calls, m, S[y.inode_id])
  BY <1>0, <1>1, <1>2, <1>3, WaitsKeeps DEF B, D
<1>5. /\ ds \in Seq(CallRecords) /\ Len(ds) = L /\ ds[L] = y
      /\ \A k \in 1 .. L - 1 : ds[k] = calls[k]
  BY <1>0, <1>1, LastReplaced
<1>6. ds[1].inode_id = calls[1].inode_id
  BY <1>0, <1>1, <1>5
<1>7. /\ Len(ds) = m + 1 /\ ds[m + 1] = y /\ \A k \in 1 .. m : ds[k] = calls[k]
  BY <1>2, <1>5 DEF m
<1> HIDE DEF L
<1>8. Waits(S, C, E, calls, m, S[ds[m + 1].inode_id])
  BY <1>4, <1>7
<1>9. OpenCall(S, C, E, ds[m + 1])
  BY <1>0, <1>7
<1>10. \A k \in 1 .. m : calls[k].inode_id # ds[m + 1].inode_id
  BY <1>0, <1>1, <1>7
<1>11. /\ Inner(S, E, ds[m + 1]) => Calls(S, C, E, ds)
       /\ \A e : Pending(S, E, ds[m + 1], e) => Waits(S, C, E, ds, m + 1, e)
  BY <1>2, <1>5, <1>7, <1>8, <1>9, <1>10, FollowsWaits
<1> QED BY <1>2, <1>5, <1>6, <1>7, <1>11 DEF L

(* What the innermost call does with its entry. *)
LEMMA InnermostAdvances ==
  ASSUME NEW R, NEW K, Agrees(R, K), result = "writing", Innermost.entries # <<>>
  PROVE  /\ Done(Innermost) \in CallRecords
         /\ Done(Innermost).inode_id = Innermost.inode_id
         /\ OpenCall(R, INODE_BITMAP, DOMAIN inodes, Done(Innermost))
         /\ Pending(R, DOMAIN inodes, Done(Innermost), Entry)
         /\ Entry \in HostEntries
<1> DEFINE B == INODE_BITMAP
           D == DOMAIN inodes
<1>1. OpenCall(R, B, D, Innermost) /\ Inner(R, D, Innermost) /\ R \in [B -> HostEntries]
  BY InnermostCall DEF Agrees
<1> HIDE DEF B, D
<1>2. /\ Done(Innermost) \in CallRecords /\ Done(Innermost).inode_id = Innermost.inode_id
      /\ OpenCall(R, B, D, Done(Innermost))
      /\ Pending(R, D, Done(Innermost), Head(Innermost.entries))
      /\ Head(Innermost.entries) \in HostEntries
  BY <1>1, CallAdvances
<1> QED BY <1>2 DEF Entry, B, D

LEMMA WritesFile ==
  ASSUME NEW R, NEW K, Agrees(R, K), WriteFile
  PROVE  ImageIInv'
<1> DEFINE L == Len(calls)
           e == Entry
           B == INODE_BITMAP
           D == DOMAIN inodes
           q == Done(Innermost)
           N == BlocksOf(Entry.size)
<1>1. result = "writing" /\ Innermost.entries # <<>> /\ e.kind = "file"
      /\ host' = host /\ result' = result
  BY DEF WriteFile, Writing
<1>2. PICK i \in FreeBlock, id \in reserve_inode_space :
       /\ FileFits(Entry, i, id)
       /\ write_file_data(Entry, i)
       /\ INODE_BITMAP' = INODE_BITMAP \cup {id}
       /\ inodes' = WithInode(id, FileInode(Entry, i))
       /\ calls' = Append(Front(calls), [Done(Innermost) EXCEPT !.children = Append(@, id)])
  BY DEF WriteFile
<1>3. id \in Nat /\ id \notin B
  BY ReservedIsFree
<1>4. /\ K \in Nat /\ DNODE_BITMAP = 0 .. K - 1 /\ DOMAIN data \subseteq DNODE_BITMAP
      /\ B \subseteq Nat /\ 0 \in B /\ D \subseteq B /\ R \in [B -> HostEntries]
      /\ host \in Hosts /\ R[0] = host
  BY DEF Agrees
<1>5. i = K /\ i \in 0 .. NUM_DATA_BLOCKS - 1
  BY <1>4, FreeBlockIsNext
<1>6. /\ q \in CallRecords /\ q.inode_id = Innermost.inode_id
      /\ OpenCall(R, B, D, q) /\ Pending(R, D, q, e) /\ e \in HostEntries
  BY <1>1, InnermostAdvances
<1>7. e.size \in Nat /\ N \in Nat
  BY <1>1, <1>6, HostAssumption, FileBlocks
<1> DEFINE C == B \cup {id}
           E == D \cup {id}
<1>8. PICK S : /\ S \in [C -> HostEntries] /\ S[id] = e /\ S[0] = R[0]
               /\ Extends(R, B, D, S, C, E)
  BY <1>3, <1>4, <1>6, ReserveExtends
<1>9. DNODE_BITMAP' = 0 .. (K + N) - 1 /\ DOMAIN data' = (K .. K + N - 1) \cup DOMAIN data
      /\ (\A b \in K .. K + N - 1 : data'[b] = [file |-> e, nth |-> b - K])
      /\ (\A b \in DOMAIN data : data'[b] = data[b])
  <2>1. /\ DNODE_BITMAP' = DNODE_BITMAP \cup (K .. K + N - 1)
        /\ data' = [b \in DOMAIN data \cup (K .. K + N - 1) |->
                      IF b \in K .. K + N - 1 THEN [file |-> e, nth |-> b - K] ELSE data[b]]
    BY <1>2, <1>5 DEF write_file_data
  <2>2. (0 .. K - 1) \cup (K .. K + N - 1) = 0 .. (K + N) - 1
    <3> HIDE DEF N
    <3> QED BY <1>4, <1>7
  <2>3. \A b \in DOMAIN data : b \notin K .. K + N - 1
    <3> HIDE DEF N
    <3> QED BY <1>4, <1>7
  <2> HIDE DEF N, e
  <2> QED BY <1>4, <2>1, <2>2, <2>3
<1>10. /\ DOMAIN inodes' = E /\ inodes'[id] = Written(FileInode(e, K))
       /\ \A b \in D : inodes'[b] = inodes[b]
  <2>1. \A b \in D : b # id
    BY <1>3, <1>4
  <2>2. inodes' = WithInode(id, FileInode(e, K))
    BY <1>2, <1>5
  <2> HIDE DEF e
  <2> QED BY <2>1, <2>2 DEF WithInode
<1>11. \A b \in E : Made(S, E, data', K + N, inodes'[b], S[b])
  <2>1. ASSUME NEW b \in D PROVE Made(S, E, data', K + N, inodes'[b], S[b])
    <3>1. Made(R, D, data, K, inodes[b], R[b]) /\ S[b] = R[b] /\ inodes'[b] = inodes[b]
      BY <1>4, <1>8, <1>10 DEF Agrees, Extends
    <3>2. K + N \in Nat /\ K <= K + N
      BY <1>4, <1>7
    <3>3. DOMAIN data \subseteq DOMAIN data' /\ \A x \in DOMAIN data : data'[x] = data[x]
      BY <1>9
    <3> HIDE DEF N, C, E, D, B
    <3> QED BY <1>4, <1>8, <3>1, <3>2, <3>3, MadeKeeps
  <2>2. Made(S, E, data', K + N, Written(FileInode(e, K)), e)
    <3>1. Stored(data', K + N, FileInode(e, K), e)
      <4>1. e.size <= MAX_DATA_BLOCKS_PER_INODE * DISK_BLK_SIZE
        BY <1>2 DEF FileFits
      <4>2. \A b \in K .. K + N - 1 : b \in DOMAIN data' /\ data'[b] = [file |-> e, nth |-> b - K]
        BY <1>9
      <4> QED BY <1>4, <1>5, <1>7, <4>1, <4>2, FileStored
    <3>2. e.name \in Seq(STRING)
      BY <1>6, HostAssumption
    <3> HIDE DEF N, e
    <3>3. MadeOf(S, E, data', K + N, FileInode(e, K), e)
      BY <1>1, <3>1 DEF MadeOf, FileInode
    <3> QED BY <3>2, <3>3, WrittenMade
  <2> QED BY <1>8, <1>10, <2>1, <2>2
<1> DEFINE y == [q EXCEPT !.children = Append(@, id)]
           ds == Append(Front(calls), y)
<1>12. y \in CallRecords /\ y.inode_id = Innermost.inode_id /\ OpenCall(S, C, E, y) /\ Inner(S, E, y)
  <2>1. q.inode_id \notin E /\ id \in E /\ E \subseteq Nat
    BY <1>1, <1>3, <1>4, <1>6, InnermostCall
  <2>2. OpenCall(S, C, E, q) /\ Pending(S, E, q, e)
    <3> HIDE DEF q, e, E, C, B, D
    <3> QED BY <1>6, <1>8, <2>1, CallKeeps
  <2>3. e.kind # "symlink"
    BY <1>1
  <2>4. S[id] = e /\ S \in [C -> HostEntries] /\ id \in E /\ E \subseteq Nat
    BY <1>8, <2>1
  <2> HIDE DEF q, e, E, C, B, D
  <2>5. Takes(S, C, E, q, id)
    BY <2>2, <2>3, <2>4, CallTakes
  <2> QED BY <1>6, <2>5 DEF Takes, WithChild
<1>13. Calls(S, C, E, ds) /\ ds # <<>> /\ ds[1].inode_id = calls[1].inode_id
  <2>1. /\ calls \in Seq(CallRecords) /\ calls # <<>> /\ L \in Nat \ {0}
        /\ \A k \in 1 .. L - 1 : calls[k].inode_id \notin E
    BY <1>1, <1>3, InnermostCall
  <2>3. ds = Append(Front(calls), y)
    OBVIOUS
  <2> HIDE DEF y, C, E, ds
  <2>4. result = "writing" /\ Extends(R, INODE_BITMAP, DOMAIN inodes, S, C, E)
    BY <1>1, <1>8
  <2>2. /\ ds \in Seq(CallRecords) /\ Len(ds) = L /\ ds[1].inode_id = calls[1].inode_id
        /\ Calls(S, C, E, ds)
    <3>1. CallGoesOn(S, C, E, y, ds)
      BY <1>12, <2>1, <2>3 DEF CallGoesOn
    <3> QED BY <1>12, <2>4, <3>1, InnermostReplaced
  <2> QED BY <2>1, <2>2
<1>14. calls' = ds
  BY <1>2
<1>15. calls[1].inode_id = 0
  BY <1>1 DEF Agrees
<1>16. PICK M : M = K + N
  OBVIOUS
<1>17. Agrees(S, M)'
  <2>1. INODE_BITMAP' = C /\ C \subseteq Nat /\ 0 \in C /\ E \subseteq C
    BY <1>2, <1>3, <1>4
  <2>2. K + N \in Nat /\ DOMAIN data' \subseteq 0 .. (K + N) - 1
    <3> HIDE DEF N
    <3> QED BY <1>4, <1>7, <1>9
  <2> HIDE DEF N, ds
  <2>3. \A b \in DOMAIN inodes' : Made(S, DOMAIN inodes', data', K + N, inodes'[b], S[b])
    BY <1>10, <1>11
  <2>4. Calls(S, INODE_BITMAP', DOMAIN inodes', calls')
    BY <1>10, <1>13, <1>14, <2>1
  <2>5. calls' # <<>> /\ calls'[1].inode_id = 0
    BY <1>13, <1>14, <1>15
  <2>6. result' # "done" /\ host' \in Hosts /\ S[0] = host'
    BY <1>1, <1>4, <1>8
  <2>7. DNODE_BITMAP' = 0 .. (K + N) - 1 /\ DOMAIN data' \subseteq DNODE_BITMAP'
    BY <1>9, <2>2
  <2>8. S \in [INODE_BITMAP' -> HostEntries] /\ DOMAIN inodes' \subseteq INODE_BITMAP'
    BY <1>8, <1>10, <2>1
  <2> HIDE DEF C, E, D, B
  <2> QED BY <2>1, <2>2, <2>3, <2>4, <2>5, <2>6, <2>7, <2>8, <1>16 DEF Agrees
<1> QED BY <1>17 DEF ImageIInv
LEMMA SkipsLink ==
  ASSUME NEW R, NEW K, Agrees(R, K), SkipLink
  PROVE  ImageIInv'
<1> DEFINE B == INODE_BITMAP
           D == DOMAIN inodes
           y == Done(Innermost)
           ds == Append(Front(calls), y)
<1>1. /\ result = "writing" /\ Innermost.entries # <<>> /\ Entry.kind = "symlink"
      /\ calls' = ds
      /\ UNCHANGED <<host, INODE_BITMAP, DNODE_BITMAP, inodes, data, result>>
  BY DEF SkipLink, Writing
<1>2. /\ y \in CallRecords /\ y.inode_id = Innermost.inode_id
      /\ OpenCall(R, B, D, y) /\ Pending(R, D, y, Entry)
  BY <1>1, InnermostAdvances
<1>3. R \in [B -> HostEntries] /\ D \subseteq B /\ D \subseteq Nat
  BY DEF Agrees
<1>4. Extends(R, INODE_BITMAP, DOMAIN inodes, R, B, D)
  BY <1>3 DEF Extends
<1>5. ds = Append(Front(calls), y)
  OBVIOUS
<1>6. /\ Len(calls) \in Nat \ {0}
      /\ \A k \in 1 .. Len(calls) - 1 : calls[k].inode_id \notin D
  BY <1>1, InnermostCall
<1> HIDE DEF B, D, y, ds
<1>7. Inner(R, D, y)
  BY <1>1, <1>2, <1>3, CallTakes
<1>8. CallGoesOn(R, B, D, y, ds)
  BY <1>2, <1>5, <1>6 DEF CallGoesOn
<1>9. /\ ds \in Seq(CallRecords) /\ Len(ds) = Len(calls)
      /\ ds[1].inode_id = calls[1].inode_id /\ Calls(R, B, D, ds)
  BY <1>1, <1>4, <1>7, <1>8, InnermostReplaced
<1>10. ds # <<>>
  BY <1>6, <1>9
<1>11. Agrees(R, K)'
  <2>1. Calls(R, INODE_BITMAP', DOMAIN inodes', calls')
    BY <1>1, <1>9 DEF B, D
  <2>2. calls' # <<>> /\ (calls[1].inode_id = 0 => calls'[1].inode_id = 0)
    BY <1>1, <1>9, <1>10
  <2>3. \A id \in DOMAIN inodes' : Made(R, DOMAIN inodes', data', K, inodes'[id], R[id])
    BY <1>1 DEF Agrees
  <2> QED BY <1>1, <2>1, <2>2, <2>3 DEF Agrees
<1> QED BY <1>11 DEF ImageIInv

(* A call for a directory that is reserved has nothing to show yet. *)
LEMMA CallOpens ==
  ASSUME NEW S, NEW C, NEW E, C \subseteq Nat, NEW id \in C, id \notin E,
         NEW e \in HostEntries, S[id] = e, e.kind = "dir"
  PROVE  /\ Opened(id, e) \in CallRecords /\ Opened(id, e).inode_id = id
         /\ OpenCall(S, C, E, Opened(id, e)) /\ Inner(S, E, Opened(id, e))
<1> DEFINE o == Opened(id, e)
<1>1. o.inode_id = id /\ o.name = e.name /\ o.entries = e.entries /\ o.children = <<>>
  BY DEF Opened
<1>2. e.entries \in Seq(HostEntries) /\ Len(e.entries) \in Nat
  BY Entries
<1>3. o \in CallRecords
  <2>1. e.name \in Seq(STRING) /\ <<>> \in Seq(Nat)
    BY HostAssumption
  <2> QED BY <1>2, <2>1 DEF Opened, CallRecords
<1> HIDE DEF o
<1>4. EntriesTaken(S, o) = 0
  BY <1>1, <1>2 DEF EntriesTaken
<1>5. \A j \in 1 .. Len(o.entries) : o.entries[j] = S[o.inode_id].entries[0 + j]
  BY <1>1, <1>2
<1>6. OpenCall(S, C, E, o)
  BY <1>1, <1>3, <1>4, <1>5 DEF OpenCall
<1>7. Inner(S, E, o)
  <2>1. Copied(e.entries, 0) = <<>>
    BY <1>2, CopiedSteps
  <2>2. <<>> \in Seq(E) /\ Len(<<>>) = 0
    OBVIOUS
  <2> QED BY <1>1, <1>4, <2>1, <2>2 DEF Inner, ListsOf
<1> QED BY <1>1, <1>3, <1>6, <1>7 DEF o

LEMMA EntersDirectory ==
  ASSUME NEW R, NEW K, Agrees(R, K), EnterDirectory
  PROVE  ImageIInv'
<1> DEFINE L == Len(calls)
           e == Entry
           B == INODE_BITMAP
           D == DOMAIN inodes
           y == Done(Innermost)
           ds == Append(Front(calls), y)
<1>1. /\ result = "writing" /\ Innermost.entries # <<>> /\ e.kind = "dir"
      /\ UNCHANGED <<host, DNODE_BITMAP, inodes, data, result>>
  BY DEF EnterDirectory, Writing
<1>2. PICK id \in reserve_inode_space :
       /\ INODE_BITMAP' = INODE_BITMAP \cup {id}
       /\ calls' = Append(ds, Opened(id, e))
  BY DEF EnterDirectory
<1>3. id \in Nat /\ id \notin B
  BY ReservedIsFree
<1>4. /\ K \in Nat /\ DNODE_BITMAP = 0 .. K - 1 /\ DOMAIN data \subseteq DNODE_BITMAP
      /\ B \subseteq Nat /\ 0 \in B /\ D \subseteq B /\ R \in [B -> HostEntries]
      /\ host \in Hosts /\ R[0] = host
  BY DEF Agrees
<1>5. /\ y \in CallRecords /\ y.inode_id = Innermost.inode_id
      /\ OpenCall(R, B, D, y) /\ Pending(R, D, y, e) /\ e \in HostEntries
  BY <1>1, InnermostAdvances
<1> DEFINE C == B \cup {id}
           o == Opened(id, e)
<1>6. PICK S : /\ S \in [C -> HostEntries] /\ S[id] = e /\ S[0] = R[0]
               /\ Extends(R, B, D, S, C, D)
  <2>1. D \subseteq B /\ B \subseteq Nat /\ 0 \in B /\ R \in [B -> HostEntries]
    BY <1>4
  <2>2. id \in Nat /\ id \notin B /\ e \in HostEntries
    BY <1>3, <1>5
  <2> HIDE DEF B, D, e
  <2> QED BY <2>1, <2>2, ReserveExtends
<1>7. /\ calls \in Seq(CallRecords) /\ L \in Nat \ {0} /\ Innermost = calls[L]
      /\ Innermost.inode_id \in B \ D
      /\ \A k \in 1 .. L - 1 : calls[k].inode_id \in B \ D
  BY <1>1, InnermostCall
<1>8. OpenCall(S, C, D, y) /\ Pending(S, D, y, e)
  <2>1. y.inode_id \notin D
    BY <1>5, <1>7
  <2> HIDE DEF y, e, C, B, D
  <2> QED BY <1>5, <1>6, <2>1, CallKeeps
<1>9. /\ ds \in Seq(CallRecords) /\ Len(ds) = L /\ ds[1].inode_id = calls[1].inode_id
      /\ \A k \in 1 .. L - 1 : ds[k] = calls[k]
      /\ ds[L] = y
      /\ Waits(S, C, D, ds, L, e)
  <2>1. ds = Append(Front(calls), y) /\ \A k \in 1 .. L - 1 : calls[k].inode_id \notin D
    BY <1>7
  <2>2. result = "writing" /\ Extends(R, INODE_BITMAP, DOMAIN inodes, S, C, D)
    BY <1>1, <1>6
  <2> HIDE DEF y, ds, C, B, D, e
  <2>3. CallGoesOn(S, C, D, y, ds)
    BY <1>5, <1>8, <2>1 DEF CallGoesOn
  <2> QED BY <1>8, <2>2, <2>3, InnermostReplaced
<1>10. /\ o \in CallRecords /\ o.inode_id = id
       /\ OpenCall(S, C, D, o) /\ Inner(S, D, o)
  <2>1. C \subseteq Nat /\ id \in C /\ id \notin D /\ D \subseteq Nat
    BY <1>3, <1>4
  <2>2. e.kind = "dir"
    BY <1>1
  <2>3. e \in HostEntries /\ S[id] = e
    BY <1>5, <1>6
  <2> HIDE DEF C, D, e
  <2> QED BY <2>1, <2>2, <2>3, CallOpens
<1>11. \A k \in 1 .. L : ds[k].inode_id \in B
  <2> HIDE DEF ds, y, B, D
  <2> QED BY <1>5, <1>7, <1>9
<1> DEFINE es == Append(ds, o)
<1>12. /\ es \in Seq(CallRecords) /\ Len(es) = L + 1 /\ es[L + 1] = o
       /\ \A k \in 1 .. L : es[k] = ds[k]
  <2> HIDE DEF ds, o
  <2> QED BY <1>7, <1>9, <1>10
<1>13. Calls(S, C, D, es)
  <2> HIDE DEF es, ds, o, C, B, D, L, e
  <2>1. Waits(S, C, D, ds, L, S[es[L + 1].inode_id])
    BY <1>6, <1>9, <1>10, <1>12
  <2>2. OpenCall(S, C, D, es[L + 1]) /\ Inner(S, D, es[L + 1])
    BY <1>10, <1>12
  <2>3. \A k \in 1 .. L : ds[k].inode_id # es[L + 1].inode_id
    BY <1>3, <1>10, <1>11, <1>12
  <2>4. L \in Nat
    BY <1>7
  <2> QED BY <1>12, <2>1, <2>2, <2>3, <2>4, FollowsWaits
<1>14. es # <<>> /\ es[1].inode_id = calls[1].inode_id
  <2> HIDE DEF es, ds
  <2> QED BY <1>7, <1>9, <1>12
<1>15. Agrees(S, K)'
  <2>1. INODE_BITMAP' = C /\ C \subseteq Nat /\ 0 \in C /\ D \subseteq C
    BY <1>2, <1>3, <1>4
  <2>2. ASSUME NEW b \in D PROVE Made(S, D, data, K, inodes[b], S[b])
    <3>1. Made(R, D, data, K, inodes[b], R[b]) /\ S[b] = R[b]
      BY <1>4, <1>6 DEF Agrees, Extends
    <3> HIDE DEF C, D, B
    <3> QED BY <1>4, <1>6, <3>1, MadeKeeps
  <2>3. DOMAIN inodes' = D /\ \A b \in DOMAIN inodes' : Made(S, DOMAIN inodes', data', K, inodes'[b], S[b])
    BY <1>1, <2>2
  <2> HIDE DEF es, ds
  <2>4. Calls(S, INODE_BITMAP', DOMAIN inodes', calls')
    BY <1>1, <1>2, <1>13, <2>1 DEF es
  <2>5. calls' # <<>> /\ calls'[1].inode_id = 0
    BY <1>1, <1>2, <1>14 DEF Agrees, es
  <2>6. result' # "done" /\ host' \in Hosts /\ S[0] = host'
    BY <1>1, <1>4, <1>6
  <2>7. DNODE_BITMAP' = 0 .. K - 1 /\ DOMAIN data' \subseteq DNODE_BITMAP'
    BY <1>1, <1>4
  <2>8. S \in [INODE_BITMAP' -> HostEntries] /\ DOMAIN inodes' \subseteq INODE_BITMAP'
    BY <1>6, <2>1, <2>3
  <2> HIDE DEF C, D, B
  <2> QED BY <1>4, <2>1, <2>3, <2>4, <2>5, <2>6, <2>7, <2>8 DEF Agrees
<1> QED BY <1>15 DEF ImageIInv
(* A directory that is left becomes a child of the one it is in. *)
LEMMA ParentTakes ==
  ASSUME NEW R, NEW K, Agrees(R, K), result = "writing", Len(calls) # 1,
         NEW id, id = Innermost.inode_id, NEW E, E = DOMAIN inodes \cup {id}
  PROVE  /\ Calls(R, INODE_BITMAP, E, Parent(id)) /\ Parent(id) # <<>>
         /\ Parent(id)[1].inode_id = calls[1].inode_id
<1> DEFINE L == Len(calls)
           m == L - 2
           B == INODE_BITMAP
           D == DOMAIN inodes
           c == calls[m + 1]
           z == [c EXCEPT !.children = Append(@, id)]
           ds == Append(Front(Front(calls)), z)
<1>1. B \subseteq Nat /\ D \subseteq B /\ R \in [B -> HostEntries]
  BY DEF Agrees
<1>2. /\ calls \in Seq(CallRecords) /\ calls # <<>> /\ L \in Nat \ {0, 1}
      /\ id \in B \ D /\ R[id].kind = "dir"
      /\ \A k \in 1 .. L - 1 : calls[k].inode_id # id /\ calls[k].inode_id \in B \ D
  <2>1. OpenCall(R, B, D, Innermost)
    BY InnermostCall
  <2> QED BY <2>1, InnermostCall DEF OpenCall
<1>3. Waits(R, B, D, calls, L - 1, R[id])
  BY InnermostCall
<1>4. m \in Nat /\ m + 1 = L - 1 /\ m + 1 \in Nat
  <2>1. L \in Nat \ {0, 1}
    BY <1>2
  <2> HIDE DEF L
  <2> QED BY <2>1
<1>5. Parent(id) = ds
  BY <1>2, <1>4 DEF Parent
<1> HIDE DEF B, D, L, m
<1>6. Extends(R, B, D, R, B, E)
  BY <1>1, <1>2 DEF Extends, D
<1>7. Waits(R, B, E, calls, m + 1, R[id])
  <2>1. Waits(R, B, D, calls, m + 1, R[id]) /\ \A k \in 1 .. m + 1 : calls[k].inode_id \notin E
    BY <1>2, <1>3, <1>4 DEF D
  <2> QED BY <1>4, <1>6, <2>1, WaitsKeeps
<1>8. /\ Waits(R, B, E, calls, m, R[c.inode_id])
      /\ OpenCall(R, B, E, c) /\ Pending(R, E, c, R[id])
      /\ \A k \in 1 .. m : calls[k].inode_id # c.inode_id
  BY <1>4, <1>7, WaitsLess
<1>9. z \in CallRecords /\ z.inode_id = c.inode_id /\ OpenCall(R, B, E, z) /\ Inner(R, E, z)
  <2> DEFINE e == R[id]
  <2>1. R[id] = e /\ R \in [B -> HostEntries] /\ id \in E /\ E \subseteq Nat
    BY <1>1, <1>2 DEF D
  <2>4. e.kind # "symlink"
    BY <1>2
  <2>3. OpenCall(R, B, E, c) /\ Pending(R, E, c, e)
    BY <1>8
  <2> HIDE DEF c, e
  <2>2. Takes(R, B, E, c, id)
    BY <2>1, <2>3, <2>4, CallTakes
  <2> QED BY <2>2 DEF Takes, WithChild
<1>10. /\ ds \in Seq(CallRecords) /\ Len(ds) = m + 1 /\ ds[m + 1] = z
       /\ \A k \in 1 .. m : ds[k] = calls[k]
  <2> DEFINE f == Front(calls)
             g == Append(Front(f), z)
  <2>1. f \in Seq(CallRecords) /\ Len(f) = m + 1 /\ \A k \in 1 .. m + 1 : f[k] = calls[k]
    BY <1>2, <1>4, FrontIs DEF L
  <2> HIDE DEF f, z
  <2>2. f # <<>>
    BY <1>4, <2>1
  <2>3. /\ Append(Front(f), z) \in Seq(CallRecords) /\ Len(Append(Front(f), z)) = Len(f)
        /\ Append(Front(f), z)[Len(f)] = z
        /\ \A k \in 1 .. Len(f) - 1 : Append(Front(f), z)[k] = f[k]
    BY <1>9, <2>1, <2>2, LastReplaced
  <2>4. ds = g
    BY DEF f
  <2>5. /\ g \in Seq(CallRecords) /\ Len(g) = Len(f) /\ g[Len(f)] = z
        /\ \A k \in 1 .. Len(f) - 1 : g[k] = f[k]
    BY <2>3
  <2> HIDE DEF g, ds
  <2>6. Len(f) = m + 1 /\ Len(f) - 1 = m /\ \A k \in 1 .. m : f[k] = calls[k]
    BY <1>4, <2>1
  <2> QED BY <2>4, <2>5, <2>6
<1> HIDE DEF z, ds, c
<1>11. Calls(R, B, E, ds)
  <2>1. Waits(R, B, E, calls, m, R[ds[m + 1].inode_id])
    BY <1>8, <1>9, <1>10
  <2>2. OpenCall(R, B, E, ds[m + 1]) /\ Inner(R, E, ds[m + 1])
    BY <1>9, <1>10
  <2>3. \A k \in 1 .. m : calls[k].inode_id # ds[m + 1].inode_id
    BY <1>8, <1>9, <1>10
  <2> QED BY <1>4, <1>10, <2>1, <2>2, <2>3, FollowsWaits
<1>12. ds # <<>> /\ ds[1].inode_id = calls[1].inode_id
  BY <1>4, <1>9, <1>10 DEF c
<1> QED BY <1>5, <1>11, <1>12 DEF B

LEMMA LeavesDirectory ==
  ASSUME NEW R, NEW K, Agrees(R, K), LeaveDirectory
  PROVE  ImageIInv'
<1> DEFINE B == INODE_BITMAP
           D == DOMAIN inodes
           id == Innermost.inode_id
           E == D \cup {id}
           inode == [name |-> Innermost.name, is_directory |-> TRUE,
                     children |-> Innermost.children]
<1>1. /\ result = "writing" /\ Innermost.entries = <<>>
      /\ inodes' = WithInode(id, inode) /\ calls' = Parent(id)
      /\ result' = IF Len(calls) = 1 THEN "done" ELSE "writing"
      /\ UNCHANGED <<host, INODE_BITMAP, DNODE_BITMAP, data>>
  BY DEF LeaveDirectory
<1>2. /\ K \in Nat /\ DNODE_BITMAP = 0 .. K - 1 /\ DOMAIN data \subseteq DNODE_BITMAP
      /\ B \subseteq Nat /\ 0 \in B /\ D \subseteq B /\ R \in [B -> HostEntries]
      /\ host \in Hosts /\ R[0] = host /\ calls[1].inode_id = 0
  BY <1>1 DEF Agrees
<1>3. /\ OpenCall(R, B, D, Innermost) /\ Inner(R, D, Innermost)
      /\ Innermost.inode_id \in B \ D /\ Innermost = calls[Len(calls)]
  BY <1>1, InnermostCall
<1>4. Extends(R, B, D, R, B, E)
  BY <1>2, <1>3 DEF Extends
<1>5. DOMAIN inodes' = E /\ inodes'[id] = Written(inode) /\ \A b \in D : inodes'[b] = inodes[b]
  BY <1>1, <1>3 DEF WithInode
<1>6. Made(R, E, data, K, Written(inode), R[id])
  <2> DEFINE e == R[id]
  <2>1. e \in HostEntries /\ e.kind = "dir" /\ e.name = Innermost.name
    BY <1>2, <1>3 DEF OpenCall
  <2>2. EntriesTaken(R, Innermost) = Len(e.entries)
    <3>1. Len(e.entries) \in Nat /\ Len(Innermost.entries) = 0
      BY <1>1, <2>1, Entries
    <3> QED BY <3>1 DEF EntriesTaken
  <2>3. ListsOf(R, D, Innermost.children, e.entries, Len(e.entries))
    BY <1>3, <2>2 DEF Inner
  <2>4. ListsOf(R, E, Innermost.children, e.entries, Len(e.entries))
    <3> HIDE DEF E, D, B, e
    <3> QED BY <1>4, <2>3, ListsKeep
  <2>5. e.name \in Seq(STRING)
    BY <2>1, HostAssumption
  <2> HIDE DEF E, e
  <2>6. MadeOf(R, E, data, K, inode, e)
    BY <2>1, <2>4 DEF MadeOf
  <2> HIDE DEF inode
  <2> QED BY <2>5, <2>6, WrittenMade DEF e
<1>7. \A b \in E : Made(R, E, data, K, inodes'[b], R[b])
  <2>1. ASSUME NEW b \in D PROVE Made(R, E, data, K, inodes'[b], R[b])
    <3>1. Made(R, D, data, K, inodes[b], R[b]) /\ inodes'[b] = inodes[b]
      BY <1>5 DEF Agrees
    <3> HIDE DEF E, D, B
    <3> QED BY <1>2, <1>4, <3>1, MadeKeeps
  <2> HIDE DEF inode
  <2> QED BY <1>5, <1>6, <2>1
<1>8. CASE Len(calls) = 1
  <2>1. id = 0 /\ calls' = <<>> /\ result' = "done"
    BY <1>1, <1>2, <1>3, <1>8 DEF Parent
  <2>2. Calls(R, B, E, <<>>)
    BY DEF Calls
  <2>3. Agrees(R, K)'
    <3>1. 0 \in DOMAIN inodes' /\ DOMAIN inodes' \subseteq INODE_BITMAP' /\ INODE_BITMAP' = B
      BY <1>1, <1>2, <1>3, <1>5, <2>1
    <3>2. \A b \in DOMAIN inodes' : Made(R, DOMAIN inodes', data', K, inodes'[b], R[b])
      BY <1>1, <1>5, <1>7
    <3>3. Calls(R, INODE_BITMAP', DOMAIN inodes', calls')
      BY <1>1, <1>5, <2>1, <2>2
    <3> HIDE DEF B, D, E, id
    <3> QED BY <1>1, <1>2, <2>1, <3>1, <3>2, <3>3 DEF Agrees
  <2> QED BY <2>3 DEF ImageIInv
<1>9. CASE Len(calls) # 1
  <2>1. /\ Calls(R, B, E, Parent(id)) /\ Parent(id) # <<>>
        /\ Parent(id)[1].inode_id = calls[1].inode_id
    BY <1>1, <1>9, ParentTakes
  <2>2. result' = "writing"
    BY <1>1, <1>9
  <2>3. Agrees(R, K)'
    <3>1. DOMAIN inodes' \subseteq INODE_BITMAP' /\ INODE_BITMAP' = B
      BY <1>1, <1>2, <1>3, <1>5
    <3>2. \A b \in DOMAIN inodes' : Made(R, DOMAIN inodes', data', K, inodes'[b], R[b])
      BY <1>1, <1>5, <1>7
    <3>3. Calls(R, INODE_BITMAP', DOMAIN inodes', calls')
      BY <1>1, <1>5, <2>1
    <3>4. calls' # <<>> /\ calls'[1].inode_id = 0
      BY <1>1, <1>2, <2>1
    <3> HIDE DEF B, D, E, id
    <3> QED BY <1>1, <1>2, <2>2, <3>1, <3>2, <3>3, <3>4 DEF Agrees
  <2> QED BY <2>3 DEF ImageIInv
<1> QED BY <1>8, <1>9

LEMMA InitImageIInv == ImageInit(Hosts, InodeBlocks) => ImageIInv
<1> SUFFICES ASSUME ImageInit(Hosts, InodeBlocks) PROVE ImageIInv
  OBVIOUS
<1> DEFINE R == [b \in {0} |-> host]
           o == Opened(0, host)
<1>1. /\ host \in Hosts /\ calls = <<o>> /\ INODE_BITMAP = {0} /\ DNODE_BITMAP = {}
      /\ inodes = <<>> /\ data = <<>> /\ result = "writing"
  BY DEF ImageInit
<1>2. host \in HostEntries /\ host.kind = "dir"
  BY <1>1, HostAssumption
<1>3. R \in [{0} -> HostEntries] /\ R[0] = host
  BY <1>2
<1>4. DOMAIN inodes = {} /\ DOMAIN data = {}
  BY <1>1
<1> HIDE DEF R
<1>5. o \in CallRecords /\ o.inode_id = 0 /\ OpenCall(R, {0}, {}, o) /\ Inner(R, {}, o)
  BY <1>2, <1>3, CallOpens
<1>6. Calls(R, {0}, {}, calls)
  <2> HIDE DEF o
  <2>1. calls \in Seq(CallRecords) /\ Len(calls) = 1 /\ calls[1] = o
    BY <1>1, <1>5
  <2> QED BY <1>5, <2>1 DEF Calls
<1>7. calls # <<>> /\ calls[1].inode_id = 0
  <2> HIDE DEF o
  <2> QED BY <1>1, <1>5
<1>8. DNODE_BITMAP = 0 .. 0 - 1
  BY <1>1
<1>9. Agrees(R, 0)
  BY <1>1, <1>3, <1>4, <1>6, <1>7, <1>8 DEF Agrees
<1> QED BY <1>9 DEF ImageIInv

LEMMA StepImageIInv == ImageIInv /\ [ImageNext]_imageVars => ImageIInv'
<1> SUFFICES ASSUME NEW R, NEW K, Agrees(R, K), [ImageNext]_imageVars PROVE ImageIInv'
  BY DEF ImageIInv
<1>1. CASE UNCHANGED imageVars
  <2>1. Agrees(R, K)'
    BY <1>1 DEF Agrees, imageVars
  <2> QED BY <2>1 DEF ImageIInv
<1>2. CASE Stops
  <2>1. Agrees(R, K)'
    BY <1>2 DEF Agrees, Stops
  <2> QED BY <2>1 DEF ImageIInv
<1>3. CASE WriteFile
  BY <1>3, WritesFile
<1>4. CASE EnterDirectory
  BY <1>4, EntersDirectory
<1>5. CASE LeaveDirectory
  BY <1>5, LeavesDirectory
<1>6. CASE SkipLink
  BY <1>6, SkipsLink
<1>7. FileFails \/ DirectoryFails \/ LeaveFails \/ UnknownFails => Stops
  BY DEF FileFails, DirectoryFails, LeaveFails, UnknownFails
<1> QED BY <1>1, <1>2, <1>3, <1>4, <1>5, <1>6, <1>7 DEF ImageNext

LEMMA ImageInvariance == ImageSpec => []ImageIInv
  BY InitImageIInv, StepImageIInv, PTL DEF ImageSpec
-----------------------------------------------------------------------------
(* The entry with a name is the one that was copied. *)
LEMMA HostChildIs ==
  ASSUME NEW node \in HostEntries, node.kind = "dir", NEW name,
         NEW c, c = Copied(node.entries, Len(node.entries))
  PROVE  /\ c \in Seq(HostEntries)
         /\ \A j, k \in 1 .. Len(c) : c[j].name = c[k].name => j = k
         /\ \A k \in 1 .. Len(c) : c[k].name = name => HostChild(node, name) = c[k]
         /\ (\A k \in 1 .. Len(c) : c[k].name # name) => HostChild(node, name) = NULL
<1> DEFINE entries == node.entries
           N == Len(entries)
           named == {k \in 1 .. N : entries[k].name = name /\ entries[k].kind # "symlink"}
<1>1. /\ entries \in Seq(HostEntries) /\ N \in Nat /\ node # NULL
      /\ \A i, j \in 1 .. N : entries[i].name = entries[j].name => i = j
  BY Entries, HostAssumption
<1>2. c \in Seq(HostEntries)
  BY <1>1, CopiedSteps, SMTT(30)
<1>3. Selects(c, entries, N)
  BY <1>1, CopiedSelects
<1>4. HostChild(node, name) = IF named = {} THEN NULL ELSE entries[CHOOSE k \in named : TRUE]
  <2>1. DOMAIN entries = 1 .. N
    BY <1>1
  <2> QED BY <1>1, <2>1 DEF HostChild
<1> HIDE DEF entries, N
<1>5. ASSUME NEW k \in 1 .. Len(c), c[k].name = name PROVE HostChild(node, name) = c[k]
  <2>1. PICK j \in 1 .. N : c[k] = entries[j] /\ entries[j].kind # "symlink"
    BY <1>3 DEF Selects
  <2>2. j \in named /\ \A l \in named : l = j
    BY <1>1, <1>5, <2>1
  <2> HIDE DEF named
  <2>3. (CHOOSE l \in named : TRUE) = j
    BY <2>2
  <2> QED BY <1>4, <2>1, <2>2, <2>3
<1>6. ASSUME \A k \in 1 .. Len(c) : c[k].name # name PROVE HostChild(node, name) = NULL
  <2>1. named = {}
    BY <1>3, <1>6 DEF Selects
  <2> QED BY <1>4, <2>1
<1>7. \A j, k \in 1 .. Len(c) : c[j].name = c[k].name => j = k
  BY <1>3 DEF Selects
<1> QED BY <1>2, <1>5, <1>6, <1>7

(* A name on a path. *)
Plain(name) == name \in Seq(STRING) /\ \A i \in DOMAIN name : name[i] # "SOH"

LEMMA NeverEndsSOH ==
  ASSUME NEW name, Plain(name), NEW x \in Seq(STRING)
  PROVE  Append(x, "SOH") # name
<1>1. /\ Len(x) + 1 \in DOMAIN Append(x, "SOH")
      /\ Append(x, "SOH")[Len(x) + 1] = "SOH"
  BY AppendProperties
<1> QED BY <1>1 DEF Plain

(* Path lookup finds a directory only when its name does not fill its field. *)
Full(e) == e.kind = "dir" /\ Len(e.name) = MAX_NAME_SIZE

LEMMA NameFound ==
  ASSUME NEW e \in HostEntries, NEW inode, inode.name = e.name,
         inode.is_directory = (e.kind = "dir"), NEW name, Plain(name)
  PROVE  NameOf(inode) = name <=> e.name = name /\ ~Full(e)
<1>1. e.name \in Seq(STRING)
  BY HostAssumption
<1>2. CASE Full(e)
  BY <1>1, <1>2, NeverEndsSOH DEF NameOf, Full
<1>3. CASE ~Full(e)
  BY <1>3 DEF NameOf, Full
<1> QED BY <1>2, <1>3

LEMMA MadeIs ==
  ASSUME NEW R, NEW D, NEW d, NEW K, NEW inode, NEW e, MadeOf(R, D, d, K, inode, e)
  PROVE  inode.name = e.name /\ inode.is_directory = (e.kind = "dir")
BY DEF MadeOf

(* One name of a path. *)
LEMMA ChildIs ==
  ASSUME NEW R, NEW K, Agrees(R, K), NamesFit, NEW i \in DOMAIN inodes, NEW name, Plain(name),
         NEW h, h = HostChild(R[i], name), NEW c, c = ChildNamed(inodes, i, name)
  PROVE  /\ h # NULL => h \in HostEntries /\ h.name = name
         /\ h = NULL \/ Full(h) => c = NULL
         /\ h # NULL /\ ~Full(h) => c \in DOMAIN inodes /\ R[c] = h
<1> DEFINE D == DOMAIN inodes
           e == R[i]
           ids == inodes[i].children
           q == Copied(e.entries, Len(e.entries))
           named == {k \in 1 .. Len(ids) : NameOf(inodes[ids[k]]) = name}
<1>1. /\ \A b \in D : MadeOf(R, D, data, K, inodes[b], R[b]) /\ R[b] \in HostEntries
      /\ D \subseteq Nat /\ NULL \notin HostEntries /\ NULL \notin Nat
  BY HostAssumption DEF Agrees, Made, NamesFit
<1> HIDE DEF D
<1>2. MadeOf(R, D, data, K, inodes[i], e) /\ e \in HostEntries
      /\ i \in D /\ i # NULL /\ e # NULL
  BY <1>1 DEF D
<1>3. inodes[i].is_directory = (e.kind = "dir")
  BY <1>2, MadeIs
<1>4. CASE e.kind # "dir"
  <2>1. h = NULL
    BY <1>4 DEF HostChild
  <2>2. c = NULL
    BY <1>3, <1>4 DEF ChildNamed
  <2> QED BY <2>1, <2>2
<1>5. CASE e.kind = "dir"
  <2>1. ListsOf(R, D, ids, e.entries, Len(e.entries))
    BY <1>2, <1>5 DEF MadeOf
  <2>2. /\ ids \in Seq(D) /\ Len(ids) = Len(q) /\ DOMAIN ids = 1 .. Len(ids)
        /\ \A k \in 1 .. Len(ids) : ids[k] \in D /\ R[ids[k]] = q[k]
    BY <2>1 DEF ListsOf
  <2>3. /\ q \in Seq(HostEntries)
        /\ \A j, k \in 1 .. Len(q) : q[j].name = q[k].name => j = k
        /\ \A k \in 1 .. Len(q) : q[k].name = name => h = q[k]
        /\ (\A k \in 1 .. Len(q) : q[k].name # name) => h = NULL
    <3> HIDE DEF q, e
    <3> QED BY <1>2, <1>5, HostChildIs DEF q, e
  <2>4. c = IF named = {} THEN NULL ELSE ids[CHOOSE k \in named : \A j \in named : k <= j]
    <3> DEFINE all == {k \in DOMAIN ids : NameOf(inodes[ids[k]]) = name}
    <3>1. i # NULL /\ inodes[i].is_directory
      BY <1>2, <1>3, <1>5
    <3>2. c = IF all = {} THEN NULL ELSE ids[CHOOSE k \in all : \A j \in all : k <= j]
      BY <3>1 DEF ChildNamed
    <3>3. all = named
      BY <2>2
    <3> HIDE DEF all, named, ids
    <3> QED BY <3>2, <3>3
  <2> HIDE DEF e, ids, q
  <2>5. ASSUME NEW k \in 1 .. Len(ids)
        PROVE  NameOf(inodes[ids[k]]) = name <=> q[k].name = name /\ ~Full(q[k])
    <3> DEFINE inode == inodes[ids[k]]
    <3>1. MadeOf(R, D, data, K, inode, q[k]) /\ q[k] \in HostEntries
      BY <1>1, <2>2
    <3> HIDE DEF inode
    <3>2. inode.name = q[k].name /\ inode.is_directory = (q[k].kind = "dir")
      BY <3>1, MadeIs
    <3>3. NameOf(inode) = name <=> q[k].name = name /\ ~Full(q[k])
      BY <3>1, <3>2, NameFound
    <3> QED BY <3>3 DEF inode
  <2>6. named = {k \in 1 .. Len(q) : q[k].name = name /\ ~Full(q[k])}
    BY <2>2, <2>5
  <2>7. CASE \A k \in 1 .. Len(q) : q[k].name # name
    <3>1. named = {}
      BY <2>6, <2>7
    <3> QED BY <2>3, <2>4, <2>7, <3>1
  <2>8. ASSUME NEW k \in 1 .. Len(q), q[k].name = name
        PROVE  /\ h # NULL => h \in HostEntries /\ h.name = name
               /\ h = NULL \/ Full(h) => c = NULL
               /\ h # NULL /\ ~Full(h) => c \in D /\ R[c] = h
    <3>1. h = q[k] /\ h \in HostEntries /\ h # NULL /\ h.name = name
      BY <1>1, <2>3, <2>8
    <3>2. named = IF Full(h) THEN {} ELSE {k}
      BY <2>3, <2>6, <2>8, <3>1
    <3>3. CASE Full(h)
      BY <2>4, <3>1, <3>2, <3>3
    <3>4. CASE ~Full(h)
      <4>1. (CHOOSE l \in named : \A j \in named : l <= j) = k
        <5>1. named = {k} /\ k <= k
          BY <2>3, <2>8, <3>2, <3>4
        <5> HIDE DEF named
        <5> QED BY <5>1
      <4>2. c = ids[k] /\ ids[k] \in D /\ R[ids[k]] = h
        BY <2>2, <2>4, <2>8, <3>1, <3>2, <3>4, <4>1
      <4> QED BY <3>1, <3>4, <4>2
    <3> QED BY <3>3, <3>4
  <2> QED BY <2>7, <2>8 DEF D
<1> QED BY <1>4, <1>5
(* The entries of the host on a path, and the inodes of the image. *)
LEMMA HostChildType ==
  ASSUME NEW v \in HostEntries \cup {NULL}, NEW name
  PROVE  HostChild(v, name) \in HostEntries \cup {NULL}
<1>1. CASE v = NULL \/ v.kind # "dir"
  BY <1>1 DEF HostChild
<1>2. CASE v # NULL /\ v.kind = "dir"
  <2> DEFINE c == Copied(v.entries, Len(v.entries))
  <2>1. /\ c \in Seq(HostEntries)
        /\ \A k \in 1 .. Len(c) : c[k].name = name => HostChild(v, name) = c[k]
        /\ (\A k \in 1 .. Len(c) : c[k].name # name) => HostChild(v, name) = NULL
    BY <1>2, HostChildIs
  <2> HIDE DEF c
  <2>2. \A k \in 1 .. Len(c) : c[k] \in HostEntries
    BY <2>1
  <2> QED BY <2>1, <2>2
<1> QED BY <1>1, <1>2

LEMMA HostWay ==
  ASSUME NEW way \in Seq(Seq(STRING)), host \in HostEntries
  PROVE  /\ HostAt(way, 0) = host
         /\ \A n \in 0 .. Len(way) : HostAt(way, n) \in HostEntries \cup {NULL}
         /\ \A n \in 1 .. Len(way) : HostAt(way, n) = HostChild(HostAt(way, n - 1), way[n])
<1> DEFINE N == Len(way)
           V == HostEntries \cup {NULL}
           F == [n \in 1 .. N |-> [v \in V |-> HostChild(v, way[n])]]
           StepTo(g, n) == IF n = 0 THEN host ELSE HostChild(g[n - 1], way[n])
           at == CHOOSE g : g = [n \in 0 .. N |-> StepTo(g, n)]
<1>1. N \in Nat /\ host \in V
  OBVIOUS
<1>2. F \in [1 .. N -> [V -> V]]
  BY HostChildType
<1>3. PICK f : Iterates(f, N, V, host, F)
  <2> HIDE DEF N, V, F
  <2> QED BY <1>1, <1>2, Recursion
<1>4. ASSUME NEW n \in 0 .. N PROVE f[n] = StepTo(f, n)
  <2>1. CASE n = 0
    BY <1>3, <2>1 DEF Iterates
  <2>2. CASE n # 0
    <3>1. n \in 1 .. N /\ n - 1 \in 0 .. N
      BY <1>1, <2>2
    <3>2. f[n - 1] \in V
      BY <1>3, <3>1 DEF Iterates
    <3> QED BY <1>3, <2>2, <3>1, <3>2 DEF Iterates
  <2> QED BY <2>1, <2>2
<1>5. f = [n \in 0 .. N |-> StepTo(f, n)]
  BY <1>3, <1>4 DEF Iterates
<1>6. at = [n \in 0 .. N |-> StepTo(at, n)]
  BY <1>5
<1>7. \A m : HostAt(way, m) = at[m]
  BY DEF HostAt
<1> HIDE DEF at
<1>8. at[0] = host /\ \A n \in 1 .. N : at[n] = HostChild(at[n - 1], way[n])
  BY <1>1, <1>6, SMTT(30)
<1> DEFINE T == {n \in Nat : n <= N => at[n] \in V}
<1>9. 0 \in T
  BY <1>1, <1>8
<1>10. ASSUME NEW n \in Nat, n \in T PROVE n + 1 \in T
  <2> SUFFICES ASSUME n + 1 <= N PROVE at[n + 1] \in V
    OBVIOUS
  <2>1. at[n] \in V /\ n + 1 \in 1 .. N /\ (n + 1) - 1 = n
    BY <1>1, <1>10
  <2>2. at[n + 1] = HostChild(at[n], way[n + 1])
    BY <1>8, <2>1
  <2> QED BY <2>1, <2>2, HostChildType
<1>11. Nat \subseteq T
  <2> HIDE DEF T
  <2> QED BY <1>9, <1>10, Induction
<1>12. \A n \in 0 .. N : at[n] \in V
  BY <1>1, <1>11
<1> QED BY <1>7, <1>8, <1>12

LEMMA ImageWay ==
  ASSUME NEW R, NEW K, Agrees(R, K), NamesFit, 0 \in DOMAIN inodes,
         NEW way \in Seq(Seq(STRING)), \A n \in 1 .. Len(way) : Plain(way[n])
  PROVE  \E at : /\ at[0] = 0 /\ find_inode_by_path(inodes, 0, way) = at[Len(way)]
                 /\ \A n \in 1 .. Len(way) : at[n] = ChildNamed(inodes, at[n - 1], way[n])
<1> DEFINE N == Len(way)
           V == DOMAIN inodes \cup {NULL}
           F == [n \in 1 .. N |-> [v \in V |-> ChildNamed(inodes, v, way[n])]]
           StepTo(g, n) == IF n = 0 THEN 0 ELSE ChildNamed(inodes, g[n - 1], way[n])
           at == CHOOSE g : g = [n \in 0 .. N |-> StepTo(g, n)]
<1>1. N \in Nat /\ 0 \in V
  OBVIOUS
<1>2. ASSUME NEW n \in 1 .. N, NEW v \in V PROVE ChildNamed(inodes, v, way[n]) \in V
  <2>1. CASE v = NULL
    BY <2>1 DEF ChildNamed
  <2>2. CASE v \in DOMAIN inodes
    BY <2>2, ChildIs
  <2> QED BY <2>1, <2>2
<1>3. F \in [1 .. N -> [V -> V]]
  BY <1>2
<1>4. PICK f : Iterates(f, N, V, 0, F)
  <2> HIDE DEF N, V, F
  <2> QED BY <1>1, <1>3, Recursion
<1>5. ASSUME NEW n \in 0 .. N PROVE f[n] = StepTo(f, n)
  <2>1. CASE n = 0
    BY <1>4, <2>1 DEF Iterates
  <2>2. CASE n # 0
    <3>1. n \in 1 .. N /\ n - 1 \in 0 .. N
      BY <1>1, <2>2
    <3>2. f[n - 1] \in V
      BY <1>4, <3>1 DEF Iterates
    <3> QED BY <1>4, <2>2, <3>1, <3>2 DEF Iterates
  <2> QED BY <2>1, <2>2
<1>6. f = [n \in 0 .. N |-> StepTo(f, n)]
  BY <1>4, <1>5 DEF Iterates
<1>7. at = [n \in 0 .. N |-> StepTo(at, n)]
  BY <1>6
<1>8. find_inode_by_path(inodes, 0, way) = at[N]
  BY DEF find_inode_by_path
<1> HIDE DEF at
<1>9. at[0] = 0 /\ \A n \in 1 .. N : at[n] = ChildNamed(inodes, at[n - 1], way[n])
  <2>1. at[0] = 0
    BY <1>1, <1>7
  <2>2. ASSUME NEW n \in 1 .. N PROVE at[n] = ChildNamed(inodes, at[n - 1], way[n])
    <3>1. n \in 0 .. N /\ n # 0
      BY <1>1
    <3> HIDE DEF N
    <3> QED BY <1>7, <3>1
  <2> QED BY <2>1, <2>2
<1> QED BY <1>8, <1>9

(* What path lookup finds at each name of a path. *)
Hides(way, n) == \E k \in 1 .. n : HostAt(way, k) # NULL /\ Full(HostAt(way, k))

Finds(R, way, i, n) ==
  /\ HostAt(way, n) # NULL => \A k \in 0 .. n : HostAt(way, k) # NULL
  /\ HostAt(way, n) = NULL \/ Hides(way, n) => i = NULL
  /\ HostAt(way, n) # NULL /\ ~Hides(way, n) => i \in DOMAIN inodes /\ R[i] = HostAt(way, n)
  /\ n > 0 /\ HostAt(way, n) # NULL => HostAt(way, n).name = way[n]

LEMMA HostChildName ==
  ASSUME NEW node \in HostEntries, node.kind = "dir", NEW name, HostChild(node, name) # NULL
  PROVE  HostChild(node, name).name = name
<1> DEFINE named == {k \in DOMAIN node.entries : /\ node.entries[k].name = name
                                                /\ node.entries[k].kind # "symlink"}
<1>1. named # {} /\ HostChild(node, name) = node.entries[CHOOSE k \in named : TRUE]
  BY HostAssumption DEF HostChild
<1>2. (CHOOSE k \in named : TRUE) \in named
  BY <1>1
<1> QED BY <1>1, <1>2

LEMMA ChildOfNULL == \A name : HostChild(NULL, name) = NULL /\ ChildNamed(inodes, NULL, name) = NULL
  BY DEF HostChild, ChildNamed

LEMMA LooksUp ==
  ASSUME NEW R, NEW K, Agrees(R, K), NamesFit, 0 \in DOMAIN inodes,
         NEW way \in Seq(Seq(STRING)), \A n \in 1 .. Len(way) : Plain(way[n])
  PROVE  /\ Finds(R, way, find_inode_by_path(inodes, 0, way), Len(way))
         /\ \A n \in 1 .. Len(way) : HostAt(way, n) # NULL => HostAt(way, n).name = way[n]
<1> DEFINE N == Len(way)
           H(n) == HostAt(way, n)
<1>1. PICK at : /\ at[0] = 0 /\ find_inode_by_path(inodes, 0, way) = at[N]
                /\ \A n \in 1 .. N : at[n] = ChildNamed(inodes, at[n - 1], way[n])
  BY ImageWay
<1>2. host \in HostEntries /\ R[0] = host /\ NULL \notin HostEntries
  BY HostAssumption DEF Agrees
<1>3. /\ H(0) = host /\ N \in Nat
      /\ \A n \in 0 .. N : H(n) \in HostEntries \cup {NULL}
      /\ \A n \in 1 .. N : H(n) = HostChild(H(n - 1), way[n])
  BY <1>2, HostWay
<1> HIDE DEF H, N
<1> DEFINE T == {n \in Nat : n <= N => Finds(R, way, at[n], n)}
<1>4. 0 \in T
  BY <1>1, <1>2, <1>3 DEF Finds, Hides, H
<1>5. ASSUME NEW n \in Nat, n \in T PROVE n + 1 \in T
  <2> SUFFICES ASSUME n + 1 <= N PROVE Finds(R, way, at[n + 1], n + 1)
    OBVIOUS
  <2> DEFINE m == n + 1
  <2>1. /\ m \in 1 .. N /\ m - 1 = n /\ m > 0 /\ n \in 0 .. N
        /\ 1 .. m = (1 .. n) \cup {m} /\ 0 .. m = (0 .. n) \cup {m}
        /\ Finds(R, way, at[n], n)
    BY <1>3, <1>5
  <2> HIDE DEF m
  <2>2. at[m] = ChildNamed(inodes, at[n], way[m]) /\ H(m) = HostChild(H(n), way[m])
    BY <1>1, <1>3, <2>1
  <2>3. Hides(way, m) <=> Hides(way, n) \/ (H(m) # NULL /\ Full(H(m)))
    BY <2>1 DEF Hides, H
  <2>4. CASE H(n) = NULL
    <3>1. H(m) = NULL /\ at[n] = NULL /\ at[m] = NULL
      BY <2>1, <2>2, <2>4, ChildOfNULL DEF Finds, H
    <3> QED BY <3>1 DEF Finds, H, m
  <2>5. CASE H(n) # NULL /\ Hides(way, n)
    <3>1. at[n] = NULL /\ at[m] = NULL /\ Hides(way, m)
      BY <2>1, <2>2, <2>3, <2>5, ChildOfNULL DEF Finds, H
    <3>2. \A k \in 0 .. n : H(k) # NULL
      BY <2>1, <2>5 DEF Finds, H
    <3>3. H(m) # NULL => H(m).name = way[m]
      <4> SUFFICES ASSUME H(m) # NULL PROVE H(m).name = way[m]
        OBVIOUS
      <4>1. H(n) \in HostEntries /\ H(n).kind = "dir"
        BY <1>3, <2>1, <2>2, <2>5 DEF HostChild
      <4> QED BY <2>2, <4>1, HostChildName
    <3> QED BY <2>1, <3>1, <3>2, <3>3 DEF Finds, H, m
  <2>6. CASE H(n) # NULL /\ ~Hides(way, n)
    <3>1. at[n] \in DOMAIN inodes /\ R[at[n]] = H(n)
      BY <2>1, <2>6 DEF Finds, H
    <3>2. \A k \in 0 .. n : H(k) # NULL
      BY <2>1, <2>6 DEF Finds, H
    <3>3. Plain(way[m])
      BY <2>1 DEF N
    <3>4. H(m) = HostChild(R[at[n]], way[m])
      BY <2>2, <3>1
    <3>5. /\ H(m) # NULL => H(m) \in HostEntries /\ H(m).name = way[m]
          /\ H(m) = NULL \/ Full(H(m)) => at[m] = NULL
          /\ H(m) # NULL /\ ~Full(H(m)) => at[m] \in DOMAIN inodes /\ R[at[m]] = H(m)
      BY <2>2, <3>1, <3>3, <3>4, ChildIs
    <3>6. Finds(R, way, at[m], m)
      BY <2>1, <2>3, <2>6, <3>2, <3>5 DEF Finds, H
    <3> QED BY <3>6 DEF m
  <2> QED BY <2>4, <2>5, <2>6
<1>6. Nat \subseteq T
  <2> HIDE DEF T
  <2> QED BY <1>4, <1>5, Induction
<1>7. \A n \in 0 .. N : Finds(R, way, at[n], n)
  BY <1>3, <1>6
<1>8. Finds(R, way, find_inode_by_path(inodes, 0, way), N)
  BY <1>1, <1>3, <1>7
<1>9. \A n \in 1 .. N : H(n) # NULL => H(n).name = way[n]
  BY <1>3, <1>7 DEF Finds, H
<1> QED BY <1>8, <1>9 DEF N, H
LEMMA StoredHolds ==
  ASSUME NEW R, NEW K, Agrees(R, K), NEW inode, NEW file, Stored(data, K, inode, file)
  PROVE  Holds(inode, file)
<1>1. K \in Nat /\ DNODE_BITMAP = 0 .. K - 1
  BY DEF Agrees
<1>2. Cardinality(0 .. K - 1) = K
  BY <1>1, FS_Interval
<1> QED BY <1>1, <1>2 DEF Stored, Holds

(* An inode reads back what it was made from. *)
ReadsAs(i, node, names) ==
  /\ i # NULL /\ inodes[i].name = node.name
  /\ inodes[i].is_directory = (node.kind = "dir")
  /\ IF node.kind = "file"
       THEN inodes[i].size = node.size /\ Holds(inodes[i], node)
       ELSE LET copied == Copied(node.entries, Len(node.entries))
            IN  names = [n \in DOMAIN copied |-> copied[n].name]

LEMMA InodeReads ==
  ASSUME NEW R, NEW K, Agrees(R, K), NamesFit, NEW way, NEW i \in DOMAIN inodes,
         i = find_inode_by_path(inodes, 0, way)
  PROVE  ReadsAs(i, R[i], lab3_readdir(inodes, 0, way))
<1> DEFINE e == R[i]
           D == DOMAIN inodes
           q == Copied(e.entries, Len(e.entries))
           ids == inodes[i].children
<1>1. /\ \A b \in D : MadeOf(R, D, data, K, inodes[b], R[b])
      /\ D \subseteq Nat /\ NULL \notin Nat
  BY HostAssumption DEF Agrees, Made, NamesFit
<1>2. MadeOf(R, D, data, K, inodes[i], e) /\ i # NULL
  BY <1>1
<1>3. inodes[i].name = e.name /\ inodes[i].is_directory = (e.kind = "dir")
  BY <1>2, MadeIs
<1>4. CASE e.kind = "file"
  <2>1. inodes[i].size = e.size /\ Stored(data, K, inodes[i], e)
    BY <1>2, <1>4 DEF MadeOf
  <2>2. Holds(inodes[i], e)
    BY <2>1, StoredHolds
  <2> QED BY <1>2, <1>3, <1>4, <2>1, <2>2 DEF ReadsAs
<1>5. CASE e.kind # "file"
  <2>1. e.kind = "dir" /\ inodes[i].is_directory /\ ListsOf(R, D, ids, e.entries, Len(e.entries))
    BY <1>2, <1>5 DEF MadeOf
  <2>2. /\ ids \in Seq(D) /\ Len(ids) = Len(q) /\ DOMAIN ids = 1 .. Len(ids)
        /\ \A k \in 1 .. Len(ids) : ids[k] \in D /\ R[ids[k]] = q[k]
    BY <2>1 DEF ListsOf
  <2>3. e \in HostEntries
    BY DEF Agrees
  <2>4. DOMAIN q = 1 .. Len(q)
    <3>1. e.entries \in Seq(HostEntries) /\ Len(e.entries) \in 0 .. Len(e.entries)
      BY <2>1, <2>3, Entries
    <3>2. q \in Seq(HostEntries)
      BY <3>1, CopiedSteps
    <3> HIDE DEF q
    <3> QED BY <3>2
  <2>5. lab3_readdir(inodes, 0, way) = [k \in DOMAIN ids |-> NameField(inodes[ids[k]].name)]
    BY <1>2, <2>1 DEF lab3_readdir
  <2> HIDE DEF q, ids, e, D
  <2>6. ASSUME NEW k \in 1 .. Len(ids) PROVE NameField(inodes[ids[k]].name) = q[k].name
    <3>1. MadeOf(R, D, data, K, inodes[ids[k]], q[k]) /\ Len(inodes[ids[k]].name) <= MAX_NAME_SIZE
      BY <1>1, <2>2 DEF D, NamesFit
    <3> QED BY <3>1, MadeIs DEF NameField
  <2>7. lab3_readdir(inodes, 0, way) = [k \in DOMAIN q |-> q[k].name]
    BY <2>2, <2>4, <2>5, <2>6
  <2> QED BY <1>2, <1>3, <1>5, <2>7 DEF ReadsAs, q, e
<1> QED BY <1>4, <1>5

LEMMA AgreesReadsBack ==
  ASSUME NEW R, NEW K, Agrees(R, K)
  PROVE  ImageReadsBack
<1> SUFFICES ASSUME result = "done", NamesFit, NEW way \in HostPaths
             PROVE  LET node == HostAt(way, Len(way))
                        i == find_inode_by_path(inodes, 0, way)
                        hidden == node # NULL /\ \E n \in 1 .. Len(way) : FullDirectory(way, n)
                    IN  IF node = NULL \/ hidden THEN i = NULL
                        ELSE ReadsAs(i, node, lab3_readdir(inodes, 0, way))
  BY DEF ImageReadsBack, ReadsBack, ReadsAs
<1> DEFINE N == Len(way)
           node == HostAt(way, N)
           i == find_inode_by_path(inodes, 0, way)
           hidden == node # NULL /\ \E n \in 1 .. N : FullDirectory(way, n)
<1>1. way \in Seq(Seq(STRING)) /\ N \in Nat /\ \A n \in 1 .. N : Plain(way[n])
  BY HostAssumption DEF Plain
<1>2. 0 \in DOMAIN inodes
  BY DEF Agrees
<1>3. /\ Finds(R, way, i, N)
      /\ \A n \in 1 .. N : HostAt(way, n) # NULL => HostAt(way, n).name = way[n]
  BY <1>1, <1>2, LooksUp
<1> HIDE DEF i, N
<1>4. CASE node = NULL
  BY <1>3, <1>4 DEF Finds, i, N
<1>5. CASE node # NULL
  <2>1. \A n \in 1 .. N : HostAt(way, n) # NULL
    BY <1>1, <1>3, <1>5, SMTT(30) DEF Finds
  <2>2. \A n \in 1 .. N : FullDirectory(way, n) <=> Full(HostAt(way, n))
    BY <1>3, <2>1 DEF FullDirectory, Full
  <2>3. hidden <=> Hides(way, N)
    BY <1>5, <2>1, <2>2 DEF Hides
  <2>4. CASE hidden
    BY <1>3, <2>3, <2>4 DEF Finds, i, N
  <2>5. CASE ~hidden
    <3>1. i \in DOMAIN inodes /\ R[i] = node
      BY <1>3, <1>5, <2>3, <2>5 DEF Finds
    <3>2. ReadsAs(i, node, lab3_readdir(inodes, 0, way))
      BY <3>1, InodeReads DEF i
    <3> QED BY <1>5, <2>5, <3>2 DEF i, N
  <2> QED BY <2>4, <2>5
<1> QED BY <1>4, <1>5

(* An image that was made without an error reads back, whatever the directory  *)
(* it was made from, when its names fit in their field (generate_test_fs.py,   *)
(* fs_util.c:9-58, readdir.c): every file and directory but the directories    *)
(* with a full name.                                                           *)
THEOREM ImageIsRead == ImageSpec => []ImageReadsBack
<1>1. ImageIInv => ImageReadsBack
  BY AgreesReadsBack DEF ImageIInv
<1> QED BY <1>1, ImageInvariance, PTL
=============================================================================
