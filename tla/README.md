# A verification project for the operating system labs (CS-323)

The repository holds five labs. Its core is a user-level threading library,
written twice: lab 1 for one system thread, lab 2 for several, with locks and
channels on top. The rest is two heap allocators (lab 1), a small file system of its own
that is only read, with the program that makes its image (lab 3), exercises with
processes and threads (lab 0), and a shell and a fuzzing harness (lab 4). We model
what is under each `done/`, the solution; `provided/` and `handout/` are the same
files with their bodies removed.

The project is written in TLA+: modules that translate the code, TLC
configurations that check them on small instances, and proofs that the TLA+
proof system checks for every value of the constants.

## 1. Inventory

### Lab 2: threads on several system threads (`src/os21-lab2/done`)

| part | files | state | operations |
| --- | --- | --- | --- |
| scheduler | `schedule.c`, `scheduler_state.c`, `utils.c`, `priority.c` | the lists RUNNABLE, JOINING, ZOMBIE and `exists`, each under a pthread mutex; per green thread `state`, `yield_target`, `joined_target`, `to_release`/`lock_type`, `retval`, `errno`; per system thread `current` | `schedule`, `handle_non_runnable`, `unblock_thread`, `yield`, `cond_wait`, `tsafe_unblock_thread` |
| idle system threads | `sys_thread.c`, `futex.c`, end of `schedule` | the futex words `_start` and `sleep_count` | `init_sys_and_launch`, `sys_thread_start`, `sys_thread_sleep`, `sys_thread_wakeup` |
| threads | `thread.c` (object file and header only), `thread.h` | `thread_info_t` | create, join, yield, exit |
| policy | `sched_policy.c` (object file only) | `RUNNABLE` | round robin |
| spinlock, mutex | `spinlock.c`, `mutex.c` | `lock`, `owner`, `blocked` | lock, unlock |
| channel | `channel.c` | a mutex, `blocked_send`, `blocked_recv`, each thread's `channel_buffer` | send, receive |
| thread lists | `thread_list.c` | doubly linked nodes, `size` | add, pop, remove, find, rotate |
| list server | `linked_list.c`, `main.c` | a singly linked list, a mutex, two channels | insert (at the head), delete and find (the first match), `execute_commands`, `send_commands`, `try_list` |

How they interact. A green thread runs on the stack of its own, on some system
thread; `yield`, `cond_wait` and the end of its function switch to the stack of
`schedule()` of that system thread. What the thread wants there is left in its
`thread_info_t`, which `schedule()` reads (84-112). A mutex and a channel block a
thread with `cond_wait` *before* the lock that protects them is released: the
lock is released by `schedule()`, off the thread's stack (114-131), so that no
one can wake the thread, and run it elsewhere, while its stack is in use. For a
channel that lock is a mutex, so the scheduler itself executes `mutex_unlock` in
the name of a thread that is not running. The list server is a client of all of
it: every server thread takes the list's lock, receives a pointer to a command that
lives in the sender's frame, executes it, and sends the answer before it unlocks
(`try_list`, whose call in `main.c:197` is commented out). System threads communicate through the
lists and through two futex words.

What is hard here: interleavings of system threads within one call; what is
still true of a thread after its lock is released; the two decisions of
`handle_non_runnable` (has my target exited? is anybody joining me?) racing each
other; four list mutexes, taken in different subsets, some while others are held;
a thread that waits on a channel with a lock taken; pointers into a frame that may be
gone; wake-ups between the test of a futex word and the sleep on it; the end of
the program, decided from two words read at different times.

What makes it correct: a thread is in one place (one list, or in the hands of
one system thread); mutual exclusion, first-in first-out hand-over and no lost
wake-up of the mutex; paired, ordered, complete delivery of the channel; a
return value collected once and no joiner left behind; no deadlock among the
system threads; answers in the order of the commands; the program ends when,
and only when, nothing is left to run.

### Lab 1: threads on one system thread, allocators (`src/os21-lab1/done`)

| part | files | state | operations |
| --- | --- | --- | --- |
| threads | `thread.c`, `schedule.c`, `stack.c` | the lists RUNNABLE, BLOCKED, ZOMBIE and `current`; per thread `state`, `yield_target`, `joined_target`, `joined`, `retval` | create, join, yield, exit, `schedule`, `handle_non_runnable`, `unblock_thread` |
| policies | `sched_policy.c`, `priority.c`, `l1_time.c` | RUNNABLE, `sched_ticks`; per thread cycles, priority and `got_scheduled` | round robin, fewest cycles, multi-level feedback queue |
| allocators | `malloc.c` | a heap of chunks, or the metadata list of a heap of blocks, and a free list | `l1_chunk_malloc`/`free`, `l1_list_malloc`/`free` |
| thread lists | `thread_list.c` | doubly linked nodes | add, remove, find, pop |

No preemption and no parallelism: what is hard is long sequences of legal calls
(join cycles, yield to a thread that is gone, several joiners of one thread,
fragmentation of the heap, priorities that drift) and list surgery while a list is
traversed.

### Lab 3: file system (`src/os21-lab3/done`)

| part | files | state | operations |
| --- | --- | --- | --- |
| open files | `open.c`, `close.c`, `seek.c`, `read.c` | the table of open files: inode and offset | open, close, seek, read |
| inodes, directories | `fs_util.c`, `readdir.c` | read only | path lookup, the list of a directory |
| block device | `blk_io.c`, `fs_util.c` | `the_disk` | open and close the image, read a block or a part of it |
| image generator | `generate_test_fs.py` | two bitmaps, the image | write a directory of the host, inode by inode and block by block |
| tools | `lab3_cat.c`, `lab3_ls.c`, `test_fs.c` | none | the read loop; printing; a test program |

What is hard: boundaries (a read that starts inside a block, the end of the file,
the end of the blocks of an inode, a full table, a full disk, a name that fills its
field or is longer in bytes than in characters), an image written by one program and read by
another in another language, and
callers that expect of a read what it does not do.

### Lab 0 (`src/os21-lab0/done`) and lab 4 (`src/os21-lab4/done`)

| part | files | state | operations |
| --- | --- | --- | --- |
| processes and threads | lab 0's `week02.c` | the processes and threads of the kernel | `w2_bork` forks in a row, `w2_fork` and `w2_clone` along a tree |
| strings, bits, lists | lab 0's `week01.c` | none between calls | pure functions |
| borsh, a shell | lab 4's `01-sanitization/borsh.c` | the history of commands, a list of variables | read a line, expand its variables, assign, list, run |
| fuzzing harness | lab 4's `02-fuzzing` | none | calls libpng on its input |

What is hard in lab 0: which process is where, and in which order, when a fork may
fail and threads run beside it. In the shell: the order of events over many lines (an
expansion uses the variables of earlier lines and goes to the history as expanded), and
a buffer in which a line grows while its variables are expanded.

## 2. Modules

| module | models | extends or instances |
| --- | --- | --- |
| `Schedule` | `schedule()`, `yield`, `cond_wait`, `tsafe_unblock_thread`: the actions every program on the scheduler is made of | |
| `Mutex` | `spinlock.c`, `mutex.c` | `Schedule` |
| `FifoLock` | abstract: what the mutex promises | |
| `TestGlobalMutex` | `main.c:57-80`: threads that lock, yield inside, unlock | `Mutex`, `FifoLock` |
| `SyncChannel` | abstract: what a channel promises | |
| `Channel` | `channel.c` and the senders and receivers of `main.c` | `Mutex`, `SyncChannel` |
| `CommandList` | the list server: `linked_list.c`, `send_commands` and `try_list` | `FifoLock`, two of `SyncChannel` |
| `Join` | create, yield to a target, join, exit and reaping | `Schedule` |
| `SysSleep` | `sys_thread.c`, the idle part of `schedule()`, `init_sys_and_launch` | |
| `ServerAndSleep` | `CommandList` and `SysSleep`, which share no state, side by side for one run | `CommandList`, `SysSleep` |
| `LockOrder` | `scheduler_state.c`: the pthread mutexes of the lists, one at a time | `Null` |
| `ThreadList` | `thread_list.c`: the doubly linked lists, pointer by pointer | |
| `Threads` | lab 1's `thread.c` and `schedule.c` | `ThreadList` |
| `Policies` | lab 1's `sched_policy.c`, `priority.c` and the part of `schedule()` around them | |
| `Heap` | the client of an allocator, its size and error variable | |
| `ChunkMalloc`, `ListMalloc` | the two allocators of `malloc.c` | `Heap` |
| `Malloc` | `l1_init`, `l1_malloc`, `l1_free` set to one of them | `ChunkMalloc`, `ListMalloc` |
| `Inodes` | path lookup and the list of a directory | `Null` |
| `FileSystem` | the image opened and closed; open, close, seek, read, down to the block | `Inodes` |
| `Cat` | `lab3_cat`, call by call | `FileSystem` |
| `Image` | `generate_test_fs.py`, and what path lookup finds in its image | `Inodes` |
| `ForkTree` | `week02.c` of lab 0 | |
| `Shell` | borsh, with its three patches | |
| `Parts` | eight parts that share no state, side by side for one run | `Malloc`, `Policies`, `Image`, `Cat`, `Shell`, `ForkTree`, `LockOrder` |
| `Null` | the constant NULL that several of them share | |
| `ScheduleProofs` | the scheduler's inductive invariant, one lemma per action | `Schedule` |
| `MutexProofs` | the mutex excludes, no wake-up is lost, it implements `FifoLock` | `TestGlobalMutex`, `ScheduleProofs` |
| `ChannelProofs` | the channel's exclusion and assertions, it implements `SyncChannel` | `Channel`, `ScheduleProofs` |
| `JoinProofs` | the lists agree with the states, a return value is handed out once, no joiner is stranded | `Join`, `ScheduleProofs`, `NumberTheorems` |
| `OrderProofs` | what is about an order: no frame is used after its function returned, and the answers are right and in order; one process of lab 0 runs at a time, and in the order of its tree; the policies are fair; the shell remembers | `CommandList`, `ForkTree`, `Policies`, `Shell`, `NumberTheorems` |
| `ThreadsProofs` | lab 1: the lists are well linked and match the states, no check ends the program, joins are answered as promised; lab 2: `sleep_count` is exact, no system thread ends early | `Threads`, `SysSleep`, `NumberTheorems` |
| `PartsProofs` | no deadlock and no list used by two; no file is open twice, `lab3_open` fails for a reason, what a read delivers and what `lab3_cat` prints; a file written into an image reads back; the bookkeeping of the allocators | `Malloc`, `LockOrder`, `Cat`, `Image`, `NumberTheorems` |
| `NumberTheorems` | lemmas about data: induction and recursion over numbers, quotients and rests | |

`MCx.tla` and `MCx.cfg` give module `x` its constants for TLC; a cfg with a longer name
(`MCCatEnd.cfg`) is for a run that ends with a violation. `MCParts` takes the instances of its parts from
`MCFileSystem`, `MCImage` and `MCShell`, which with `MCCat` and `MCSysSleep` also serve such runs. Operators whose
comment says *Mutant* are plausible bugs of the operator that follows them, used
to show that the properties can be violated; no specification uses them.

### State and atomicity

*Schedule.* A system thread alternates between a green thread's stack (`spc` is
`"green"`) and `schedule()`, cut into the four parts between which the code
touches shared state: *enter* (84-112), *release* (114-138), *select* (140-155)
and *park* (157-221). Each access to RUNNABLE is a critical section of its
pthread mutex and therefore one step; the rest of a part touches the local
variables and the thread that the system thread holds. `current[s]` is
`scheduler->current`, which in the release part still names a thread that may
run elsewhere; `cur` and `next` are the locals `current` and `next`. The policy
is round robin, the one `initialize` installs. `schedule.c:148-151` (a policy that
returns a thread not RUNNABLE) is unreachable under it.

The main thread of lab 2's `main.c` creates the others and joins them; the
modules `TestGlobalMutex` and `Channel` start with these threads already
RUNNABLE (`Created`), and leave out the main thread, which stays in JOINING.

*Mutex.* `mpc[c]` is the place of context `c` in `mutex_lock` or `mutex_unlock`.
A context is a green thread, or a system thread that executes `mutex_unlock` for
a blocked thread. A step is one compare-and-swap, or the lines between two of
them that run under the spinlock; `LockTry` is two alternatives since the
compare-and-swap of `owner` may fail. A failed compare-and-swap of a spin loop
changes nothing and is no step.

*Channel.* `pc` is the place in `channel_send`/`channel_receive`; a call of
`mutex_lock` sets `mpc`, and the operation goes on when `mpc` is `"idle"` again.

*Join.* `schedule()` again, with the parts `Schedule` has no use for: a target of
`yield`, a joiner and an exiting thread in `handle_non_runnable`, and the reaping
of dead threads. `handle_non_runnable` holds all list locks
(`lock_zombie_joining`, `lock_all_lists`), hence is one step. `got` is a history
variable that counts who received whose return value.

*CommandList.* The lock and the two channels are `FifoLock` and `SyncChannel`,
which `mutex` and `channel` show the code to implement: `Take`, `Wait` and `Enter`
are a call of `mutex_lock` up to its return, `SendPair` or `SendWait` and `SendReturn`
one of `channel_send`. Everything between two calls belongs to one step, for the
server holds the lock. A command is sent as a pointer into the frame of
`send_commands`; once that has returned, what the pointer leads to may be any command
or none (`Pointee`). The names of the program counter are the calls of the code, and
`MainOrder`, `SenderOrder` and `ServerOrder` give their order.

*LockOrder.* A step takes or releases one pthread mutex; `place` is where a system
thread is in `scheduler_state.c` or its caller. What a list holds is left open, so that
every outcome of a search is possible. `Join` treats a section with all mutexes taken as
one step; `ListsLocked` is why it may.

*SysSleep.* Green threads are counted and not named: only how many are RUNNABLE
matters to an idle system thread. Every read of `sleep_count`, every atomic
addition and every futex call is a step; a futex wait may return spuriously.

*Threads, ThreadList.* Lab 1 runs on one system thread, so an action is a call of
the running thread up to its switch, or one round of the loop of `schedule()`. What
a round changes is a record `m`, which the helpers of `schedule()` map in the order of
the code; the lists in it are `next` and `prev` pointers, shared by all lists as in the
code, so that a traversal that goes on from a moved thread, or a removal from the
wrong list, does here what it does in C. A failed check (`exit(-1)`) sets `m.exit`.
`served` and `got` are history: how many joins of a thread have returned, and how many
with its value. `select_next` may return any RUNNABLE thread.

*Policies.* A step is a slice of the running thread up to the switch to the next, and a
slice takes one of `Durations`. `runnable` is RUNNABLE with the running thread at its
head, as `schedule()` leaves it; the constants of `priority.h` are scaled down. A thread
that ends is not seen again; `PolicyExit` chooses which of the waiting threads were its
joiners. `since`, `idle`, `steady` and `overtaken` are history: who ran while a thread
waited, for how long, which threads were always RUNNABLE, and whether the last selection
passed over a thread.

*Heap, ChunkMalloc, ListMalloc, Malloc.* An action is a call. `live` is what the
client holds, by address. A chunk has a descriptor, which is not initialised and may be
0, 1 or another byte (`unset` remembers which were never written), and perhaps a
header. The list heap has a header per region and, in the first word of its data, the
link of the free list or whatever the client wrote. The client may write its data at
any time, and frees once what it was given, or an address with no header before it.
The magic values are random: the client does not write them by chance.

*Inodes, FileSystem, Cat.* An action is a call; `last` is the last call with its
result. An inode is named by its id, since its place on the disk is a function of it. A
byte is its address on the disk, so that a buffer shows where each of its bytes comes
from. A read of the disk in `lab3_read` may fail, and what lies behind the inode in memory
may be any of `WildOffsets`, or end the program (`aborted`), as does a call without an
image. In path lookup the disk does not fail. Sizes near 2^32 are left out. `Cat` is the
sequence of these calls that `lab3_cat` makes; the others can call in any order. `faulty` is
history: whether the disk has failed in one of its reads.

*Image.* A step of the generator is one entry of a directory of the host: a file with
its data, the beginning or the end of a directory, a link that is skipped, or an entry
that ends the program. `calls` is the stack of `write_tree`. A name is the sequence of its
bytes in UTF-8, because two properties are about its length: the generator counts characters
(`Characters`, all bytes but those of `CONTINUATION`), and what it writes has the bytes. `NameOf`
is what the functions on strings of the reader find where a name fills its field; `Written` is
the inode that it finds where a name is longer than the field: the flag is one of the name's
bytes, so that nothing is found in the inode, and what its size and children are read as is
left out. Nobody looks a path up before the image is done. A name that is not UTF-8 ends the
generator with an exception, and is left out (`HostAssumption`).

*Shell.* A step is one line, from the prompt to the end of the command. A token comes with its
length in characters; a value is made of tokens. `cmd_size` is the size that getline keeps of its
buffer, `room` what is allocated, which PATCH_2 may enlarge without telling getline
(`borsh.c:263-265`): `Replaced` is one expansion in place with this test, and `fits` says
whether all that it moved is in the buffer. A line that does not fit ends the program
(`Overflows`), as the sanitizer with which the Makefile builds it does; without the sanitizer
nothing is promised from there on. `BadAssignment` stands for an assignment whose name or value
is missing or too long. Commands that only print change nothing and are one case.

*ForkTree.* A step is a call of the kernel (fork, wait, thread creation or join, exit) or
of `verify`; processes run in any order. A node is its index in the array.

*Parts, ServerAndSleep.* These parts have nothing in common. `part` says which one moves, and the
others stay in one of their initial states; a run of `Parts` or `ServerAndSleep` is a run of
each of them.

## 3. Runs

| run | instance | what it shows |
| --- | --- | --- |
| `mutex` | 4 threads, 2 system threads | mutual exclusion, no lost wake-up, the spinlock is released exactly once on each path, the mutex implements `FifoLock`; a queued thread gets the mutex |
| `channel` | 2 senders, 2 receivers, 2 system threads, 2 values each | the channel implements `SyncChannel`; one thread at a time works on it, also when the scheduler unlocks for a blocked thread; all threads finish |
| `join` | 3 threads, one created later, 2 system threads, 2 calls each | lists match states, a return value is collected once, no joiner is stranded, each join returns what it should; joiners of a thread that exits are unblocked |
| `join_leak` | 1 call each | violated: a thread joined after its exit is never freed |
| `sys_sleep_end` | 3 system threads, 1 wake-up | violated: a system thread may sleep for ever after the last wake-up |
| `threads` | 4 threads, 6 calls | lab 1: the linked lists stay well formed and agree with the states, no check ends the program, each join returns what it should, a joiner is stranded only after two others were served |
| `threads_stranded` | the same | violated: a third joiner is never unblocked |
| `server_and_sleep` | 3 commands and servers, 2 keys, 2 values; 3 system threads, 2 wake-ups | the list server: answers arrive in the order of the commands and are those of a list used by one (`AnswersInOrder`); no command but the last is read from a frame that is gone (`FramesAlive`); all threads return (`ServerEnds`). The idle system threads: `sleep_count` is exact (`SleepCountExact`), nobody ends while there is work (`NoEarlyEnd`), every start is seen (`SleepersStart`), after the decision nobody polls for ever (`AllEndOrSleep`) |
| `parts` | see the bounds | the heaps: bookkeeping is exact, a request is refused only when there is no room (`HeapAccounted`, `RefusedOnlyWhenFull`); the policies are fair (`PoliciesFair`); open files (`OpenedOnce`, `OpenOutcome`, `FirstBlockRead`); how much `lab3_cat` prints, and that it returns 0 only after all of it (`CatOutcome`); an image of names that fit reads back (`ImageReadsBack`); the shell's history and variables (`ShellRemembers`); the order of processes, one at a time (`ForksInOrder`, which is `ForkOrder` and `OneProcessRuns`); no deadlock, no list used by two (`NoDeadlock`, `ListsLocked`) |
| `file_system_block` | 3 files, 2 slots, blocks of 4 bytes | violated: a read behind the first block delivers something else |
| `cat_end` | the same, a buffer of a block | violated: `lab3_cat` does not print a file to its end, and does not return 0 |
| `shell_buffer` | the lines of `parts` | violated: an expansion moves the rest of a line behind the buffer |

*Bounds.* Two system threads are enough for every race of `Schedule`, `Mutex` and
`Channel`: the steps of a call are interleaved with those of one other call, and
the proofs below do not bound them. Four green threads let one wait in RUNNABLE
and two queue behind the owner, so that order of hand-over matters. In `Channel`
two senders and two receivers with two values each let both queues hold two
threads, and a thread call again before its partner has returned. In `Join`,
`MaxCalls` bounds the calls of each thread: two let a thread create another and
join it, or join twice; three threads let two join one. In `SysSleep` three
system threads are the fewest for which `sleep_count` can return to an earlier
value, `MaxWakes` bounds the threads made RUNNABLE, and `IS_OVER` only has to be
larger than what the count can reach.

In `Threads`, four threads are the fewest that let three join one, and six calls
let the main thread create them all and everybody join; the identifiers are
symmetric but for the main thread. In `CommandList` three servers let one hold the
lock and two queue, and three commands let a key be inserted, deleted and read again.

In `Parts`: the *heap* has 24 bytes or six chunks of four; the sizes asked for are 0, one
byte, one more than a chunk, two chunks and a byte more than the free space beside a small
region can hold, and the whole heap and one byte more; regions in the middle are freed and
reused, and the free list is in any order. The *policies* have three threads, three
levels (`TOP_PRIORITY` 2), periods of two calls, slices of two units and a threshold of two,
so that a slice of one unit is not used up and one of two is; `MaxTotal` bounds the cycles
where no policy resets them. The *files* are three, of up to three blocks, the most an inode
has, in two slots, and are read across up to two boundaries; the block size (4) is larger than the
number of blocks of an inode (3), as in the code (4096 and 32), which is what makes the wrong
index leave the array. `lab3_cat` has a buffer of one block as in the code, and
`MaxPrinted` bounds the file that has no end. The *image* has ten blocks of four
bytes, of which two are for four inodes, so that directories of up to three entries
and a directory below them fill the inodes, the blocks and the disk; a name has up to
two bytes on the disk and three on the host, where they are three characters, two, or one.
A *shell* line has up to three words, some shorter than `MAX_CMD_LENGTH` (14) before the
expansion and longer after it, and one that is longer to begin with; getline starts with 12
characters (120 in glibc) and doubles them for that one, and expansions end before and behind the end
of the buffer, with and without its enlargement. The history holds two of the last three
commands. *Trees* have up to three levels, each node may run two threads, and
`w2_bork` is called with up to two. Three system threads take the list *mutexes* (two can wait in
a circle, a third shows who is in their way), and the proof needs no bound.

*Fairness.* In `TestGlobalMutex` and `Channel` each green thread that is on a
system thread, and each system thread, is weakly fair: both stand for a pthread,
which the kernel keeps running. No fairness is assumed of a spin loop (the
compare-and-swap may fail each time it is tried). In `Join` only `schedule()` is
fair: a green thread may compute for ever between two calls. In `SysSleep` the
steps of a system thread are fair, those of a running green thread that make
others RUNNABLE, and spurious wake-ups, are not. In `CommandList` the main thread, the
sender and each server are weakly fair: round robin runs every RUNNABLE thread in its turn, and
`channel` and `mutex` show that a thread that can be woken is. `ServerAndSleep` has the fairness
of the part that moves.

*Deadlock* is checked wherever the program ends by itself (`Terminated`). In `Join`
threads may join each other, or themselves, which the code does not detect, and
the runs stop when all calls are made. In `ServerAndSleep` the server ends when `try_list` has
returned (`Returned`), the system threads when all have left, and nothing stops
anywhere else. The parts of `Parts` end too (a shell, a tree
of processes, an image); among the mutexes, which could deadlock, the invariant `NoDeadlock`
takes the place of the check, and says more: not even a part of the threads may wait in a
circle while the others go on. `Threads`, `Parts` and `FileSystem` check safety only and
assume no fairness.

## 4. Findings

* `join_leak`: a thread that exits before it is joined waits in ZOMBIE. Its joiner
  removes it from the list (`schedule.c:246-251`) and `unblock_thread` marks it DEAD
  "to free it in schedule" (325), but `schedule()` frees only its own current
  thread (162-168), and only when `handle_non_runnable` returns it. Nobody frees the
  joined thread or removes it from `exists`, where a later join finds it.
* `sys_sleep_end`: `sys_thread_sleep` reads `sleep_count` (57) and sleeps while it has
  the value it expects (61). Between the two the count can go up and down again,
  and meanwhile the last thread may add `IS_OVER` and wake everybody. With three
  system threads or more, one can sleep after the only `FUTEX_WAKE`, and the
  program does not end.
* `threads_stranded`: when a thread that several others join has ended,
  `handle_non_runnable` traverses BLOCKED; it fails the second joiner by moving it to
  the tail of RUNNABLE, and goes on from its `next` pointer there (lab 1's
  `schedule.c:211`). A third joiner stays blocked. Two joiners are served as intended
  (`StrandedOnlyByOthers`). `thread.h:46` advises against several joiners.
* `file_system_block`: `lab3_read` takes the offset of a block for its index
  (`read.c:36-37`); only reads that start in the first block are right.
* `cat_end`: `lab3_read` refuses a request that passes the end of the file (`read.c:32`), though
  `fs_api.h:44-46` says that it reads less. `lab3_cat`, which always asks for a whole buffer,
  returns -1 without the end of the file, and is meant to print it and to return 0 (`lab3_cat.c:6-13`).
* `shell_buffer`: PATCH_2 enlarges the buffer when the value ends behind it (`borsh.c:263`), not
  when what is moved does: a line of some hundred characters with a variable near its start is
  moved beyond the 120 of getline.

Read off the code and not shown as violated by a run:

* Lab 2: the exiting thread hands its return value to its joiner and becomes DEAD under the list
  locks (`schedule.c:267-292`), and is unregistered later (164). A second joiner in between finds
  it in `exists` and not in ZOMBIE, and waits; then the thread is freed. A joiner before or after
  that returns at once, as `thread.h:36-43` says of a thread that has terminated or does not exist
  (40-41 advises against several joiners). `NoStrandedJoiner`, which holds, leaves this joiner out.
* Lab 1: the boost skips a thread whose `got_scheduled` is not 0 (`sched_policy.c:49`), and that is
  the tick of its last slice until a demotion resets it (`schedule.c:143`, `sched_policy.c:98`),
  whatever the comment at 78 says of threads that did not run. A thread that yields early and is
  passed over ever after starves. `WaitersBoosted`, which holds, is stated for the threads with
  `got_scheduled` at 0, demoted and new ones among them.
* Lab 1: `l1_chunk_init` does not clear the descriptors (`malloc.c:37`), so that the memory's former
  content decides which chunks are free, against `handout/readme.md:382-383`: a heap of which
  nobody holds a chunk may refuse a request. `RefusedOnlyWhenFull` takes a marked chunk for taken.
* Lab 3: the result of `read_from_disk` is ignored (`read.c:60`): `lab3_read` returns the size and
  moves the offset (against `fs_api.h:54-55`) with a stale piece in the buffer. `FirstBlockRead`,
  which holds, says only that what such a call delivers is not of another place.
* Lab 3: the generator compares the number of characters of a name with 32
  (`generate_test_fs.py:72`) and writes its bytes in UTF-8 (85), so that a name of fewer characters
  and more bytes moves the fields of its inode. It ends without an error, and the image does not read
  back. `ImageReadsBack`, which holds, is about the names that fit (`NamesFit`).
* Lab 1: `l1_list_malloc` returns NULL without ERRNOMEM (`malloc.c:256`, against
  `readme.md:360`); a thread that is joined after its exit is leaked there too
  (`schedule.c:250`, as in `join_leak`).
* Lab 2: `send_commands` returns once the last pointer is taken (`main.c:139-155`), while
  the server has yet to read the command it points to. The model lets the server find
  anything there, and `AnswersInOrder` and `FramesAlive` leave the last command out.
* Lab 3: `lab3_cat` prints a file of whole buffers again and again, as the offset starts over
  at its end (`read.c:67`; `CatOutcome` is about runs of `lab3_cat` that end).
* Lab 3: a directory whose name has exactly 32 bytes passes the generator
  (`generate_test_fs.py:72`) and is listed, but `fs_util.c:42` compares its name beyond the
  field and does not find it (the exception of `ImageReadsBack`); `readdir.c:39-40` copies
  such names without a terminator.
* Lab 3: the generator checks that the blocks of a file are free but not that they are
  on the disk (`generate_test_fs.py:138-153`); and `--inode-blocks` does not change the
  layout, which is computed with the default (18-25, 125, 207), though the message of a
  full table asks for more.
* Lab 4: an expansion that is too long is dropped with its command, but an unknown
  variable in a command is left as it is, against the comment at `borsh.c:199-200`.
* Lab 0: the child of `w2_bork` returns to the caller instead of exiting
  (`week02.c:36-38`, against `week02.h:18`).

## 5. Proofs

`ScheduleProofs`: `SchedInv`, the inductive invariant of the scheduler. It says,
beside the types, that the states of the threads agree with the place where they
are (`StatesMatch`), and that a thread is in one place (`OnePlace`). The second is not
inductive alone: a thread that is woken enters RUNNABLE, and only its state,
BLOCKED, says that no system thread holds it any more. One lemma per action shows
that the action preserves `SchedInv`, with the hypothesis its caller must provide
(`ParkInv` has none, `UnblockInv` asks that the thread is BLOCKED and that it is not in the hands of
a system thread). They hold for any program on the scheduler.

`MutexProofs`: `IInv` adds what `mutex.c` maintains: one context at a time is past the
spinlock and, if there is none, the spinlock is free or is about to be released by
`schedule()` (`OneHolder`); a queued thread is BLOCKED and not the owner (`Queued`);
the thread to be woken is BLOCKED, is the owner and is woken by one context
(`Handoff`); a thread that returns from `cond_wait` is the owner (`Granted`). From it
follow, for any number of threads and system threads, `TypeCorrect`,
`ThreadInOnePlace`, `MutexExcludes` and `SpinlockReleasedOnce`.

In the same module, `WInv` strengthens `IInv` by what a sleeping thread waits for. A thread
waits only for an owner and only behind the call of `mutex_lock` that it makes
(`Locking`); a thread inside the mutex owns it (`Owned`); a thread that is BLOCKED and not
in the queue is in the hands of one context that is about to wake it (`WakerExists`);
a lock type other than NONE is left behind only by a thread that is about to reach `schedule()`
(`LockTypes`). `NoWakeupLost` and `AssertionsHold` follow. `MutexIsFifo` is the refinement:
the initial state maps to one of `FifoLock`, a compare-and-swap that takes the free mutex
to `Take`, entering the queue to `Wait`, the return from the lock to `Enter`, the step of
unlock that gives the mutex away to `Leave`, and every other step changes nothing there.

`ChannelProofs`: here a thread blocks with the mutex held, and `schedule()`, on the stack of a
system thread, runs `mutex_unlock` for it. The invariant of `MutexProofs` is therefore
generalised. Whoever was granted the mutex owns it (`OwnerGranted`), and the granted threads
include those that sleep in a queue of the channel while some system thread has yet to give
their mutex away (`MutexDeferred`); there is one such system thread at most, and its thread
is still in the queue, because only the owner of the mutex pops (`Deferred`). A context
that gives the mutex away may be a system thread (`Handoff`, `SysUnlocks`). `ChanInv` adds the
queues (`ChanQueued`), the popped partner that is not yet woken (`Peers`) and whose
buffer holds a value (`Buffers`: a sender's exactly while it is queued, a receiver's exactly from the
time it is popped until it reads it). `ChannelExcludes` and `ChannelAsserts` follow.
`ChannelIsSynchronous` is the refinement: the step that pops a partner is a pair, the step that
queues is a wait, the step that leaves the operation is a return, and the steps of the
mutex, the spinlock, the scheduler and the wake-up of the partner change nothing there. The
lemmas `SendsAppend` and `SendsTail` say that the sequence of the sends that wait, which the
mapping reads off the queue and the buffers, moves as the queue does.

`JoinProofs`: `IInv` adds to `SchedInv` the life of a thread. Each list has exactly the threads
of its state that are in no hands (`Lists`); a thread exists while it has a `thread_info_t`
(`Registered`); a target of `yield` is left only by a thread on its way to `schedule()`
(`YieldTargets`); a return value was handed out only if its thread is DEAD or freed, to one
thread, once (`Collected`), and every DEAD thread's was (`DeadCollected`). With
`NoStrandedJoiner` this is inductive: an exiting thread enters ZOMBIE only when nobody in
JOINING has it for a target, and a joiner enters JOINING only when its target exists and is
not in ZOMBIE, so that the one that comes second sees the other. `ListsAgree`,
`OneCollector` and `NobodyStranded` follow, and `JoinTellsResult`, the action property: only
three actions end a join (`NoJoinEnds`), and each of the three sets `errno` as `JoinResult`
asks. The lemma `HandlesInv` treats what the branches of `handle_non_runnable` have in common.
`Only`, what `thread_list_remove` leaves of a list, is a recursive function: `OnlyExists` and
`OnlyFacts` say that it is defined and what it computes, by the lemma `Induction`, which is
stated with a set of numbers and proved from the least number outside it (`NumberTheorems`).

`ThreadsProofs`, lab 1: what the theorems about `Threads` rest on is that the three operations
of `thread_list.c` do to the pointers what their names say. `Linked` ties the pointers to one
sequence of threads per list: `head`, `tail`, `next` and `prev` are neighbours in it, no
thread is in two of them, and a thread in none has no links. `RemoveIs`, `AddIs` and
`PrependIs` show that the operations take a thread out of its sequence, put it behind or in front, and
keep all of `Linked`; `WalkIs` that `Walk`, the traversal of the code, meets the sequence. From
there on only the sets of members count (`Moved`, `BroughtToFront`). The helpers of `schedule()` follow
one by one: `UnblockFails` and `UnblockCollects` for `unblock_thread`, `EndsIs` for the traversal of BLOCKED,
which goes on from the next pointer of a thread it has just moved to the tail of RUNNABLE, where it is NULL: at most two
joiners are answered. The inductive invariant `SchedulerInv` adds to the lists and states (`Sound`)
what the joins need: whose value has been handed out (`Told`), and for whom a BLOCKED thread waits
(`Waits`). While the system thread has not yet seen to the thread that gave up the processor
(`Leaving`), that thread is still in RUNNABLE with the state it will have. `SchedulerLists`,
`SchedulerNeverExits` and `SchedulerStrands` follow, and, from what each helper does to a joiner
(`Outcome`), the action property `SchedulerJoins`.

`ThreadsProofs`, lab 2: `SleepInv` says that `sleep_count` counts the threads between the addition
and the subtraction of `sys_thread_sleep` (`Counting`, by the cardinality of that set as one thread
enters or leaves it), where the green threads are (`Accounting`), and who may decide that
the program is over (`Control`): while there is work, some system thread that is not
counted is about to see it, and the thread at line 199 found all others counted.
`SleepCountIsExact` and `NoEarlyEndEver` follow for any number of system threads.

`OrderProofs`, about `CommandList`: `FramesStayAlive`, for any number of commands. `IInv` says that a server
is between lock and unlock exactly when the lock is its (`Holding`), so that at most one
command waits and one server waits for it (`Waiting`), and that the command received last
is the one whose send has not returned, or the one before (`Latest`). A server that is
about to execute a command other than the last therefore finds the sender in its loop.

`AnswersArriveInOrder` is `AnswersInOrder`, for any number of commands, servers, keys and values.
Its data half is that the list implements a stack per key: `Stacked` says that the nodes
with a key, in their order, have the values of its stack. `InsertPushes`, `DeletePops` and
`FindTop` are the operations on the key, `InsertKeeps` and `DeleteKeeps` on the others, and
`CommandRefines` puts them together for one command. The other half, `AInv`, counts: how many
commands were received (`LastReceived`), `Executed`, how many answers were `Taken` and `Given`
to the main thread. At most one server has a command or owes an answer, the one with the
lock (`Alone`), so that each count is the one before it or one less; the list holds the
stacks after `Executed` commands, and the answer that is owed, on its way or collected is
the one of its number. `CommandGiven`, `ExecuteInv`, `AnswerTaken` and `CollectedInv` are the four
steps that move a count, `Quiet` all others.

`PartsProofs`, about `FileSystem`: `NoFileOpenTwice`, that `OpenedOnce` holds for every image and size of
the table. Its invariant adds only that the table is a table of records (`Table`); the
step that matters is `OpenKeeps`, where the slot that is found is free and the file is
in no other. `OpenFailsForAReason` is `OpenOutcome`: `StepHasOutcome` goes through the
actions, `OpenHasOutcome` through the cases of `lab3_open`, and `SlotIfFree` shows that a
table with a free slot has a last one.

`ReadsTheFile` is `FirstBlockRead`, type correctness with it, for every block size, file and
request. What `lab3_read` puts in the buffer is a recursive function, the states of its loop, and
so is the walk along a path. Three lemmas of `NumberTheorems` make them accessible: `LeastNumber`, from
the library's theorem on well-founded relations, `Induction` over a set of numbers, and `Recursion`,
that a first value and a step define a function. With them `TransferTurns` says that the loop has its
turns and `PathFound` that a lookup finds an inode of the image or none. `Progress` is
the loop's invariant: after n turns, n blocks are behind the read, or it is done;
`TurnDelivers` shows that a turn appends the bytes that belong there (`ByteOfBlock`: what the
quotient and the rest of a position are), `TurnsCover` that the turns cover the request
and `BlockIsNumber` that none of them leaves the array.

`PartsProofs`, about `LockOrder`: for any number of system threads, `SpecNoDeadlock` and
`SpecListsLocked`. The invariant `LockIInv` says which mutexes a thread holds at each place of
the code (`Held`). It gives the order ZOMBIE, JOINING, RUNNABLE, exists: at every place, the
mutex a thread is about to take comes after those it holds. The holder of `exists`
waits for nothing; the holder of RUNNABLE can only wait for `exists`, and so on down the
order (`LockIInvNoDeadlock`).

`OrderProofs`, about `ForkTree`: `ForksOrdered`, that `ForksInOrder` holds for every tree and
number of threads. Its half `OneProcessRuns` includes failing forks. A process waits for a child
that may itself wait for one, so that the claim is about a chain of processes; instead of by
induction along the chain it is shown by the order of creation: all processes that are not reaped
wait, but for the newest (`OthersWait`), and each is a child of the one created before it that
is left (`InChain`), so that what `wait` reaps is the newest. For the half `ForkOrder`, the process
that does not wait has seen as many calls of `verify` as there are nodes that fork before
its own (`Counts`). A child that exits is in another part of the tree than its parent goes on in;
the two agree because the child is on the right spine of its parent's left subtree
(`Spine`), below which nothing forks any more (`NothingUnder`): what comes before the right child is
what came before the node where the child stopped (`SpineEnds`). `Path`, a
recursive function, is shown to be defined (`PathsExist`, `PathIs`) and to tell the nodes apart
(`PathTells`); `NodeFacts` and `NodeAbove` are what the order of figure (B) says of the children
of a node and of what is under it.

`PartsProofs`, about `Cat`: `CatPrints`, that `CatOutcome` holds for every image, path and size
of the buffer: a `lab3_cat` that ends leaves nothing open, has printed no byte twice, all but less
than a buffer unless the disk failed, and returns 0 only after the whole file. That the code
never gets to this 0 is the run `cat_end`. Its invariant `CatIInv` contains `FirstBlockRead` for the types, says what is open
at each call (`CatPlaces`), and that the seek offset is a number of whole buffers
(`Printing`): it is what was printed, unless the file is made of whole buffers. In that case a
read ends exactly at the end and wraps to 0, so that none fails; in the other the read that
fails is the one that contains the end (`BufferAtEnd`).

`PartsProofs`, about `Malloc`: `HeapIsAccounted` and `RefusesOnlyWhenFull`, for every heap and any
requests. `MallocInv` has a half for each allocator, which keeps its own. For the chunks,
`HeapAccounted` is inductive with the types. The search, a recursive function, has its heads by
`Recursion` (`SearchHeads`); `SearchSteps` says that a round goes over no place where a run of
free chunks starts (`Passed`), and by induction `SearchFinds` that the place found has no taken chunk
behind it, or that no run is left: the one keeps the regions of two clients apart, the other is why
a refusal means that the heap is full. For the free list, following `next` from the head is not a
thing one can do induction on as the links change; `ListState` says instead that there is a sequence
of regions, each once, that is linked from the head to NULL and has exactly those the client
does not hold (`FreeChain`), and `FreeListIs` that following the links gives that sequence. `LinkReplaced`, `LinkRemoved`
and `LinkInFront` are what a split, an allocation without one and a free do to it; `TakeTiles`
shows that a split tiles the heap again, with aligned headers. The client's
writes fall on regions outside the sequence (`ListWrites`), and as capacities are aligned, a
free region that holds the size asked for also holds the aligned size (`ListRefuses`).

`OrderProofs`, about `Policies`: `PolicyShares`, that `PoliciesFair` holds under each of the
three policies, for any number of threads, levels and ticks and any lengths of slices.
`PolicyInv` has a part for each. RUNNABLE lists each thread once, and a thread that waits is
before every other one that waits and was scheduled meanwhile (`WaitsInOrder`). A yield puts
the running thread last (`TurnedLine`), a join or an exit takes it out and adds the joiners,
which nobody was scheduled before, at the end (`TailArranged`); so what `schedule()` hands to a policy is
`Arranged`, and the first thread of the list, or the first of the highest level
(`FirstInIs`), overtakes nobody. With fewest cycles, the running thread has the least of the threads
that always were RUNNABLE (`Fewest`), and a slice leaves it within that slice of the others
(`RanWithin`). With the feedback queue, a thread that waits with `got_scheduled` at 0 has
been idle for at most `SCHED_PERIOD` calls per level and those since the last tick 0
(`IdleBounded`): the boost at tick 0 pays for one period. The lemmas `RemovedLine` and
`JoinedLine` say what removing a thread from a list and putting one list behind another do to
the order.

`OrderProofs`, about `Shell`: `ShellKeeps`, that `ShellRemembers` holds for any lines and bounds and
sessions of any length. The property counts in the history of the session, and so does the
invariant. `Numbered` says that the new commands are numbered without a gap from the latest on, which a
command appended shifts by one (`NumberedAppended`); `Records`, that the list has the commands of the
lowest numbers at these places, and that its head is the last command entered, which is why
comparing with the head finds a repetition. `Keeps` says that the variables are those of the first
assignments of each name, in that order, each with the value of the last one; an assignment
to a known name changes no name (`ValueReplaced`), one to a new name goes behind the others
(`VariableAdded`). What expansion makes of a line is left open: the proof does not depend on it.
A line that overflows the buffer ends the session, and the property with it: what holds is
what is remembered until then (`shell_buffer`).

`PartsProofs`, about `Image`: `ImageIsRead`, that `ImageReadsBack` holds for any directory of
the host, any sizes of the disk and any paths: an image all of whose names fit in their field in
bytes reads back (one with a longer name may be made, and does not). A tree of unknown depth leaves nothing to do induction on,
so the invariant is local. `ImageIInv` says that there is a function from the reserved inodes to
the entries of the host that they are for; what is written of an inode with a name that fits
(`WrittenMade`) agrees with its entry (`Made`): a
file's blocks are its own and hold it (`Stored`), and the children of a directory are, in order, the inodes of
the entries that are no symbolic links (`ListsOf`). A call of `write_tree` has the children of
the entries it has taken, the one it waits for excepted (`Inner`, `Pending`). Each step extends
the function by the inode it reserves, and what was known stays true (`ListsKeep`,
`CallKeeps`, `MadeKeeps`); it is the innermost call that moves (`InnermostReplaced`, `ParentTakes`). Data
blocks are reserved from the first on without a gap, so that the first free one is the number
of those reserved (`FreeBlockIsNext`), and the arithmetic of offsets gives each block back
(`FileBlocks`, `FileStored`). When the image is done, one name of a path leads from
an inode to the inode for the entry of that name (`ChildIs`), or to nothing when the name fills its
field (`NameFound`); by induction along the path, lookup on the image and on the host agree
(`LooksUp`).

The proofs of `MutexProofs` rest on `ScheduleAssumption` (the
created threads are different and NULL is not one), those of `ChannelProofs` also on
`ChannelAssumption` (the senders are threads, and no value that is sent is NULL, the mark of an
empty buffer: the sender of `main.c` sends addresses), those of `JoinProofs` on
`ScheduleAssumption` and `JoinAssumption` (`MaxCalls`, the bound on the calls of a thread, is a
natural number), those about `LockOrder` on
`NullAssumption` (NULL is no system thread), those about `FileSystem` on
`FileSystemAssumption` where `OpenOutcome` is concerned (there is a slot, the image has no
inode NULL), on nothing for `OpenedOnce`, and for `FirstBlockRead` also on `ImageAssumption`
(the image is one that `generate_test_fs.py` writes on a disk that is not full: children are
inodes, a file has at most its blocks, and those it uses are aligned and on the disk),
`CatPrints` on these and `CatAssumption` (the buffer is not empty), those about `CommandList` on
`ProgramsAssumption` and `ThreadsAssumption` (there is a command, and the main thread, the
sender and NULL are no servers) and, for the answers, its `NullAssumption` (NULL, here the mark
of a receiver that was given nothing, is no answer; the null pointer of a `retval` is 0), those about `ForkTree` on `ForkAssumption` (no number
of threads is negative, and a tree is a finite set of nodes that contains the parent of each: below a
leaf the code reads nothing), those about `Malloc` on `HeapAssumption`, `ChunkAssumption` and `ListAssumption`
(sizes are natural numbers; heap and header are multiples of the alignment, which the list
allocator's regions need; NULL and the client's data are no addresses), those about `Policies` on
`PolicyAssumption` (there is a thread and a slice, the period is not zero, and levels and
durations are natural numbers), those about `Shell` on `ShellAssumption` (the history has room
for a command), those about `Image` on `HostAssumption` (the names in a directory differ, NULL is neither
an inode nor an entry, blocks and inodes are not empty, and no name that is looked up contains the
byte SOH, with which the lookup would continue a name that fills its field), those about `SysSleep` on `SysSleepAssumption` (there are
finitely many system threads, and IS_OVER is larger than twice their number), and those about
`Threads` on its `ThreadsAssumption` (there are finitely many threads, the first among them, and
NULL and `tsys` are no threads). Every
property that a theorem states is an invariant, or part of one, or an action property, or the
refinement of a run.

Leaves are kept small, so that the proofs do not depend on the speed of the machine: with four
cores and twenty other processes on them, they still pass within the default limits. Where a lemma
about an operator has many hypotheses, they have a name (`Shortened`, `WithLess`, `WithFirst`,
`OneTurn`), which is what the solver finds it by; the few leaves that are a search over many cases
at once say that they may take longer (`SMTT(30)`).

Only model-checked: liveness, which the prover cannot express under fairness. Every safety
invariant and action property of the passing runs is a theorem.

## 6. Not modelled

* The bodies of `stack.c` and of the context switch (assembly), `l2_time.c`
  (`rdtsc`), `error.c`: no protocol. A switch is modelled by what it does.
* Lab 2's `thread.c` and `sched_policy.c` exist as object files and headers only;
  they are modelled from how `schedule.c` and `main.c` use them.
* Lab 2's `sort`, `length`, `list_delete_first` and `list_print`: nobody calls
  them. The list server is modelled although `main` does not call `try_list`.
* Lab 0's `week01.c`: pure functions of strings, bits and lists. A negative number of threads,
  which ends a process of `w2_clone` at once, is excluded by `ForkAssumption`.
* Lab 3's `lab3_ls` prints what `lab3_readdir` returns; `test_fs.c` is a test program.
* Lab 4's fuzzing harness calls an external library, libpng, whose headers are most of the
  lines of that directory; the shell without its patches is the exercise, not the solution.
* `provided/` and `handout/`: skeletons of the same files. They are, with the headers of
  libpng, the larger part of the repository's lines.
* Allocation failure (`malloc` returning NULL) in the threading library: the code
  handles it by returning an error before any state changes.

## 7. Plan

What is left, in this order.

1. The actions of `Join` refined by the places of `LockOrder`, so that the step that holds all
   mutexes is shown, and not argued, to be one.
2. `CommandList` on `Channel` itself, with one system thread.
