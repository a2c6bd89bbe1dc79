------------------------------ MODULE ForkTree ------------------------------
(***************************************************************************)
(* The processes of lab 0 (week02.c): w2_bork forks n children in a row,   *)
(* w2_fork and w2_clone fork along a tree of flags, and w2_clone runs      *)
(* threads before each fork.  A child takes the left subtree and exits,    *)
(* its parent waits for it and takes the right one.  A fork may fail.      *)
(***************************************************************************)
EXTENDS Naturals, Sequences, SequencesExt, FiniteSets

CONSTANTS
  Trees,         \* sets of nodes that fork, by their index in the array
  ThreadCounts,  \* what num_threads may be
  MaxBork        \* the bound on the argument n of w2_bork

(* A node with a negative number of threads would end its process.  What   *)
(* is below a node that does not fork is never read, and is not in a tree. *)
ASSUME ForkAssumption ==
  /\ ThreadCounts \subseteq Nat /\ MaxBork \in Nat
  /\ \A t \in Trees : /\ t \subseteq Nat /\ IsFiniteSet(t)
                     /\ \A i \in t : i = 0 \/ (i - 1) \div 2 \in t

VARIABLES
  function,  \* the function that is called
  tree,      \* root; for w2_bork the set 1..n of the rounds that fork
  procs,     \* the processes, process 0 first: [node, pc, threads, parent]
  verified,  \* history: [pid, node] of the calls of verify, in order
  failed     \* history: a fork has failed

forkVars == <<function, tree, procs, verified, failed>>

Process(node, pc, parent) == [node |-> node, pc |-> pc, threads |-> 0, parent |-> parent]

ForkInit ==
  /\ \/ function = "bork" /\ tree \in {1..n : n \in 0..MaxBork}
     \/ function = "clone" /\ tree \in Trees
  /\ procs = <<Process(IF function = "bork" THEN Cardinality(tree) ELSE 0, "call", 0)>>
  /\ verified = <<>>
  /\ failed = FALSE

Left(node) == 2 * node + 1
Right(node) == IF function = "bork" THEN node - 1 ELSE 2 * node + 2

At(p, pc) == procs[p].pc = pc
Continue(p, pc) == procs' = [procs EXCEPT ![p].pc = pc]
-----------------------------------------------------------------------------
(* The node does not fork: the call returns.                               *)
Leaf(p) ==
  /\ At(p, "call")
  /\ procs[p].node \notin tree
  /\ Continue(p, "return")
  /\ UNCHANGED <<function, tree, verified, failed>>

(* w2_clone creates its threads; w2_fork is the case without threads.      *)
Spawn(p) ==
  /\ At(p, "call")
  /\ procs[p].node \in tree
  /\ \E n \in IF function = "clone" THEN ThreadCounts ELSE {0} :
       procs' = [procs EXCEPT ![p].pc = "join", ![p].threads = n]
  /\ UNCHANGED <<function, tree, verified, failed>>

(* A thread calls verify_thread and ends.                                  *)
ThreadEnds(p) ==
  /\ procs[p].threads > 0
  /\ procs' = [procs EXCEPT ![p].threads = @ - 1]
  /\ UNCHANGED <<function, tree, verified, failed>>

(* Mutant: the threads are not joined.                                     *)
Join_None(p) ==
  /\ At(p, "join")
  /\ Continue(p, "fork")
  /\ UNCHANGED <<function, tree, verified, failed>>

(* pthread_join of every thread                                            *)
Join(p) ==
  /\ At(p, "join")
  /\ procs[p].threads = 0
  /\ Continue(p, "fork")
  /\ UNCHANGED <<function, tree, verified, failed>>

Fork(p) ==
  /\ At(p, "fork")
  /\ procs' = Append([procs EXCEPT ![p].pc = "wait"],
                     Process(Left(procs[p].node), "verify", p))
  /\ UNCHANGED <<function, tree, verified, failed>>

ForkFails(p) ==
  /\ At(p, "fork")
  /\ failed' = TRUE
  /\ Continue(p, "return")
  /\ UNCHANGED <<function, tree, verified>>

(* The child goes on with the left subtree, that of w2_bork is done.       *)
Verify(p) ==
  /\ At(p, "verify")
  /\ verified' = Append(verified, [pid |-> p - 1, node |-> procs[p].node])
  /\ Continue(p, IF function = "bork" THEN "return" ELSE "call")
  /\ UNCHANGED <<function, tree, failed>>

(* wait(NULL): the parent of a child that has exited goes to the right.    *)
Wait(p) ==
  /\ At(p, "wait")
  /\ \E c \in DOMAIN procs :
       /\ procs[c].parent = p /\ At(c, "exited")
       /\ procs' = [procs EXCEPT ![c].pc = "reaped", ![p].pc = "call",
                                 ![p].node = Right(procs[p].node)]
  /\ UNCHANGED <<function, tree, verified, failed>>

(* A child of w2_clone exits when its call returns.  Process 0 returns to  *)
(* the program that called the function, and so does a child of w2_bork,   *)
(* which lacks its exit(0): it exits at the end of that program.           *)
Return(p) ==
  /\ At(p, "return")
  /\ Continue(p, IF p = 1 \/ function = "bork" THEN "caller" ELSE "exited")
  /\ UNCHANGED <<function, tree, verified, failed>>

CallerEnds(p) ==
  /\ At(p, "caller")
  /\ Continue(p, "exited")
  /\ UNCHANGED <<function, tree, verified, failed>>

ForkNext == \E p \in DOMAIN procs :
  \/ Leaf(p) \/ Spawn(p) \/ ThreadEnds(p) \/ Join(p) \/ Fork(p) \/ ForkFails(p)
  \/ Verify(p) \/ Wait(p) \/ Return(p) \/ CallerEnds(p)
-----------------------------------------------------------------------------
(* The way from the root to a node, 0 for left and 1 for right.            *)
Path[node \in Nat] ==
  IF node = 0 THEN <<>> ELSE Append(Path[(node - 1) \div 2], 1 - (node % 2))

(* node comes before other when a tree is visited parents first, then left. *)
Before(node, other) ==
  LET p == Path[node]
      q == Path[other]
  IN \/ IsStrictPrefix(p, q)
     \/ \E i \in DOMAIN p \cap DOMAIN q :
          p[i] < q[i] /\ \A j \in 1..i - 1 : p[j] = q[j]

(* The order of the processes is that of figure (B) of week02.h, whatever  *)
(* the threads do: the n-th fork is that of the n-th node that forks, left *)
(* before right, its child is process n and verifies at the left child     *)
(* (as long as no fork has failed).                                        *)
ForkOrder ==
  function = "clone" /\ ~failed =>
    \A n \in DOMAIN verified :
      /\ verified[n].pid = n
      /\ \E node \in tree : /\ verified[n].node = Left(node)
                            /\ Cardinality({i \in tree : Before(i, node)}) = n - 1

(* A process and its threads are never active beside another process: the  *)
(* threads are joined before a fork, and parents wait (week02.h:32 and     *)
(* 128-129).                                                               *)
OneProcessRuns ==
  \A p, q \in DOMAIN procs :
    LET active(r) == procs[r].threads > 0 \/ procs[r].pc \notin {"wait", "exited", "reaped"}
    IN active(p) /\ active(q) => p = q

ForksInOrder == ForkOrder /\ OneProcessRuns
=============================================================================
