----------------------------- MODULE LockOrder -----------------------------
(***************************************************************************)
(* The pthread mutexes of lab 2's scheduler state (scheduler_state.c): one *)
(* for each list the system threads share.  handle_non_runnable holds two  *)
(* or four of them at a time, and wakes joiners, which takes another one,  *)
(* while it holds some.  The mutexes are not recursive: a thread that      *)
(* locks one it holds waits for ever.  What the lists hold is left open:   *)
(* every outcome of a search is possible.                                  *)
(***************************************************************************)
EXTENDS Null, Naturals

CONSTANT Sys   \* the system threads

ASSUME NullAssumption == NULL \notin Sys

Locks == {"ZOMBIE", "JOINING", "RUNNABLE", "exists"}

VARIABLES owner,  \* of each mutex
          place,  \* where each system thread is
          found   \* its local variable: a thread to wake, or to free, was found

lockVars == <<owner, place, found>>

LockInit ==
  /\ owner = [l \in Locks |-> NULL]
  /\ place = [s \in Sys |-> "run"]
  /\ found = [s \in Sys |-> FALSE]

Goto(s, to) == place' = [place EXCEPT ![s] = to]

pthread_mutex_lock(s, l, from, to) ==
  /\ place[s] = from
  /\ owner[l] = NULL
  /\ owner' = [owner EXCEPT ![l] = s]
  /\ Goto(s, to)

pthread_mutex_unlock(s, l, from, to) ==
  /\ place[s] = from
  /\ owner' = [owner EXCEPT ![l] = NULL]
  /\ Goto(s, to)
-----------------------------------------------------------------------------
(* In user code and in schedule(), without a mutex: a thread is enqueued,  *)
(* searched or selected in RUNNABLE, a thread is registered, a joiner or a *)
(* thread that ends is left to handle_non_runnable.                        *)
Enter(s) ==
  /\ place[s] = "run"
  /\ \E to \in {"enqueue", "register", "join_z", "exit_z"} : Goto(s, to)
  /\ found' = [found EXCEPT ![s] = FALSE]
  /\ UNCHANGED owner

(* tsafe_enqueue_thread, tsafe_find_and_remove_thread, lock_list(RUNNABLE) *)
Enqueue(s) ==
  /\ \/ pthread_mutex_lock(s, "RUNNABLE", "enqueue", "enqueuing")
     \/ pthread_mutex_unlock(s, "RUNNABLE", "enqueuing", "run")
  /\ UNCHANGED found

(* register_thread and unregister_thread                                   *)
Register(s) ==
  /\ \/ pthread_mutex_lock(s, "exists", "register", "registering")
     \/ pthread_mutex_unlock(s, "exists", "registering", "run")
  /\ UNCHANGED found
-----------------------------------------------------------------------------
(* Mutant: only the three lists of states are locked.                      *)
lock_all_lists_NoExists(s) ==
  /\ \/ pthread_mutex_lock(s, "ZOMBIE", "join_z", "join_j")
     \/ pthread_mutex_lock(s, "JOINING", "join_j", "join_r")
     \/ pthread_mutex_lock(s, "RUNNABLE", "join_r", "search")
  /\ UNCHANGED found

(* handle_non_runnable for a joiner: all four are taken.                   *)
lock_all_lists(s) ==
  /\ \/ pthread_mutex_lock(s, "ZOMBIE", "join_z", "join_j")
     \/ pthread_mutex_lock(s, "JOINING", "join_j", "join_r")
     \/ pthread_mutex_lock(s, "RUNNABLE", "join_r", "join_e")
     \/ pthread_mutex_lock(s, "exists", "join_e", "search")
  /\ UNCHANGED found

(* The target is a zombie, still exists (the joiner waits in JOINING), or  *)
(* does not: in the first case and the last the joiner is woken afterwards. *)
LookUp(s) ==
  /\ place[s] = "search"
  /\ \E wake \in BOOLEAN : found' = [found EXCEPT ![s] = wake]
  /\ Goto(s, "unlock_e")
  /\ UNCHANGED owner

unlock_all_lists(s) ==
  /\ \/ pthread_mutex_unlock(s, "exists", "unlock_e", "unlock_r")
     \/ pthread_mutex_unlock(s, "RUNNABLE", "unlock_r", "unlock_j")
     \/ pthread_mutex_unlock(s, "JOINING", "unlock_j", "unlock_z")
     \/ pthread_mutex_unlock(s, "ZOMBIE", "unlock_z", IF found[s] THEN "enqueue" ELSE "run")
  /\ UNCHANGED found
-----------------------------------------------------------------------------
(* Mutant: JOINING first.                                                  *)
lock_zombie_joining_Swapped(s) ==
  /\ \/ pthread_mutex_lock(s, "JOINING", "exit_z", "exit_j")
     \/ pthread_mutex_lock(s, "ZOMBIE", "exit_j", "scan")
  /\ UNCHANGED found

(* handle_non_runnable for a thread that ends                              *)
lock_zombie_joining(s) ==
  /\ \/ pthread_mutex_lock(s, "ZOMBIE", "exit_z", "exit_j")
     \/ pthread_mutex_lock(s, "JOINING", "exit_j", "scan")
  /\ UNCHANGED found

(* The first joiner of the thread is kept for the end, the others are      *)
(* woken at once; without a joiner the thread is put in ZOMBIE.            *)
Scan(s) ==
  /\ place[s] = "scan"
  /\ \/ ~found[s] /\ found' = [found EXCEPT ![s] = TRUE] /\ UNCHANGED place
     \/ found[s] /\ Goto(s, "wake") /\ UNCHANGED found
     \/ Goto(s, IF found[s] THEN "wake_first" ELSE "exit_uj") /\ UNCHANGED found
  /\ UNCHANGED owner

(* unblock_thread, with ZOMBIE and JOINING taken                           *)
unblock_thread(s) ==
  /\ \/ pthread_mutex_lock(s, "RUNNABLE", "wake", "waking")
     \/ pthread_mutex_unlock(s, "RUNNABLE", "waking", "scan")
     \/ pthread_mutex_lock(s, "RUNNABLE", "wake_first", "waking_first")
     \/ pthread_mutex_unlock(s, "RUNNABLE", "waking_first", "exit_uj")
  /\ UNCHANGED found

(* A thread whose first joiner got its value is unregistered and freed.    *)
unlock_zombie_joining(s) ==
  /\ \/ pthread_mutex_unlock(s, "JOINING", "exit_uj", "exit_uz")
     \/ pthread_mutex_unlock(s, "ZOMBIE", "exit_uz", IF found[s] THEN "register" ELSE "run")
  /\ UNCHANGED found

Step(s) == \/ Enter(s) \/ Enqueue(s) \/ Register(s)
           \/ lock_all_lists(s) \/ LookUp(s) \/ unlock_all_lists(s)
           \/ lock_zombie_joining(s) \/ Scan(s) \/ unblock_thread(s)
           \/ unlock_zombie_joining(s)

LockNext == \E s \in Sys : Step(s)

LockSpec == LockInit /\ [][LockNext]_lockVars
-----------------------------------------------------------------------------
(* The mutex a thread is about to lock, if any, and those a thread holds.  *)
Wants(s) == CASE place[s] \in {"join_z", "exit_z"} -> "ZOMBIE"
              [] place[s] \in {"join_j", "exit_j"} -> "JOINING"
              [] place[s] \in {"enqueue", "join_r", "wake", "wake_first"} -> "RUNNABLE"
              [] place[s] \in {"register", "join_e"} -> "exists"
              [] OTHER -> NULL

Waiting(s) == Wants(s) # NULL /\ owner[Wants(s)] # NULL

(* The system threads never all wait for one another, not even for         *)
(* themselves: when one waits for a mutex, the holder of some mutex does   *)
(* not (the order of the locks in lock_all_lists and unblock_thread, and   *)
(* the joiner that is woken only after unlock_all_lists).                  *)
NoDeadlock ==
  \A s \in Sys : Waiting(s) => \E t \in Sys, l \in Locks : owner[l] = t /\ ~Waiting(t)

(* The lists the code reads or writes at each place.                       *)
Uses(s) == CASE place[s] \in {"enqueuing", "waking", "waking_first"} -> {"RUNNABLE"}
             [] place[s] = "registering" -> {"exists"}
             [] place[s] = "search" -> {"ZOMBIE", "JOINING", "exists"}
             [] place[s] = "scan" -> {"ZOMBIE", "JOINING"}
             [] OTHER -> {}

(* No list is used by two system threads at a time.                        *)
ListsLocked == \A s, t \in Sys : s # t => Uses(s) \cap Uses(t) = {}
=============================================================================
