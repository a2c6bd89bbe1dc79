------------------------------ MODULE Schedule ------------------------------
(***************************************************************************)
(* The scheduler of lab 2 (src/os21-lab2/done/schedule.c): green threads   *)
(* multiplexed on system threads.  A system thread alternates between the  *)
(* stack of a green thread ("green") and the loop of schedule(), of which  *)
(* it executes one part per step:                                          *)
(*                                                                         *)
(*   "enter"    lines 84-112: look at the thread that just switched out    *)
(*   "release"  lines 114-138: release the lock it blocked on, forget it   *)
(*   "select"   lines 140-155: ask the policy for the next thread          *)
(*   "park"     lines 157-221: put the old thread in its list, switch to   *)
(*              the new one, or go back to "select" when there is none     *)
(*                                                                         *)
(* Every access to the RUNNABLE list is a critical section of its pthread  *)
(* mutex, hence atomic.  This module has no Next: the components that run  *)
(* on the scheduler (Mutex, Channel) extend it and compose its actions     *)
(* with theirs.  What a system thread does with nothing to schedule (lines *)
(* 184-212) is a module of its own, SysSleep; here it polls the list.      *)
(***************************************************************************)
EXTENDS Naturals, Sequences

CONSTANTS Threads,   \* the green threads (thread_info_t)
          Sys,       \* the system threads (sys_thread_t)
          Created,   \* those that exist at the start, in order of creation
          NULL       \* no thread: the null pointer and DEFAULT_TARGET

VARIABLES
  state,       \* thread_info_t.state
  lock_type,   \* thread_info_t.lock_type: the kind of lock to_release points to
  runnable,    \* thread_arrays[RUNNABLE], head first
  current,     \* sys_thread_t.current
  spc,         \* where each system thread is
  cur,         \* schedule()'s local "current"
  next,        \* schedule()'s local "next"
  lock_tpe     \* schedule()'s local "lock_tpe", NONE once the lock is released

schedVars == <<state, lock_type, runnable, current, spc, cur, next, lock_tpe>>

(* The threads of a list. *)
Elements(list) == {list[i] : i \in DOMAIN list}

(* A list has each thread at most once. *)
NoDuplicate(list) == \A i, j \in DOMAIN list : list[i] = list[j] => i = j

ASSUME ScheduleAssumption ==
  /\ NULL \notin Threads
  /\ Threads \cap Sys = {}
  /\ Created \in Seq(Threads)
  /\ NoDuplicate(Created)

(* thread_state_t, and FREE: no thread_info_t is allocated for the thread. *)
ThreadState == {"FREE", "RUNNING", "RUNNABLE", "JOINING", "BLOCKED", "ZOMBIE", "DEAD"}
LockType    == {"NONE", "SPINLOCK", "MUTEX"}

SchedTypeOK ==
  /\ state \in [Threads -> ThreadState]
  /\ lock_type \in [Threads -> LockType]
  /\ runnable \in Seq(Threads)
  /\ current \in [Sys -> Threads \cup {NULL}]
  /\ spc \in [Sys -> {"green", "enter", "release", "select", "park"}]
  /\ cur \in [Sys -> Threads \cup {NULL}]
  /\ next \in [Sys -> Threads \cup {NULL}]
  /\ lock_tpe \in [Sys -> LockType]
  /\ \A s \in Sys : spc[s] \in {"green", "enter", "release"} => current[s] # NULL

(* The created threads wait in RUNNABLE; the system threads enter schedule()
   with nothing to run. *)
SchedInit ==
  /\ state = [t \in Threads |-> IF t \in Elements(Created) THEN "RUNNABLE" ELSE "FREE"]
  /\ lock_type = [t \in Threads |-> "NONE"]
  /\ runnable = Created
  /\ current = [s \in Sys |-> NULL]
  /\ spc = [s \in Sys |-> "select"]
  /\ cur = [s \in Sys |-> NULL]
  /\ next = [s \in Sys |-> NULL]
  /\ lock_tpe = [s \in Sys |-> "NONE"]

-----------------------------------------------------------------------------
(* What green threads call. *)

OnCpu(s, t) == spc[s] = "green" /\ current[s] = t

Running(t) == \E s \in Sys : OnCpu(s, t)

(* Mutant: the switch forgets scheduler->current before schedule() reads it. *)
yield_Forgets(s, t, st) ==
  /\ OnCpu(s, t)
  /\ state' = [state EXCEPT ![t] = st]
  /\ current' = [current EXCEPT ![s] = NULL]
  /\ spc' = [spc EXCEPT ![s] = "enter"]
  /\ UNCHANGED <<lock_type, runnable, cur, next, lock_tpe>>

(* yield(-1) after the caller left its state as st: RUNNING for a plain yield,
   ZOMBIE when the thread's function has returned. *)
yield(s, t, st) ==
  /\ OnCpu(s, t)
  /\ state' = [state EXCEPT ![t] = st]
  /\ spc' = [spc EXCEPT ![s] = "enter"]
  /\ UNCHANGED <<lock_type, runnable, current, cur, next, lock_tpe>>

(* The caller blocks; the lock is released by schedule(), off its stack. *)
cond_wait(s, t, tpe) ==
  /\ OnCpu(s, t)
  /\ lock_type' = [lock_type EXCEPT ![t] = tpe]
  /\ state' = [state EXCEPT ![t] = "BLOCKED"]
  /\ spc' = [spc EXCEPT ![s] = "enter"]
  /\ UNCHANGED <<runnable, current, cur, next, lock_tpe>>

tsafe_unblock_thread(t) ==
  /\ state' = [state EXCEPT ![t] = "RUNNABLE"]
  /\ runnable' = Append(runnable, t)
  /\ UNCHANGED <<lock_type, current, spc, cur, next, lock_tpe>>

-----------------------------------------------------------------------------
(* The loop of schedule() on system thread s. *)

(* Mutant: lines 100-102 dropped, a yielder is left RUNNING. *)
EnterUnblocked_StaysRunning(s) ==
  /\ spc[s] = "enter"
  /\ state[current[s]] # "BLOCKED"
  /\ cur' = [cur EXCEPT ![s] = current[s]]
  /\ current' = [current EXCEPT ![s] = NULL]
  /\ spc' = [spc EXCEPT ![s] = "select"]
  /\ UNCHANGED <<state, lock_type, runnable, next, lock_tpe>>

(* The thread yielded or ended: it becomes the local "current". *)
EnterUnblocked(s) ==
  LET t == current[s] IN
  /\ spc[s] = "enter"
  /\ state[t] # "BLOCKED"
  /\ state' = IF state[t] = "RUNNING" THEN [state EXCEPT ![t] = "RUNNABLE"]
                                      ELSE state
  /\ cur' = [cur EXCEPT ![s] = t]
  /\ current' = [current EXCEPT ![s] = NULL]
  /\ spc' = [spc EXCEPT ![s] = "select"]
  /\ UNCHANGED <<lock_type, runnable, next, lock_tpe>>

(* Mutant: lock_type is not reset. *)
EnterBlocked_KeepsType(s) ==
  /\ spc[s] = "enter"
  /\ state[current[s]] = "BLOCKED"
  /\ lock_tpe' = [lock_tpe EXCEPT ![s] = lock_type[current[s]]]
  /\ spc' = [spc EXCEPT ![s] = "release"]
  /\ UNCHANGED <<state, lock_type, runnable, current, cur, next>>

(* The thread blocked: read and clear which lock it leaves behind. *)
EnterBlocked(s) ==
  LET t == current[s] IN
  /\ spc[s] = "enter"
  /\ state[t] = "BLOCKED"
  /\ lock_tpe' = [lock_tpe EXCEPT ![s] = lock_type[t]]
  /\ lock_type' = [lock_type EXCEPT ![t] = "NONE"]
  /\ spc' = [spc EXCEPT ![s] = "release"]
  /\ UNCHANGED <<state, runnable, current, cur, next>>

(* The lock is released: only now is scheduler->current forgotten, at a time
   the blocked thread may already run on another system thread. *)
Released(s) ==
  /\ spc[s] = "release"
  /\ lock_tpe[s] = "NONE"
  /\ current' = [current EXCEPT ![s] = NULL]
  /\ spc' = [spc EXCEPT ![s] = "select"]
  /\ UNCHANGED <<state, lock_type, runnable, cur, next, lock_tpe>>

(* The thread that was yielded to is the policy's choice. *)
SelectTarget(s) ==
  /\ spc[s] = "select"
  /\ next[s] # NULL
  /\ spc' = [spc EXCEPT ![s] = "park"]
  /\ UNCHANGED <<state, lock_type, runnable, current, cur, next, lock_tpe>>

(* Otherwise round robin takes the head of RUNNABLE. *)
SelectNext(s) ==
  /\ spc[s] = "select"
  /\ next[s] = NULL
  /\ runnable # <<>>
  /\ next' = [next EXCEPT ![s] = Head(runnable)]
  /\ runnable' = Tail(runnable)
  /\ spc' = [spc EXCEPT ![s] = "park"]
  /\ UNCHANGED <<state, lock_type, current, cur, lock_tpe>>

(* The policy found nothing.  With no old thread to park either, the loop
   comes back here: no step. *)
SelectNone(s) ==
  /\ spc[s] = "select"
  /\ next[s] = NULL
  /\ runnable = <<>>
  /\ cur[s] # NULL
  /\ spc' = [spc EXCEPT ![s] = "park"]
  /\ UNCHANGED <<state, lock_type, runnable, current, cur, next, lock_tpe>>

(* A yielder goes to the tail of RUNNABLE; a zombie goes to a list that only
   Join reads.  Then s switches to the selected thread, or looks for one again. *)
Park(s) ==
  LET t == cur[s]
      n == next[s] IN
  /\ spc[s] = "park"
  /\ runnable' = IF t # NULL /\ state[t] = "RUNNABLE" THEN Append(runnable, t)
                                                      ELSE runnable
  /\ cur' = [cur EXCEPT ![s] = NULL]
  /\ next' = [next EXCEPT ![s] = NULL]
  /\ IF n = NULL
     THEN /\ spc' = [spc EXCEPT ![s] = "select"]
          /\ UNCHANGED <<state, current>>
     ELSE /\ current' = [current EXCEPT ![s] = n]
          /\ state' = [state EXCEPT ![n] = "RUNNING"]
          /\ spc' = [spc EXCEPT ![s] = "green"]
  /\ UNCHANGED <<lock_type, lock_tpe>>

-----------------------------------------------------------------------------
(* What every composition promises of the scheduler. *)

(* The threads a system thread has in its hands. *)
Held(s) ==
  IF spc[s] \in {"green", "enter"} THEN {current[s]}
                                   ELSE {cur[s], next[s]} \ {NULL}

(* A thread is in one place: it never runs, or is about to run, on two system
   threads, and is not in RUNNABLE while one of them holds it.  A second stack
   pointer into a live stack is what the deferred release of cond_wait
   (utils.c:25-39, schedule.c:114-131) is there to prevent. *)
OnePlace ==
  /\ NoDuplicate(runnable)
  /\ \A s \in Sys : Held(s) \cap Elements(runnable) = {}
  /\ \A s \in Sys : cur[s] # NULL => cur[s] # next[s]
  /\ \A s1, s2 \in Sys : s1 # s2 => Held(s1) \cap Held(s2) = {}
=============================================================================
