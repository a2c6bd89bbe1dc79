-------------------------------- MODULE Mutex --------------------------------
(***************************************************************************)
(* The blocking mutex of lab 2 (src/os21-lab2/done/mutex.c) on the         *)
(* scheduler, one compare-and-swap or critical section per step.  The      *)
(* owner word and the list of blocked threads are protected by a spinlock; *)
(* a thread that finds the mutex taken queues itself and blocks with       *)
(* cond_wait, which leaves the spinlock for schedule() to release; the     *)
(* owner that unlocks hands the mutex to the head of the queue and wakes   *)
(* that thread after it has released the spinlock.                         *)
(*                                                                         *)
(* mutex_unlock also runs on a system thread's own stack, on behalf of a   *)
(* thread blocked by cond_wait(.., MUTEX), so its steps take a context c:  *)
(* a green thread, or a system thread.                                     *)
(*                                                                         *)
(* The programs that use the mutex are TestGlobalMutex and Channel, which  *)
(* extend this module: a thread calls an operation by setting mpc to the   *)
(* label the operation starts at, and goes on when mpc is "idle" again.    *)
(***************************************************************************)
EXTENDS Schedule

VARIABLES
  lock,      \* mutex_t.lock
  owner,     \* mutex_t.owner
  blocked,   \* mutex_t.blocked, head first
  mpc,       \* where each context is in mutex_lock or mutex_unlock
  nextThread \* mutex_unlock's local "next_thread"

lockVars == <<lock, owner, blocked, mpc, nextThread>>

Contexts == Threads \cup Sys

MutexPC == {"idle", "lock_spin", "lock_try", "woken", "lock_check", "lock_ret",
            "unlock_spin", "unlock_give", "unlock_ret", "unlock_wake"}

MutexTypeOK ==
  /\ lock \in {"LOCKED", "UNLOCKED"}
  /\ owner \in Threads \cup {NULL}
  /\ blocked \in Seq(Threads)
  /\ mpc \in [Contexts -> MutexPC]
  /\ nextThread \in [Contexts -> Threads \cup {NULL}]

mutex_init ==
  /\ lock = "UNLOCKED"
  /\ owner = NULL
  /\ blocked = <<>>
  /\ mpc = [c \in Contexts |-> "idle"]
  /\ nextThread = [c \in Contexts |-> NULL]

-----------------------------------------------------------------------------
(* get_current_thread()->id in context c. *)
CurrentId(c) == IF c \in Sys THEN current[c] ELSE c

(* c is executing code. *)
Active(c) == IF c \in Sys THEN spc[c] = "release" ELSE Running(c)

At(c, l) == Active(c) /\ mpc[c] = l

Goto(c, l) == mpc' = [mpc EXCEPT ![c] = l]

(* The compare-and-swap that ends the loop of spinlock_lock.  A failed one
   changes nothing. *)
spinlock_lock == lock = "UNLOCKED" /\ lock' = "LOCKED"

spinlock_unlock == lock' = "UNLOCKED"

-----------------------------------------------------------------------------
(* mutex_lock, called by thread t. *)

LockSpin(t) ==
  /\ At(t, "lock_spin")
  /\ spinlock_lock
  /\ Goto(t, "lock_try")
  /\ UNCHANGED <<owner, blocked, nextThread, schedVars>>

(* Mutant: a plain store instead of the compare-and-swap. *)
LockTake_Store(t) ==
  /\ At(t, "lock_try")
  /\ owner' = t
  /\ Goto(t, "lock_ret")
  /\ UNCHANGED <<lock, blocked, nextThread, schedVars>>

(* The mutex is free: the compare-and-swap of owner succeeds. *)
LockTake(t) ==
  /\ At(t, "lock_try")
  /\ owner = NULL
  /\ owner' = t
  /\ Goto(t, "lock_ret")
  /\ UNCHANGED <<lock, blocked, nextThread, schedVars>>

(* Mutant: the spinlock is released before the thread is off its stack. *)
LockQueue_ReleasesEarly(t) ==
  /\ At(t, "lock_try")
  /\ owner # NULL
  /\ blocked' = Append(blocked, t)
  /\ spinlock_unlock
  /\ \E s \in Sys : cond_wait(s, t, "NONE")
  /\ Goto(t, "woken")
  /\ UNCHANGED <<owner, nextThread>>

(* It is not: queue and block; schedule() will release the spinlock. *)
LockQueue(t) ==
  /\ At(t, "lock_try")
  /\ owner # NULL
  /\ blocked' = Append(blocked, t)
  /\ \E s \in Sys : cond_wait(s, t, "SPINLOCK")
  /\ Goto(t, "woken")
  /\ UNCHANGED <<lock, owner, nextThread>>

(* Back from cond_wait, without the spinlock: take it again. *)
LockRespin(t) ==
  /\ At(t, "woken")
  /\ spinlock_lock
  /\ Goto(t, "lock_check")
  /\ UNCHANGED <<owner, blocked, nextThread, schedVars>>

(* Mutant: returns without releasing the spinlock. *)
LockCheck_KeepsSpinlock(t) ==
  /\ At(t, "lock_check")
  /\ Goto(t, "idle")
  /\ UNCHANGED <<lock, owner, blocked, nextThread, schedVars>>

(* Was the mutex handed to us?  If not the function returns all the same,
   with the spinlock taken. *)
LockCheck(t) ==
  /\ At(t, "lock_check")
  /\ Goto(t, IF owner = t THEN "lock_ret" ELSE "idle")
  /\ UNCHANGED <<lock, owner, blocked, nextThread, schedVars>>

LockRet(t) ==
  /\ At(t, "lock_ret")
  /\ spinlock_unlock
  /\ Goto(t, "idle")
  /\ UNCHANGED <<owner, blocked, nextThread, schedVars>>

mutex_lock(t) ==
  LockSpin(t) \/ LockTake(t) \/ LockQueue(t) \/ LockRespin(t) \/ LockCheck(t)
    \/ LockRet(t)

-----------------------------------------------------------------------------
(* mutex_unlock, called in context c. *)

UnlockSpin(c) ==
  /\ At(c, "unlock_spin")
  /\ spinlock_lock
  /\ Goto(c, "unlock_give")
  /\ UNCHANGED <<owner, blocked, nextThread, schedVars>>

(* Mutant: the mutex is freed although threads wait. *)
UnlockFree_IgnoresQueue(c) ==
  /\ At(c, "unlock_give")
  /\ owner' = NULL
  /\ Goto(c, "unlock_ret")
  /\ UNCHANGED <<lock, blocked, nextThread, schedVars>>

(* Nobody waits. *)
UnlockFree(c) ==
  /\ At(c, "unlock_give")
  /\ blocked = <<>>
  /\ owner' = NULL
  /\ Goto(c, "unlock_ret")
  /\ UNCHANGED <<lock, blocked, nextThread, schedVars>>

(* Hand the mutex to the head of the queue. *)
UnlockGive(c) ==
  /\ At(c, "unlock_give")
  /\ blocked # <<>>
  /\ nextThread' = [nextThread EXCEPT ![c] = Head(blocked)]
  /\ blocked' = Tail(blocked)
  /\ owner' = Head(blocked)
  /\ Goto(c, "unlock_ret")
  /\ UNCHANGED <<lock, schedVars>>

(* Mutant: the new owner is not woken. *)
UnlockRet_NoWake(c) ==
  /\ At(c, "unlock_ret")
  /\ spinlock_unlock
  /\ Goto(c, "idle")
  /\ UNCHANGED <<owner, blocked, nextThread, schedVars>>

UnlockRet(c) ==
  /\ At(c, "unlock_ret")
  /\ spinlock_unlock
  /\ Goto(c, IF nextThread[c] = NULL THEN "idle" ELSE "unlock_wake")
  /\ UNCHANGED <<owner, blocked, nextThread, schedVars>>

(* Wake the new owner, with the spinlock already released. *)
UnlockWake(c) ==
  /\ At(c, "unlock_wake")
  /\ tsafe_unblock_thread(nextThread[c])
  /\ nextThread' = [nextThread EXCEPT ![c] = NULL]
  /\ Goto(c, "idle")
  /\ UNCHANGED <<lock, owner, blocked>>

mutex_unlock(c) ==
  UnlockSpin(c) \/ UnlockFree(c) \/ UnlockGive(c) \/ UnlockRet(c) \/ UnlockWake(c)

-----------------------------------------------------------------------------
(* The scheduler releases the spinlock of a thread blocked in mutex_lock. *)
ReleaseSpinlock(s) ==
  /\ spc[s] = "release"
  /\ lock_tpe[s] = "SPINLOCK"
  /\ spinlock_unlock
  /\ lock_tpe' = [lock_tpe EXCEPT ![s] = "NONE"]
  /\ UNCHANGED <<owner, blocked, mpc, nextThread>>
  /\ UNCHANGED <<state, lock_type, runnable, current, spc, cur, next>>

(* One step of schedule() that does not touch the mutex. *)
Schedule(s) ==
  /\ \/ EnterUnblocked(s)
     \/ EnterBlocked(s)
     \/ mpc[s] = "idle" /\ Released(s)
     \/ SelectNext(s)
     \/ SelectNone(s)
     \/ Park(s)
  /\ UNCHANGED lockVars

-----------------------------------------------------------------------------
(* What every program that uses the mutex can rely on. *)

(* c holds the spinlock in mutex_lock or mutex_unlock ... *)
SpinHolder(c) ==
  mpc[c] \in {"lock_try", "lock_check", "lock_ret", "unlock_give", "unlock_ret"}

(* ... or a thread blocked with it and schedule() on s has yet to release it. *)
SpinDeferred(s) ==
  \/ /\ spc[s] = "enter"
     /\ state[current[s]] = "BLOCKED"
     /\ lock_type[current[s]] = "SPINLOCK"
  \/ spc[s] = "release" /\ lock_tpe[s] = "SPINLOCK"

(* The spinlock is taken exactly when one context is responsible for releasing
   it: the assertion of spinlock_unlock (spinlock.c:23-24) never fails, no path
   releases it twice, and mutex_lock never returns with it (mutex.c:41-44). *)
SpinlockHeld ==
  LET Holders == {c \in Contexts : SpinHolder(c)} \cup {s \in Sys : SpinDeferred(s)}
  IN  /\ \A c, d \in Holders : c = d
      /\ lock = "LOCKED" <=> Holders # {}

(* The assertions on the way of a handoff: mutex_unlock is called by the owner
   (mutex.c:49); the thread it wakes is still BLOCKED and in no list
   (utils.c:43-44), although the spinlock is already released; and a thread
   comes back from cond_wait with its lock released (utils.c:36-38). *)
AssertsHold ==
  /\ \A c \in Contexts :
       /\ mpc[c] = "unlock_give" => owner = CurrentId(c)
       /\ mpc[c] = "unlock_wake" =>
            /\ state[nextThread[c]] = "BLOCKED"
            /\ nextThread[c] \notin Elements(blocked) \cup Elements(runnable)
  /\ \A s \in Sys : spc[s] = "green" =>
       state[current[s]] = "RUNNING" /\ lock_type[current[s]] = "NONE"
=============================================================================
