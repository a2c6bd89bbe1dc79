----------------------------- MODULE MutexProofs -----------------------------
(***************************************************************************)
(* The proofs that the mutex excludes, that it is a first-in first-out     *)
(* lock, that it loses no wake-up and that its assertions hold, for any    *)
(* number of threads and system threads.                                   *)
(***************************************************************************)
EXTENDS TestGlobalMutex, ScheduleProofs

(* No system thread runs mutex_unlock: nothing here blocks with a MUTEX. *)
SysIdle == \A s \in Sys : mpc[s] = "idle" /\ nextThread[s] = NULL

(* Between mutex_unlock and its return a thread is outside. *)
Unlocking ==
  \A t \in Threads :
    mpc[t] \in {"unlock_spin", "unlock_give", "unlock_ret", "unlock_wake"} => pc[t] = "out"

(* A thread in the queue sleeps in mutex_lock. *)
Queued ==
  /\ NoDuplicate(blocked)
  /\ \A t \in Elements(blocked) : mpc[t] = "woken" /\ state[t] = "BLOCKED"

(* A thread that is about to be woken sleeps, and there is one at most. *)
Handoff ==
  /\ \A t \in Threads : nextThread[t] # NULL =>
       /\ mpc[t] \in {"unlock_ret", "unlock_wake"}
       /\ nextThread[t] \notin Elements(blocked)
       /\ state[nextThread[t]] = "BLOCKED"
       /\ mpc[nextThread[t]] = "woken"
  /\ \A t \in Threads : mpc[t] = "unlock_wake" => nextThread[t] # NULL
  /\ \A t, u \in Threads : nextThread[t] # NULL /\ nextThread[u] # NULL => t = u

(* A thread that is blocking, with its stack still in use, is in the queue. *)
Blocking ==
  \A s \in Sys : spc[s] = "enter" /\ state[current[s]] = "BLOCKED" =>
    current[s] \in Elements(blocked) /\ lock_type[current[s]] = "SPINLOCK"

(* A thread that has been granted the mutex, and has not given it away. *)
Granted(t) ==
  \/ mpc[t] \in {"lock_check", "lock_ret", "unlock_spin", "unlock_give"}
  \/ mpc[t] = "idle" /\ pc[t] \in {"cs", "yielded"}
  \/ mpc[t] = "woken" /\ t \notin Elements(blocked)

OwnerGranted == \A t \in Threads : Granted(t) => owner = t

(* The spinlock has one holder. *)
OneHolder ==
  /\ \A t, u \in Threads : SpinHolder(t) /\ SpinHolder(u) => t = u
  /\ \A s, r \in Sys : SpinDeferred(s) /\ SpinDeferred(r) => s = r
  /\ \A t \in Threads, s \in Sys : ~(SpinHolder(t) /\ SpinDeferred(s))
  /\ \A t \in Threads : SpinHolder(t) => lock = "LOCKED"
  /\ \A s \in Sys : SpinDeferred(s) => lock = "LOCKED"
  /\ lock = "LOCKED" => (\E t \in Threads : SpinHolder(t)) \/ \E s \in Sys : SpinDeferred(s)

MutexInv ==
  /\ SysIdle /\ Unlocking /\ Queued /\ Handoff /\ Blocking /\ OwnerGranted /\ OneHolder

IInv == SchedInv /\ TypeOK /\ MutexInv

-----------------------------------------------------------------------------
(* Steps that leave the scheduler alone. *)

(* The scheduler's invariant is about its variables only. *)
LEMMA SchedUnchanged ==
  ASSUME SchedInv, UNCHANGED schedVars
  PROVE  SchedInv' /\ \A s \in Sys : SpinDeferred(s)' = SpinDeferred(s)
BY DEF SchedInv, schedVars, SchedTypeOK, Hands, StatesMatch, OnePlace, Held, SpinDeferred

(* A thread that executes is not in the queue. *)
LEMMA RunningNotQueued ==
  ASSUME IInv, NEW t \in Threads, Active(t)
  PROVE  state[t] = "RUNNING" /\ t \notin Elements(blocked) /\ t \notin Sys
BY ScheduleAssumption
   DEF IInv, SchedInv, StatesMatch, MutexInv, Queued, Active, Running, OnCpu

(* mutex_lock takes the spinlock. *)
LEMMA LockSpinInv ==
  ASSUME IInv, NEW t \in Threads, LockSpin(t), UNCHANGED pc
  PROVE  IInv'
<1> USE DEF IInv, MutexInv, LockSpin, At, Goto, spinlock_lock
<1>a. state[t] = "RUNNING" /\ t \notin Elements(blocked) /\ t \notin Sys
  BY RunningNotQueued
<1>b. SchedInv' /\ \A s \in Sys : SpinDeferred(s)' = SpinDeferred(s)
  BY SchedUnchanged
<1>1. TypeOK'
  BY <1>b DEF TypeOK, SchedInv, MutexTypeOK, Contexts, MutexPC
<1>2. SysIdle' /\ Unlocking'
  BY <1>a DEF SysIdle, Unlocking, TypeOK, MutexTypeOK, Contexts
<1>3. Queued' /\ Handoff' /\ Blocking'
  BY <1>a DEF Queued, Handoff, Blocking, TypeOK, MutexTypeOK, Contexts, schedVars
<1>4. OwnerGranted'
  BY <1>a, ScheduleAssumption DEF OwnerGranted, Granted, TypeOK, MutexTypeOK, Contexts
<1>5. OneHolder'
  BY <1>a, <1>b DEF OneHolder, SpinHolder, TypeOK, MutexTypeOK, Contexts
<1> QED BY <1>b, <1>1, <1>2, <1>3, <1>4, <1>5

(* The mutex is free and taken. *)
LEMMA LockTakeInv ==
  ASSUME IInv, NEW t \in Threads, LockTake(t), UNCHANGED pc
  PROVE  IInv'
<1> USE DEF IInv, MutexInv, LockTake, At, Goto
<1>a. state[t] = "RUNNING" /\ t \notin Elements(blocked) /\ t \notin Sys
  BY RunningNotQueued
<1>b. SchedInv' /\ \A s \in Sys : SpinDeferred(s)' = SpinDeferred(s)
  BY SchedUnchanged
<1>1. TypeOK'
  BY <1>b DEF TypeOK, SchedInv, MutexTypeOK, Contexts, MutexPC
<1>2. SysIdle' /\ Unlocking'
  BY <1>a DEF SysIdle, Unlocking, TypeOK, MutexTypeOK, Contexts
<1>3. Queued' /\ Handoff' /\ Blocking'
  BY <1>a DEF Queued, Handoff, Blocking, TypeOK, MutexTypeOK, Contexts, schedVars
<1>4. OwnerGranted'
  BY <1>a, ScheduleAssumption DEF OwnerGranted, Granted, TypeOK, MutexTypeOK, Contexts
<1>5. OneHolder'
  BY <1>a, <1>b DEF OneHolder, SpinHolder, TypeOK, MutexTypeOK, Contexts
<1> QED BY <1>b, <1>1, <1>2, <1>3, <1>4, <1>5

(* mutex_lock takes the spinlock again. *)
LEMMA LockRespinInv ==
  ASSUME IInv, NEW t \in Threads, LockRespin(t), UNCHANGED pc
  PROVE  IInv'
<1> USE DEF IInv, MutexInv, LockRespin, At, Goto, spinlock_lock
<1>a. state[t] = "RUNNING" /\ t \notin Elements(blocked) /\ t \notin Sys
  BY RunningNotQueued
<1>b. SchedInv' /\ \A s \in Sys : SpinDeferred(s)' = SpinDeferred(s)
  BY SchedUnchanged
<1>1. TypeOK'
  BY <1>b DEF TypeOK, SchedInv, MutexTypeOK, Contexts, MutexPC
<1>2. SysIdle' /\ Unlocking'
  BY <1>a DEF SysIdle, Unlocking, TypeOK, MutexTypeOK, Contexts
<1>3. Queued' /\ Handoff' /\ Blocking'
  BY <1>a DEF Queued, Handoff, Blocking, TypeOK, MutexTypeOK, Contexts, schedVars
<1>4. OwnerGranted'
  BY <1>a, ScheduleAssumption DEF OwnerGranted, Granted, TypeOK, MutexTypeOK, Contexts
<1>5. OneHolder'
  BY <1>a, <1>b DEF OneHolder, SpinHolder, TypeOK, MutexTypeOK, Contexts
<1> QED BY <1>b, <1>1, <1>2, <1>3, <1>4, <1>5

(* The thread has been made the owner. *)
LEMMA LockCheckInv ==
  ASSUME IInv, NEW t \in Threads, LockCheck(t), UNCHANGED pc
  PROVE  IInv'
<1> USE DEF IInv, MutexInv, LockCheck, At, Goto
<1>a. state[t] = "RUNNING" /\ t \notin Elements(blocked) /\ t \notin Sys
  BY RunningNotQueued
<1>b. SchedInv' /\ \A s \in Sys : SpinDeferred(s)' = SpinDeferred(s)
  BY SchedUnchanged
<1>1. TypeOK'
  BY <1>b DEF TypeOK, SchedInv, MutexTypeOK, Contexts, MutexPC
<1>2. SysIdle' /\ Unlocking'
  BY <1>a DEF SysIdle, Unlocking, TypeOK, MutexTypeOK, Contexts
<1>3. Queued' /\ Handoff' /\ Blocking'
  BY <1>a DEF Queued, Handoff, Blocking, TypeOK, MutexTypeOK, Contexts, schedVars
<1>4. OwnerGranted'
  BY <1>a, ScheduleAssumption DEF OwnerGranted, Granted, TypeOK, MutexTypeOK, Contexts
<1>5. OneHolder'
  BY <1>a, <1>b DEF OneHolder, SpinHolder, OwnerGranted, Granted, TypeOK, MutexTypeOK, Contexts
<1> QED BY <1>b, <1>1, <1>2, <1>3, <1>4, <1>5

(* mutex_lock returns. *)
LEMMA LockRetInv ==
  ASSUME IInv, NEW t \in Threads, LockRet(t), UNCHANGED pc
  PROVE  IInv'
<1> USE DEF IInv, MutexInv, LockRet, At, Goto, spinlock_unlock
<1>a. state[t] = "RUNNING" /\ t \notin Elements(blocked) /\ t \notin Sys
  BY RunningNotQueued
<1>b. SchedInv' /\ \A s \in Sys : SpinDeferred(s)' = SpinDeferred(s)
  BY SchedUnchanged
<1>1. TypeOK'
  BY <1>b DEF TypeOK, SchedInv, MutexTypeOK, Contexts, MutexPC
<1>2. SysIdle' /\ Unlocking'
  BY <1>a DEF SysIdle, Unlocking, TypeOK, MutexTypeOK, Contexts
<1>3. Queued' /\ Handoff' /\ Blocking'
  BY <1>a DEF Queued, Handoff, Blocking, TypeOK, MutexTypeOK, Contexts, schedVars
<1>4. OwnerGranted'
  BY <1>a, ScheduleAssumption DEF OwnerGranted, Granted, TypeOK, MutexTypeOK, Contexts
<1>5. OneHolder'
  BY <1>a, <1>b DEF OneHolder, SpinHolder, TypeOK, MutexTypeOK, Contexts
<1> QED BY <1>b, <1>1, <1>2, <1>3, <1>4, <1>5

(* mutex_unlock takes the spinlock. *)
LEMMA UnlockSpinInv ==
  ASSUME IInv, NEW t \in Threads, UnlockSpin(t), UNCHANGED pc
  PROVE  IInv'
<1> USE DEF IInv, MutexInv, UnlockSpin, At, Goto, spinlock_lock
<1>a. state[t] = "RUNNING" /\ t \notin Elements(blocked) /\ t \notin Sys
  BY RunningNotQueued
<1>b. SchedInv' /\ \A s \in Sys : SpinDeferred(s)' = SpinDeferred(s)
  BY SchedUnchanged
<1>1. TypeOK'
  BY <1>b DEF TypeOK, SchedInv, MutexTypeOK, Contexts, MutexPC
<1>2. SysIdle' /\ Unlocking'
  BY <1>a DEF SysIdle, Unlocking, TypeOK, MutexTypeOK, Contexts
<1>3. Queued' /\ Handoff' /\ Blocking'
  BY <1>a DEF Queued, Handoff, Blocking, TypeOK, MutexTypeOK, Contexts, schedVars
<1>4. OwnerGranted'
  BY <1>a, ScheduleAssumption DEF OwnerGranted, Granted, TypeOK, MutexTypeOK, Contexts
<1>5. OneHolder'
  BY <1>a, <1>b DEF OneHolder, SpinHolder, TypeOK, MutexTypeOK, Contexts
<1> QED BY <1>b, <1>1, <1>2, <1>3, <1>4, <1>5

(* Nobody waits. *)
LEMMA UnlockFreeInv ==
  ASSUME IInv, NEW t \in Threads, UnlockFree(t), UNCHANGED pc
  PROVE  IInv'
<1> USE DEF IInv, MutexInv, UnlockFree, At, Goto
<1>a. state[t] = "RUNNING" /\ t \notin Elements(blocked) /\ t \notin Sys
  BY RunningNotQueued
<1>b. SchedInv' /\ \A s \in Sys : SpinDeferred(s)' = SpinDeferred(s)
  BY SchedUnchanged
<1>1. TypeOK'
  BY <1>b DEF TypeOK, SchedInv, MutexTypeOK, Contexts, MutexPC
<1>2. SysIdle' /\ Unlocking'
  BY <1>a DEF SysIdle, Unlocking, TypeOK, MutexTypeOK, Contexts
<1>3. Queued' /\ Handoff' /\ Blocking'
  BY <1>a DEF Queued, Handoff, Blocking, TypeOK, MutexTypeOK, Contexts, schedVars
<1>4. OwnerGranted'
  BY <1>a, ScheduleAssumption DEF OwnerGranted, Granted, TypeOK, MutexTypeOK, Contexts
<1>5. OneHolder'
  BY <1>a, <1>b DEF OneHolder, SpinHolder, TypeOK, MutexTypeOK, Contexts
<1> QED BY <1>b, <1>1, <1>2, <1>3, <1>4, <1>5

(* mutex_unlock releases the spinlock. *)
LEMMA UnlockRetInv ==
  ASSUME IInv, NEW t \in Threads, UnlockRet(t), UNCHANGED pc
  PROVE  IInv'
<1> USE DEF IInv, MutexInv, UnlockRet, At, Goto, spinlock_unlock
<1>a. state[t] = "RUNNING" /\ t \notin Elements(blocked) /\ t \notin Sys
  BY RunningNotQueued
<1>b. SchedInv' /\ \A s \in Sys : SpinDeferred(s)' = SpinDeferred(s)
  BY SchedUnchanged
<1>1. TypeOK'
  BY <1>b DEF TypeOK, SchedInv, MutexTypeOK, Contexts, MutexPC
<1>2. SysIdle' /\ Unlocking'
  BY <1>a DEF SysIdle, Unlocking, TypeOK, MutexTypeOK, Contexts
<1>3. Queued' /\ Handoff' /\ Blocking'
  BY <1>a DEF Queued, Handoff, Blocking, TypeOK, MutexTypeOK, Contexts, schedVars
<1>4. OwnerGranted'
  BY <1>a, ScheduleAssumption DEF OwnerGranted, Granted, Unlocking, TypeOK, MutexTypeOK, Contexts
<1>5. OneHolder'
  BY <1>a, <1>b DEF OneHolder, SpinHolder, TypeOK, MutexTypeOK, Contexts
<1> QED BY <1>b, <1>1, <1>2, <1>3, <1>4, <1>5

(* A thread calls mutex_lock. *)
LEMMA CallLockInv ==
  ASSUME IInv, NEW t \in Threads, CallLock(t)
  PROVE  IInv'
<1> USE DEF IInv, MutexInv, CallLock, At, Goto
<1>a. state[t] = "RUNNING" /\ t \notin Elements(blocked) /\ t \notin Sys
  BY RunningNotQueued
<1>b. SchedInv' /\ \A s \in Sys : SpinDeferred(s)' = SpinDeferred(s)
  BY SchedUnchanged
<1>1. TypeOK'
  BY <1>b DEF TypeOK, SchedInv, MutexTypeOK, Contexts, MutexPC
<1>2. SysIdle' /\ Unlocking'
  BY <1>a DEF SysIdle, Unlocking, TypeOK, MutexTypeOK, Contexts
<1>3. Queued' /\ Handoff' /\ Blocking'
  BY <1>a DEF Queued, Handoff, Blocking, TypeOK, MutexTypeOK, Contexts, schedVars
<1>4. OwnerGranted'
  BY <1>a, ScheduleAssumption DEF OwnerGranted, Granted, TypeOK, MutexTypeOK, Contexts
<1>5. OneHolder'
  BY <1>a, <1>b DEF OneHolder, SpinHolder, TypeOK, MutexTypeOK, Contexts
<1> QED BY <1>b, <1>1, <1>2, <1>3, <1>4, <1>5

(* A thread calls mutex_unlock. *)
LEMMA CallUnlockInv ==
  ASSUME IInv, NEW t \in Threads, CallUnlock(t)
  PROVE  IInv'
<1> USE DEF IInv, MutexInv, CallUnlock, At, Goto
<1>a. state[t] = "RUNNING" /\ t \notin Elements(blocked) /\ t \notin Sys
  BY RunningNotQueued
<1>b. SchedInv' /\ \A s \in Sys : SpinDeferred(s)' = SpinDeferred(s)
  BY SchedUnchanged
<1>1. TypeOK'
  BY <1>b DEF TypeOK, SchedInv, MutexTypeOK, Contexts, MutexPC
<1>2. SysIdle' /\ Unlocking'
  BY <1>a DEF SysIdle, Unlocking, TypeOK, MutexTypeOK, Contexts
<1>3. Queued' /\ Handoff' /\ Blocking'
  BY <1>a DEF Queued, Handoff, Blocking, TypeOK, MutexTypeOK, Contexts, schedVars
<1>4. OwnerGranted'
  BY <1>a, ScheduleAssumption DEF OwnerGranted, Granted, TypeOK, MutexTypeOK, Contexts
<1>5. OneHolder'
  BY <1>a, <1>b DEF OneHolder, SpinHolder, TypeOK, MutexTypeOK, Contexts
<1> QED BY <1>b, <1>1, <1>2, <1>3, <1>4, <1>5

(* The mutex is handed to the head of the queue. *)
LEMMA UnlockGiveInv ==
  ASSUME IInv, NEW t \in Threads, UnlockGive(t), UNCHANGED pc
  PROVE  IInv'
<1> USE DEF IInv, MutexInv, UnlockGive, At, Goto
<1> DEFINE u == Head(blocked)
<1>a. state[t] = "RUNNING" /\ t \notin Elements(blocked) /\ t \notin Sys
  BY RunningNotQueued
<1>b. SchedInv' /\ \A s \in Sys : SpinDeferred(s)' = SpinDeferred(s)
  BY SchedUnchanged
<1>c. /\ u \in Threads /\ u \in Elements(blocked)
      /\ blocked' \in Seq(Threads)
      /\ Elements(blocked) = {u} \cup Elements(blocked')
      /\ NoDuplicate(blocked')
      /\ u \notin Elements(blocked')
  BY ElementsTail, NoDuplicateTail DEF TypeOK, MutexTypeOK, Queued
<1>d. mpc[u] = "woken" /\ state[u] = "BLOCKED" /\ u # t
  BY <1>a, <1>c DEF Queued
<1>e. owner = t /\ \A v \in Threads : nextThread[v] = NULL
  <2>1. owner = t
    BY DEF OwnerGranted, Granted
  <2>2. ASSUME NEW v \in Threads, nextThread[v] # NULL PROVE FALSE
    <3>1. Granted(nextThread[v]) /\ nextThread[v] \in Threads
      BY <2>2 DEF Handoff, Granted, TypeOK, MutexTypeOK, Contexts
    <3>2. nextThread[v] = t
      BY <2>1, <3>1 DEF OwnerGranted
    <3> QED BY <2>2, <3>2 DEF Handoff
  <2> QED BY <2>1, <2>2
<1> HIDE DEF u
<1>f. owner' = u /\ nextThread' = [nextThread EXCEPT ![t] = u]
  BY DEF u
<1>1. TypeOK'
  BY <1>b, <1>c, <1>f DEF TypeOK, SchedInv, MutexTypeOK, Contexts, MutexPC
<1>2. SysIdle' /\ Unlocking'
  BY <1>a DEF SysIdle, Unlocking, TypeOK, MutexTypeOK, Contexts
<1>3. Queued'
  BY <1>a, <1>c, <1>d DEF Queued, TypeOK, MutexTypeOK, Contexts, schedVars
<1>4. Handoff'
  BY <1>a, <1>c, <1>d, <1>e, <1>f DEF Handoff, TypeOK, MutexTypeOK, Contexts, schedVars
<1>5. Blocking'
  <2>1. ASSUME NEW s \in Sys, spc[s] = "enter", state[current[s]] = "BLOCKED"
        PROVE  current[s] # u
    BY <2>1 DEF Blocking, OneHolder, SpinHolder, SpinDeferred
  <2> QED BY <1>c, <2>1 DEF Blocking, schedVars
<1>6. OwnerGranted'
  BY <1>a, <1>c, <1>d, <1>e, <1>f DEF OwnerGranted, Granted, Unlocking, TypeOK, MutexTypeOK, Contexts
<1>7. OneHolder'
  BY <1>a, <1>b DEF OneHolder, SpinHolder, TypeOK, MutexTypeOK, Contexts
<1> QED BY <1>b, <1>1, <1>2, <1>3, <1>4, <1>5, <1>6, <1>7

-----------------------------------------------------------------------------
(* Steps in which a thread gives up its system thread or is woken. *)

(* The thread queues up and blocks, with the spinlock. *)
LEMMA LockQueueInv ==
  ASSUME IInv, NEW t \in Threads, LockQueue(t), UNCHANGED pc
  PROVE  IInv'
<1> USE DEF IInv, MutexInv, LockQueue, At, Goto
<1>a. state[t] = "RUNNING" /\ t \notin Elements(blocked) /\ t \notin Sys
  BY RunningNotQueued
<1>b. PICK s \in Sys : cond_wait(s, t, "SPINLOCK")
  OBVIOUS
<1>c. SchedInv'
  BY <1>b, CondWaitInv DEF LockType
<1>d. /\ blocked' \in Seq(Threads)
      /\ Elements(blocked') = Elements(blocked) \cup {t}
      /\ NoDuplicate(blocked')
  BY <1>a, ElementsAppend, NoDuplicateAppend DEF TypeOK, MutexTypeOK, Queued
<1>e. /\ state' = [state EXCEPT ![t] = "BLOCKED"]
      /\ lock_type' = [lock_type EXCEPT ![t] = "SPINLOCK"]
      /\ spc' = [spc EXCEPT ![s] = "enter"]
      /\ current[s] = t /\ spc[s] = "green" /\ current' = current
      /\ lock_tpe' = lock_tpe
  BY <1>b DEF cond_wait, OnCpu
<1>f. \A r \in Sys \ {s} : spc[r] \in {"green", "enter"} => current[r] # t
  BY <1>e, HeldAlone DEF Held
<1>g. SpinDeferred(s)' /\ \A r \in Sys \ {s} : SpinDeferred(r)' = SpinDeferred(r)
  BY <1>e, <1>f DEF SpinDeferred, TypeOK, SchedTypeOK
<1>1. TypeOK'
  BY <1>c, <1>d DEF TypeOK, SchedInv, MutexTypeOK, Contexts, MutexPC
<1>2. SysIdle' /\ Unlocking'
  BY <1>a DEF SysIdle, Unlocking, TypeOK, MutexTypeOK, Contexts
<1>3. Queued'
  BY <1>a, <1>d, <1>e DEF Queued, TypeOK, MutexTypeOK, SchedTypeOK, Contexts
<1>4. Handoff'
  BY <1>a, <1>d, <1>e DEF Handoff, TypeOK, MutexTypeOK, SchedTypeOK, Contexts
<1>5. Blocking'
  BY <1>a, <1>d, <1>e, <1>f DEF Blocking, TypeOK, SchedTypeOK
<1>6. OwnerGranted'
  BY <1>a, <1>d DEF OwnerGranted, Granted, TypeOK, MutexTypeOK, Contexts
<1>7. OneHolder'
  BY <1>a, <1>g DEF OneHolder, SpinHolder, TypeOK, MutexTypeOK, Contexts
<1> QED BY <1>c, <1>1, <1>2, <1>3, <1>4, <1>5, <1>6, <1>7

(* The new owner is made runnable. *)
LEMMA UnlockWakeInv ==
  ASSUME IInv, NEW t \in Threads, UnlockWake(t), UNCHANGED pc
  PROVE  IInv'
<1> USE DEF IInv, MutexInv, UnlockWake, At, Goto
<1> DEFINE u == nextThread[t]
<1>a. state[t] = "RUNNING" /\ t \notin Elements(blocked) /\ t \notin Sys
  BY RunningNotQueued
<1>b. /\ u \in Threads /\ u \notin Elements(blocked) /\ state[u] = "BLOCKED"
      /\ \A v \in Threads \ {t} : nextThread[v] = NULL
  BY DEF Handoff, TypeOK, MutexTypeOK, Contexts
<1>c. \A s \in Sys : spc[s] = "enter" => current[s] # u
  BY <1>b DEF Blocking
<1>d. SchedInv'
  BY <1>b, <1>c, UnblockInv
<1>e. /\ state' = [state EXCEPT ![u] = "RUNNABLE"]
      /\ UNCHANGED <<lock_type, current, spc, lock_tpe>>
  BY DEF tsafe_unblock_thread
<1> HIDE DEF u
<1>f. \A s \in Sys : SpinDeferred(s)' = SpinDeferred(s)
  BY <1>b, <1>c, <1>e DEF SpinDeferred, TypeOK, SchedTypeOK
<1>1. TypeOK'
  BY <1>d DEF TypeOK, SchedInv, MutexTypeOK, Contexts, MutexPC
<1>2. SysIdle' /\ Unlocking'
  BY <1>a DEF SysIdle, Unlocking, TypeOK, MutexTypeOK, Contexts
<1>3. Queued'
  BY <1>a, <1>b, <1>e DEF Queued, TypeOK, MutexTypeOK, SchedTypeOK, Contexts
<1>4. Handoff'
  BY <1>a, <1>b, <1>e DEF Handoff, TypeOK, MutexTypeOK, SchedTypeOK, Contexts
<1>5. Blocking'
  BY <1>b, <1>c, <1>e DEF Blocking, TypeOK, SchedTypeOK
<1>6. OwnerGranted'
  BY <1>a DEF OwnerGranted, Granted, Unlocking, TypeOK, MutexTypeOK, Contexts
<1>7. OneHolder'
  BY <1>a, <1>f DEF OneHolder, SpinHolder, TypeOK, MutexTypeOK, Contexts
<1> QED BY <1>d, <1>1, <1>2, <1>3, <1>4, <1>5, <1>6, <1>7

(* The thread yields in the critical section, or ends outside. *)
LEMMA SwitchOutInv ==
  ASSUME IInv, NEW t \in Threads, YieldInside(t) \/ Exit(t)
  PROVE  IInv'
<1> USE DEF IInv, MutexInv, YieldInside, Exit, At, lockVars
<1>a. state[t] = "RUNNING" /\ t \notin Elements(blocked) /\ t \notin Sys
  BY RunningNotQueued
<1>b. PICK s \in Sys, st \in {"RUNNING", "ZOMBIE"} : yield(s, t, st)
  OBVIOUS
<1>c. SchedInv'
  BY <1>b, YieldInv
<1>d. /\ state' = [state EXCEPT ![t] = st]
      /\ spc' = [spc EXCEPT ![s] = "enter"]
      /\ current[s] = t /\ spc[s] = "green"
      /\ UNCHANGED <<current, lock_type, lock_tpe>>
  BY <1>b DEF yield, OnCpu
<1>e. \A r \in Sys \ {s} : spc[r] \in {"green", "enter"} => current[r] # t
  BY <1>d, HeldAlone DEF Held
<1>f. \A r \in Sys : SpinDeferred(r)' = SpinDeferred(r)
  BY <1>d, <1>e DEF SpinDeferred, TypeOK, SchedTypeOK
<1>g. mpc[t] = "idle"
  OBVIOUS
<1>1. TypeOK'
  BY <1>c DEF TypeOK, SchedInv, MutexTypeOK
<1>2. SysIdle' /\ Unlocking'
  BY <1>g DEF SysIdle, Unlocking, TypeOK
<1>3. Queued'
  BY <1>a, <1>d DEF Queued, TypeOK, MutexTypeOK, SchedTypeOK
<1>4. Handoff'
  BY <1>a, <1>d, <1>g DEF Handoff, TypeOK, MutexTypeOK, SchedTypeOK, Contexts
<1>5. Blocking'
  BY <1>b, <1>d, <1>e DEF Blocking, TypeOK, SchedTypeOK
<1>6. OwnerGranted'
  BY <1>g DEF OwnerGranted, Granted, TypeOK, MutexTypeOK
<1>7. OneHolder'
  BY <1>f DEF OneHolder, SpinHolder
<1> QED BY <1>c, <1>1, <1>2, <1>3, <1>4, <1>5, <1>6, <1>7

-----------------------------------------------------------------------------
(* Steps of schedule(). *)

(* The spinlock of a blocked thread is released, off its stack. *)
LEMMA ReleaseSpinlockInv ==
  ASSUME IInv, NEW s \in Sys, ReleaseSpinlock(s), UNCHANGED pc
  PROVE  IInv'
<1> USE DEF IInv, MutexInv, ReleaseSpinlock, spinlock_unlock
<1>a. SchedInv'
  <2>1. SchedTypeOK' /\ Hands'
    BY DEF SchedInv, SchedTypeOK, LockType, Hands
  <2>2. StatesMatch'
    BY DEF SchedInv, StatesMatch
  <2>3. OnePlace'
    BY DEF SchedInv, OnePlace, Held
  <2> QED BY <2>1, <2>2, <2>3 DEF SchedInv
<1>b. SpinDeferred(s)
  BY DEF SpinDeferred
<1>c. ~SpinDeferred(s)' /\ \A r \in Sys \ {s} : SpinDeferred(r)' = SpinDeferred(r)
  BY DEF SpinDeferred, TypeOK, SchedTypeOK
<1>1. TypeOK'
  BY <1>a DEF TypeOK, SchedInv, MutexTypeOK
<1>2. (SysIdle /\ Unlocking /\ Queued /\ Handoff /\ Blocking)'
  BY DEF SysIdle, Unlocking, Queued, Handoff, Blocking
<1>3. OwnerGranted'
  BY DEF OwnerGranted, Granted
<1>4. OneHolder'
  BY <1>b, <1>c DEF OneHolder, SpinHolder
<1> QED BY <1>a, <1>1, <1>2, <1>3, <1>4

(* The other steps leave the mutex alone, and change no thread that blocks. *)
LEMMA ScheduleInv ==
  ASSUME IInv, NEW s \in Sys, Schedule(s), UNCHANGED pc
  PROVE  IInv'
<1> USE DEF IInv, MutexInv, lockVars
<1>a. SchedInv'
  BY EnterUnblockedInv, EnterBlockedInv, ReleasedInv, SelectNextInv, SelectNoneInv,
     ParkInv DEF Schedule
<1>b. UNCHANGED lockVars
  BY DEF Schedule
<1>c. \A t \in Threads : state[t] = "BLOCKED" <=> state'[t] = "BLOCKED"
  <2>1. CASE EnterUnblocked(s)
    BY <2>1 DEF EnterUnblocked, TypeOK, SchedTypeOK
  <2>2. CASE Park(s)
    BY <2>2 DEF Park, TypeOK, SchedTypeOK, SchedInv, StatesMatch
  <2>3. CASE UNCHANGED state
    BY <2>3
  <2> QED BY <2>1, <2>2, <2>3
          DEF Schedule, EnterBlocked, Released, SelectNext, SelectNone
<1>d. /\ \A r \in Sys : spc'[r] = "enter" => spc[r] = "enter" /\ current'[r] = current[r]
      /\ \A r \in Sys : spc'[r] = "enter" => current[r] \in Threads
  BY DEF Schedule, EnterUnblocked, EnterBlocked, Released, SelectNext, SelectNone, Park,
         TypeOK, SchedTypeOK
<1>e. \A r \in Sys : SpinDeferred(r)' = SpinDeferred(r)
  <2>1. CASE EnterBlocked(s)
    <3>1. \A r \in Sys \ {s} : spc[r] = "enter" => current[r] # current[s]
      BY <2>1, HeldAlone DEF EnterBlocked, Held
    <3> QED BY <2>1, <3>1 DEF EnterBlocked, SpinDeferred, TypeOK, SchedTypeOK
  <2>2. CASE ~EnterBlocked(s)
    <3>1. UNCHANGED <<lock_type, lock_tpe>>
      BY <2>2 DEF Schedule, EnterUnblocked, Released, SelectNext, SelectNone, Park
    <3>2. ~SpinDeferred(s) /\ ~SpinDeferred(s)'
      BY <2>2 DEF Schedule, EnterUnblocked, Released, SelectNext, SelectNone, Park,
                  SpinDeferred, TypeOK, SchedTypeOK
    <3>3. \A r \in Sys \ {s} : spc'[r] = spc[r] /\ current'[r] = current[r]
      BY <2>2 DEF Schedule, EnterUnblocked, Released, SelectNext, SelectNone, Park,
                  TypeOK, SchedTypeOK
    <3> QED BY <1>c, <3>1, <3>2, <3>3 DEF SpinDeferred, TypeOK, SchedTypeOK
  <2> QED BY <2>1, <2>2
<1>1. TypeOK'
  BY <1>a, <1>b DEF TypeOK, SchedInv, MutexTypeOK
<1>2. (SysIdle /\ Unlocking)'
  BY <1>b DEF SysIdle, Unlocking
<1>3. (Queued /\ Handoff)'
  BY <1>b, <1>c, ElementsType DEF Queued, Handoff, TypeOK, MutexTypeOK, Contexts
<1>4. Blocking'
  <2>1. ASSUME NEW r \in Sys, spc'[r] = "enter", state'[current'[r]] = "BLOCKED"
        PROVE  current'[r] \in Elements(blocked') /\ lock_type'[current'[r]] = "SPINLOCK"
    <3>1. /\ spc[r] = "enter" /\ current'[r] = current[r]
          /\ current[r] \in Threads /\ state[current[r]] = "BLOCKED"
      BY <1>c, <1>d, <2>1
    <3>2. SpinDeferred(r) /\ current[r] \in Elements(blocked)
      BY <3>1 DEF Blocking, SpinDeferred
    <3>3. SpinDeferred(r)'
      BY <1>e, <3>2
    <3> QED BY <1>b, <2>1, <3>1, <3>2, <3>3 DEF SpinDeferred
  <2> QED BY <2>1 DEF Blocking
<1>5. OwnerGranted'
  BY <1>b DEF OwnerGranted, Granted
<1>6. OneHolder'
  BY <1>b, <1>e DEF OneHolder, SpinHolder
<1> QED BY <1>a, <1>1, <1>2, <1>3, <1>4, <1>5, <1>6

-----------------------------------------------------------------------------
(* The theorems. *)

(* The invariant holds when the threads have been created. *)
LEMMA InitInv == Init => IInv
<1> SUFFICES ASSUME Init PROVE IInv
  OBVIOUS
<1> USE DEF Init, mutex_init
<1>1. SchedInv
  BY SchedInitInv
<1>2. TypeOK
  BY <1>1 DEF SchedInv, TypeOK, MutexTypeOK, MutexPC
<1>3. SysIdle /\ Unlocking /\ Queued /\ Handoff
  BY ElementsEmpty DEF SysIdle, Unlocking, Queued, Handoff, Contexts, NoDuplicate
<1>4. Blocking
  BY DEF SchedInit, Blocking
<1>5. OwnerGranted
  BY DEF OwnerGranted, Granted, Contexts
<1>6. OneHolder
  BY DEF OneHolder, SpinHolder, SpinDeferred, SchedInit, Contexts
<1> QED BY <1>1, <1>2, <1>3, <1>4, <1>5, <1>6 DEF IInv, MutexInv

(* Every step preserves it. *)
LEMMA NextInv ==
  ASSUME IInv, [Next]_vars
  PROVE  IInv'
<1>1. CASE \E t \in Threads : Thread(t)
  <2>1. PICK t \in Threads : Thread(t)
    BY <1>1
  <2>2. CASE Program(t)
    BY <2>2, CallLockInv, SwitchOutInv, CallUnlockInv DEF Program
  <2>3. CASE mutex_lock(t) /\ UNCHANGED pc
    BY <2>3, LockSpinInv, LockTakeInv, LockQueueInv, LockRespinInv, LockCheckInv, LockRetInv
       DEF mutex_lock
  <2>4. CASE mutex_unlock(t) /\ UNCHANGED pc
    BY <2>4, UnlockSpinInv, UnlockFreeInv, UnlockGiveInv, UnlockRetInv, UnlockWakeInv
       DEF mutex_unlock
  <2> QED BY <2>1, <2>2, <2>3, <2>4 DEF Thread
<1>2. CASE \E s \in Sys : System(s)
  BY <1>2, ScheduleInv, ReleaseSpinlockInv DEF System
<1>3. CASE UNCHANGED vars
  <2> USE <1>3 DEF vars, lockVars
  <2>1. SchedInv' /\ \A s \in Sys : SpinDeferred(s)' = SpinDeferred(s)
    BY SchedUnchanged DEF IInv
  <2>2. TypeOK'
    BY <2>1 DEF IInv, TypeOK, SchedInv, MutexTypeOK
  <2>3. MutexInv'
    BY <2>1 DEF IInv, MutexInv, SysIdle, Unlocking, Queued, Handoff, Blocking, OwnerGranted,
                Granted, OneHolder, SpinHolder, schedVars
  <2> QED BY <2>1, <2>2, <2>3 DEF IInv
<1> QED BY <1>1, <1>2, <1>3 DEF Next, Terminated

(* The invariant holds in every reachable state. *)
THEOREM Invariance == Spec => []IInv
<1>1. Init => IInv
  BY InitInv
<1>2. IInv /\ [Next]_vars => IInv'
  BY NextInv
<1> QED BY <1>1, <1>2, PTL DEF Spec

(* Type correctness. *)
THEOREM TypeCorrect == Spec => []TypeOK
<1>1. IInv => TypeOK
  BY DEF IInv
<1> QED BY <1>1, Invariance, PTL

(* A green thread is never on two system threads, nor RUNNABLE while it runs
   (schedule.c:63-223, utils.c:25-47). *)
THEOREM ThreadInOnePlace == Spec => []OnePlace
<1>1. IInv => OnePlace
  BY DEF IInv, SchedInv
<1> QED BY <1>1, Invariance, PTL

(* Two threads are never both between the return of mutex_lock and the moment
   mutex_unlock gives the mutex away, and the one that is owns it (mutex.c). *)
THEOREM MutexExcludes == Spec => []MutualExclusion
<1>1. IInv => MutualExclusion
  <2> SUFFICES ASSUME IInv, NEW t \in Threads, Inside(t)
               PROVE  owner = t /\ \A u \in Threads \ {t} : ~Inside(u)
    BY DEF MutualExclusion
  <2>1. \A u \in Threads : Inside(u) => owner = u
    BY DEF IInv, MutexInv, OwnerGranted, Granted, Inside
  <2> QED BY <2>1
<1> QED BY <1>1, Invariance, PTL

(* The spinlock is taken exactly when one context has to release it: the
   assertion of spinlock_unlock (spinlock.c:23-24) never fails. *)
THEOREM SpinlockReleasedOnce == Spec => []SpinlockHeld
<1>1. IInv => SpinlockHeld
  <2> SUFFICES ASSUME IInv PROVE SpinlockHeld
    OBVIOUS
  <2>1. \A s \in Sys : ~SpinHolder(s)
    BY DEF IInv, MutexInv, SysIdle, SpinHolder
  <2> QED BY <2>1 DEF IInv, MutexInv, OneHolder, SpinlockHeld, Contexts
<1> QED BY <1>1, Invariance, PTL

-----------------------------------------------------------------------------
(* In mutex_lock a thread is on its way to the critical section. *)
Locking ==
  \A t \in Threads :
    mpc[t] \in {"lock_spin", "lock_try", "woken", "lock_check", "lock_ret"} => pc[t] = "cs"

(* Threads wait for an owner, and the owner was granted the mutex. *)
Owned ==
  /\ blocked # <<>> => owner # NULL
  /\ owner # NULL => Granted(owner)

(* A thread that sleeps and is in no queue is in the hands of a waker. *)
WakerExists ==
  \A t \in Threads : state[t] = "BLOCKED" /\ t \notin Elements(blocked) =>
    \E c \in Threads : nextThread[c] = t

(* A lock is left for schedule() by a thread that is about to get there. *)
LockTypes ==
  \A t \in Threads : lock_type[t] # "NONE" =>
    \E s \in Sys : spc[s] = "enter" /\ current[s] = t /\ state[t] = "BLOCKED"

WInv == Locking /\ Owned /\ WakerExists /\ LockTypes

-----------------------------------------------------------------------------
(* Nothing is owned or left behind at the start. *)
LEMMA InitWInv == Init => WInv
<1> SUFFICES ASSUME Init PROVE WInv
  OBVIOUS
<1>1. Locking /\ Owned
  BY DEF Init, mutex_init, Contexts, Locking, Owned
<1>2. WakerExists /\ LockTypes
  BY DEF Init, SchedInit, WakerExists, LockTypes
<1> QED BY <1>1, <1>2 DEF WInv

(* The thread in the queue that is granted the mutex is another one. *)
LEMMA HeadOfQueue ==
  ASSUME IInv, blocked # <<>>
  PROVE  /\ Head(blocked) \in Threads
         /\ mpc[Head(blocked)] = "woken"
         /\ Elements(blocked) = {Head(blocked)} \cup Elements(Tail(blocked))
         /\ Head(blocked) \notin Elements(Tail(blocked))
BY ElementsTail, NoDuplicateTail DEF IInv, TypeOK, MutexTypeOK, MutexInv, Queued

(* What a step of mutex_lock or mutex_unlock does to the owner. *)
LEMMA LockStepOwned ==
  ASSUME IInv, WInv, NEW t \in Threads, mutex_lock(t) \/ mutex_unlock(t), UNCHANGED pc
  PROVE  Locking' /\ Owned'
<1> USE DEF IInv, TypeOK, MutexTypeOK, Contexts, WInv, Locking, Owned, At, Goto
<1>a. state[t] = "RUNNING" /\ t \notin Elements(blocked) /\ t \notin Sys /\ NULL \notin Threads
  BY RunningNotQueued, ScheduleAssumption
     DEF mutex_lock, mutex_unlock, LockSpin, LockTake, LockQueue, LockRespin, LockCheck,
         LockRet, UnlockSpin, UnlockFree, UnlockGive, UnlockRet, UnlockWake
<1>1. CASE LockSpin(t) \/ LockTake(t) \/ LockRespin(t) \/ LockCheck(t) \/ LockRet(t)
  BY <1>1, <1>a DEF LockSpin, LockTake, LockRespin, LockCheck, LockRet, Granted,
                    MutexInv, OwnerGranted
<1>2. CASE LockQueue(t)
  <2>1. Elements(blocked') = Elements(blocked) \cup {t}
    BY <1>2, ElementsAppend DEF LockQueue
  <2> QED BY <1>2, <1>a, <2>1 DEF LockQueue, Granted
<1>3. CASE UnlockSpin(t) \/ UnlockFree(t) \/ UnlockRet(t) \/ UnlockWake(t)
  BY <1>3, <1>a DEF UnlockSpin, UnlockFree, UnlockRet, UnlockWake, Granted
<1>4. CASE UnlockGive(t)
  <2>1. /\ owner' \in Threads /\ mpc[owner'] = "woken" /\ owner' # t
        /\ owner' \notin Elements(blocked')
    BY <1>4, HeadOfQueue DEF UnlockGive
  <2> QED BY <1>4, <1>a, <2>1 DEF UnlockGive, Granted
<1> QED BY <1>1, <1>2, <1>3, <1>4 DEF mutex_lock, mutex_unlock

(* What it does to sleeping threads. *)
LEMMA LockStepWakers ==
  ASSUME IInv, WInv, NEW t \in Threads, mutex_lock(t) \/ mutex_unlock(t), UNCHANGED pc
  PROVE  WakerExists' /\ LockTypes'
<1> USE DEF IInv, TypeOK, MutexTypeOK, SchedTypeOK, Contexts, WInv, WakerExists, LockTypes, At, Goto
<1>a. state[t] = "RUNNING" /\ t \notin Elements(blocked) /\ t \notin Sys /\ NULL \notin Threads
  BY RunningNotQueued, ScheduleAssumption
     DEF mutex_lock, mutex_unlock, LockSpin, LockTake, LockQueue, LockRespin, LockCheck,
         LockRet, UnlockSpin, UnlockFree, UnlockGive, UnlockRet, UnlockWake
<1>1. CASE UNCHANGED <<schedVars, blocked, nextThread>>
  BY <1>1 DEF schedVars
<1>2. CASE LockQueue(t)
  <2>1. Elements(blocked') = Elements(blocked) \cup {t}
    BY <1>2, ElementsAppend DEF LockQueue
  <2>2. PICK s \in Sys : cond_wait(s, t, "SPINLOCK")
    BY <1>2 DEF LockQueue
  <2>3. WakerExists'
    BY <1>2, <2>1, <2>2 DEF LockQueue, cond_wait
  <2>4. LockTypes'
    BY <2>2 DEF cond_wait, OnCpu
  <2> QED BY <2>3, <2>4
<1>3. CASE UnlockGive(t)
  <2>1. nextThread[t] = NULL
    BY <1>3 DEF UnlockGive, MutexInv, Handoff
  <2>2. Elements(blocked) = {Head(blocked)} \cup Elements(blocked') /\ Head(blocked) \in Threads
    BY <1>3, HeadOfQueue DEF UnlockGive
  <2>3. WakerExists'
    BY <1>3, <1>a, <2>1, <2>2 DEF UnlockGive, schedVars
  <2> QED BY <1>3, <2>3 DEF UnlockGive, schedVars
<1>4. CASE UnlockWake(t)
  <2> DEFINE u == nextThread[t]
  <2>1. u \in Threads /\ u \notin Elements(blocked)
    BY <1>4 DEF UnlockWake, MutexInv, Handoff
  <2>2. \A s \in Sys : spc[s] = "enter" /\ state[current[s]] = "BLOCKED" => current[s] # u
    BY <2>1 DEF MutexInv, Blocking
  <2>3. /\ state' = [state EXCEPT ![u] = "RUNNABLE"]
        /\ nextThread' = [nextThread EXCEPT ![t] = NULL]
        /\ UNCHANGED <<blocked, lock_type, spc, current>>
    BY <1>4 DEF UnlockWake, tsafe_unblock_thread
  <2> HIDE DEF u
  <2>4. WakerExists'
    <3> SUFFICES ASSUME NEW v \in Threads, state'[v] = "BLOCKED", v \notin Elements(blocked)
                 PROVE  \E c \in Threads : nextThread'[c] = v
      BY <2>3
    <3>1. v # u /\ state[v] = "BLOCKED"
      BY <2>1, <2>3
    <3>2. PICK c \in Threads : nextThread[c] = v
      BY <3>1
    <3>3. c # t
      BY <3>1, <3>2 DEF u
    <3> QED BY <2>3, <3>2, <3>3
  <2>5. LockTypes'
    BY <2>1, <2>2, <2>3
  <2> QED BY <2>4, <2>5
<1> QED BY <1>1, <1>2, <1>3, <1>4
        DEF mutex_lock, mutex_unlock, LockSpin, LockTake, LockRespin, LockCheck,
            LockRet, UnlockSpin, UnlockFree, UnlockRet

(* The program calls the mutex, yields or ends. *)
LEMMA ProgramWInv ==
  ASSUME IInv, WInv, NEW t \in Threads, Program(t)
  PROVE  WInv'
<1> USE DEF IInv, TypeOK, MutexTypeOK, Contexts, WInv, At, Goto, lockVars
<1>a. state[t] = "RUNNING" /\ t \notin Elements(blocked) /\ t \notin Sys /\ NULL \notin Threads
  BY RunningNotQueued, ScheduleAssumption DEF Program, CallLock, CallUnlock, YieldInside, Exit
<1>1. Locking' /\ Owned'
  BY <1>a DEF Program, CallLock, CallUnlock, YieldInside, Exit, Locking, Owned, Granted
<1>2. CASE CallLock(t) \/ CallUnlock(t)
  BY <1>2, <1>1 DEF CallLock, CallUnlock, WakerExists, LockTypes, schedVars
<1>3. CASE YieldInside(t) \/ Exit(t)
  <2>1. PICK s \in Sys, st \in {"RUNNING", "ZOMBIE"} : yield(s, t, st)
    BY <1>3 DEF YieldInside, Exit
  <2>2. /\ state' = [state EXCEPT ![t] = st]
        /\ spc' = [spc EXCEPT ![s] = "enter"] /\ spc[s] = "green"
        /\ UNCHANGED <<lock_type, current, blocked, nextThread>>
    BY <1>3, <2>1 DEF yield, OnCpu, YieldInside, Exit
  <2>3. WakerExists' /\ LockTypes'
    BY <1>a, <2>2 DEF WakerExists, LockTypes, SchedTypeOK
  <2> QED BY <1>1, <2>3
<1> QED BY <1>2, <1>3 DEF Program

(* schedule() takes a lock from a thread before the thread can be woken. *)
LEMMA SystemWInv ==
  ASSUME IInv, WInv, NEW s \in Sys, System(s)
  PROVE  WInv'
<1> USE DEF IInv, TypeOK, MutexTypeOK, SchedTypeOK, Contexts, WInv, lockVars
<1>1. UNCHANGED <<owner, blocked, mpc, nextThread, pc>>
  BY DEF System, Schedule, ReleaseSpinlock
<1>2. Locking' /\ Owned'
  BY <1>1 DEF Locking, Owned, Granted
<1>3. \A t \in Threads : state[t] = "BLOCKED" <=> state'[t] = "BLOCKED"
  <2>1. CASE EnterUnblocked(s)
    BY <2>1 DEF EnterUnblocked
  <2>2. CASE Park(s)
    BY <2>2 DEF Park, SchedInv, StatesMatch
  <2>3. CASE UNCHANGED state
    BY <2>3
  <2> QED BY <2>1, <2>2, <2>3
          DEF System, Schedule, ReleaseSpinlock, EnterBlocked, Released, SelectNext, SelectNone
<1>4. WakerExists'
  BY <1>1, <1>3 DEF WakerExists
<1>5. LockTypes'
  <2> SUFFICES ASSUME NEW t \in Threads, lock_type'[t] # "NONE"
               PROVE  \E r \in Sys : spc'[r] = "enter" /\ current'[r] = t /\ state'[t] = "BLOCKED"
    BY DEF LockTypes
  <2>1. lock_type[t] # "NONE" /\ (EnterBlocked(s) => t # current[s])
    BY DEF System, Schedule, ReleaseSpinlock, EnterUnblocked, EnterBlocked, Released,
           SelectNext, SelectNone, Park
  <2>2. PICK r \in Sys : spc[r] = "enter" /\ current[r] = t /\ state[t] = "BLOCKED"
    BY <2>1 DEF LockTypes
  <2>3. r # s \/ ReleaseSpinlock(s)
    BY <2>1, <2>2 DEF System, Schedule, EnterUnblocked, Released, SelectNext, SelectNone, Park
  <2>4. spc'[r] = spc[r] /\ current'[r] = current[r]
    BY <2>3 DEF System, Schedule, ReleaseSpinlock, EnterUnblocked, EnterBlocked, Released,
                SelectNext, SelectNone, Park
  <2> QED BY <1>3, <2>2, <2>4
<1> QED BY <1>2, <1>4, <1>5

(* Every step preserves it. *)
LEMMA NextWInv ==
  ASSUME IInv, WInv, [Next]_vars
  PROVE  WInv'
<1>1. CASE \E t \in Threads : Thread(t)
  BY <1>1, ProgramWInv, LockStepOwned, LockStepWakers DEF Thread, WInv
<1>2. CASE \E s \in Sys : System(s)
  BY <1>2, SystemWInv
<1>3. CASE UNCHANGED vars
  BY <1>3 DEF vars, lockVars, schedVars, WInv, Locking, Owned, Granted, WakerExists, LockTypes
<1> QED BY <1>1, <1>2, <1>3 DEF Next, Terminated

(* The invariant holds in every reachable state. *)
THEOREM WInvariance == Spec => [](IInv /\ WInv)
<1>1. Init => IInv /\ WInv
  BY InitInv, InitWInv
<1>2. (IInv /\ WInv) /\ [Next]_vars => (IInv /\ WInv)'
  BY NextInv, NextWInv
<1> QED BY <1>1, <1>2, PTL DEF Spec
-----------------------------------------------------------------------------
(* The theorems. *)

(* The assertions of mutex_unlock, of the wake-up of its successor and of the
   return of cond_wait never fail (mutex.c:49, utils.c:36-38 and 43-44). *)
THEOREM AssertionsHold == Spec => []AssertsHold
<1>1. IInv /\ WInv => AssertsHold
  <2> SUFFICES ASSUME IInv, WInv PROVE AssertsHold
    OBVIOUS
  <2> USE ScheduleAssumption DEF IInv, MutexInv, TypeOK, MutexTypeOK, Contexts
  <2>1. ASSUME NEW c \in Contexts, mpc[c] = "unlock_give" PROVE owner = CurrentId(c)
    BY <2>1 DEF SysIdle, OwnerGranted, Granted, CurrentId
  <2>2. ASSUME NEW c \in Contexts, mpc[c] = "unlock_wake"
        PROVE  /\ state[nextThread[c]] = "BLOCKED"
               /\ nextThread[c] \notin Elements(blocked) \cup Elements(runnable)
    <3>1. c \in Threads
      BY <2>2 DEF SysIdle
    <3> QED BY <2>2, <3>1 DEF Handoff, SchedInv, StatesMatch
  <2>3. ASSUME NEW s \in Sys, spc[s] = "green"
        PROVE  state[current[s]] = "RUNNING" /\ lock_type[current[s]] = "NONE"
    <3>1. state[current[s]] = "RUNNING" /\ current[s] \in Threads
      BY <2>3 DEF SchedInv, SchedTypeOK, StatesMatch
    <3> QED BY <3>1 DEF WInv, LockTypes
  <2> QED BY <2>1, <2>2, <2>3 DEF AssertsHold
<1> QED BY <1>1, WInvariance, PTL

(* No wake-up is lost, whatever happens between the hand-over of the mutex under
   the spinlock and the wake-up after it (mutex.c:50-62). *)
THEOREM NoWakeupLost == Spec => []WakeupPending
<1>1. IInv /\ WInv => WakeupPending
  <2> SUFFICES ASSUME IInv, WInv PROVE WakeupPending
    OBVIOUS
  <2> DEFINE Wakers(t) == {c \in Contexts : /\ mpc[c] \in {"unlock_ret", "unlock_wake"}
                                            /\ nextThread[c] = t}
  <2> USE ScheduleAssumption DEF IInv, MutexInv, TypeOK, MutexTypeOK, Contexts
  <2>1. ASSUME NEW t \in Threads, t \in Elements(blocked)
        PROVE  owner # NULL /\ Wakers(t) = {}
    <3>1. blocked # <<>>
      BY <2>1, ElementsEmpty
    <3>2. \A c \in Threads : nextThread[c] # t
      BY <2>1 DEF Handoff
    <3> QED BY <3>1, <3>2 DEF WInv, Owned, SysIdle
  <2>2. ASSUME NEW t \in Threads, state[t] = "BLOCKED", t \notin Elements(blocked)
        PROVE  owner = t /\ \E c \in Contexts : Wakers(t) = {c}
    <3>1. PICK c \in Threads : nextThread[c] = t
      BY <2>2 DEF WInv, WakerExists
    <3>2. mpc[t] = "woken" /\ c \in Wakers(t)
      BY <3>1 DEF Handoff
    <3>3. \A d \in Wakers(t) : d = c
      BY <3>1 DEF Handoff, SysIdle
    <3>4. owner = t
      BY <2>2, <3>2 DEF OwnerGranted, Granted
    <3> QED BY <3>2, <3>3, <3>4
  <2> QED BY <2>1, <2>2 DEF WakeupPending
<1> QED BY <1>1, WInvariance, PTL

(* At most the owner is inside. *)
LEMMA InsideOwns ==
  ASSUME IInv
  PROVE  \A t \in Threads : Inside(t) => owner = t
BY DEF IInv, MutexInv, OwnerGranted, Granted, Inside

(* Who is inside, when one thread moves. *)
LEMMA InsideStep ==
  ASSUME IInv, WInv, NEW t \in Threads, Thread(t)
  PROVE  \A u \in Threads \ {t} : Inside(u)' = Inside(u)
BY DEF IInv, TypeOK, MutexTypeOK, Contexts, Inside, Thread, Program, CallLock, CallUnlock,
       YieldInside, Exit, mutex_lock, mutex_unlock, LockSpin, LockTake, LockQueue, LockRespin,
       LockCheck, LockRet, UnlockSpin, UnlockFree, UnlockGive, UnlockRet, UnlockWake, Goto, lockVars

(* A step of a thread is a step of FifoLock, or none. *)
LEMMA ThreadImplements ==
  ASSUME IInv, WInv, NEW t \in Threads, Thread(t)
  PROVE  Fifo!Next \/ UNCHANGED Fifo!vars
<1> DEFINE InsideSet == {u \in Threads : Inside(u)}
<1> USE DEF IInv, MutexInv, TypeOK, MutexTypeOK, Contexts, At, Goto
<1>a. state[t] = "RUNNING" /\ t \notin Elements(blocked) /\ t \notin Sys /\ NULL \notin Threads
  BY RunningNotQueued, ScheduleAssumption
     DEF Thread, Program, CallLock, CallUnlock, YieldInside, Exit,
         mutex_lock, mutex_unlock, LockSpin, LockTake, LockQueue, LockRespin, LockCheck,
         LockRet, UnlockSpin, UnlockFree, UnlockGive, UnlockRet, UnlockWake
<1>b. \A u \in Threads \ {t} : Inside(u)' = Inside(u)
  BY InsideStep
<1>c. \A u \in Threads : Inside(u) => owner = u
  BY InsideOwns
<1>1. CASE UNCHANGED <<owner, blocked>> /\ Inside(t)' = Inside(t)
  <2>1. InsideSet' = InsideSet
    BY <1>1, <1>b
  <2> QED BY <1>1, <2>1 DEF Fifo!vars
<1>2. CASE LockTake(t) /\ UNCHANGED pc
  <2>1. InsideSet' = InsideSet
    BY <1>2, <1>b DEF LockTake, Inside
  <2>2. blocked = <<>>
    BY <1>2 DEF LockTake, WInv, Owned
  <2> QED BY <1>2, <2>1, <2>2 DEF LockTake, Fifo!Next, Fifo!Take
<1>3. CASE LockQueue(t) /\ UNCHANGED pc
  <2>1. InsideSet' = InsideSet
    BY <1>3, <1>b DEF LockQueue, Inside
  <2>2. owner # t
    BY <1>3, <1>a DEF LockQueue, WInv, Owned, Granted
  <2>3. \A i \in DOMAIN blocked : blocked[i] # t
    BY <1>a DEF Elements
  <2> QED BY <1>3, <2>1, <2>2, <2>3 DEF LockQueue, Fifo!Next, Fifo!Wait
<1>4. CASE LockRet(t) /\ UNCHANGED pc
  <2>1. owner = t /\ pc[t] = "cs"
    BY <1>4 DEF LockRet, OwnerGranted, Granted, WInv, Locking
  <2>2. InsideSet = {}
    BY <1>4, <1>c, <2>1 DEF LockRet, Inside
  <2>3. InsideSet' = {t}
    BY <1>4, <1>b, <2>1, <2>2 DEF LockRet, Inside
  <2> QED BY <1>4, <2>1, <2>2, <2>3 DEF LockRet, Fifo!Next, Fifo!Enter
<1>5. CASE (UnlockFree(t) \/ UnlockGive(t)) /\ UNCHANGED pc
  <2>1. owner = t /\ InsideSet = {t}
    BY <1>5, <1>c DEF UnlockFree, UnlockGive, Inside
  <2>2. InsideSet' = {}
    BY <1>5, <1>b, <2>1 DEF UnlockFree, UnlockGive, Inside
  <2> QED BY <1>5, <2>1, <2>2 DEF UnlockFree, UnlockGive, Fifo!Next, Fifo!Leave
<1>6. CASE /\ LockSpin(t) \/ LockRespin(t) \/ LockCheck(t) \/ UnlockSpin(t) \/ UnlockRet(t)
              \/ UnlockWake(t)
           /\ UNCHANGED pc
  <2>1. UNCHANGED <<owner, blocked>>
    BY <1>6 DEF LockSpin, LockRespin, LockCheck, UnlockSpin, UnlockRet, UnlockWake
  <2>2. mpc[t] = "lock_check" => owner = t
    BY DEF OwnerGranted, Granted
  <2>3. Inside(t)' = Inside(t)
    BY <1>6, <2>2 DEF LockSpin, LockRespin, LockCheck, UnlockSpin, UnlockRet, UnlockWake,
                      Inside, Unlocking
  <2> QED BY <1>1, <2>1, <2>3
<1>7. CASE Program(t)
  <2>1. UNCHANGED <<owner, blocked>>
    BY <1>7 DEF Program, CallLock, CallUnlock, YieldInside, Exit, lockVars
  <2>2. Inside(t)' = Inside(t)
    BY <1>7 DEF Program, CallLock, CallUnlock, YieldInside, Exit, lockVars, Inside
  <2> QED BY <1>1, <2>1, <2>2
<1> QED BY <1>2, <1>3, <1>4, <1>5, <1>6, <1>7 DEF Thread, mutex_lock, mutex_unlock

(* Every step is a step of FifoLock, or none. *)
LEMMA StepImplements ==
  ASSUME IInv, WInv, [Next]_vars
  PROVE  [Fifo!Next]_(Fifo!vars)
<1>1. CASE \E t \in Threads : Thread(t)
  BY <1>1, ThreadImplements
<1>2. CASE UNCHANGED <<owner, blocked, mpc, pc>>
  BY <1>2 DEF Fifo!vars, Inside
<1> QED BY <1>1, <1>2 DEF Next, System, Schedule, ReleaseSpinlock, Terminated, vars, lockVars

(* The mutex is a first-in first-out lock: nobody overtakes the threads that
   wait, and mutex_lock returns to the owner alone (mutex.c:19-63). *)
THEOREM MutexIsFifo == Spec => ImplementsFifoLock
<1>1. Init => Fifo!Init
  BY DEF Init, mutex_init, Contexts, Fifo!Init, Inside
<1>2. (IInv /\ WInv) /\ [Next]_vars => [Fifo!Next]_(Fifo!vars)
  BY StepImplements
<1> QED BY <1>1, <1>2, WInvariance, PTL DEF Spec, ImplementsFifoLock, Fifo!Spec
=============================================================================
