---------------------------- MODULE ChannelProofs ----------------------------
(***************************************************************************)
(* The proof that the channel's operations exclude each other, that what   *)
(* they assert holds, and that they implement SyncChannel, for any number  *)
(* of threads, system threads and values.                                  *)
(***************************************************************************)
EXTENDS Channel, ScheduleProofs, SequenceTheorems

(* The threads that wait for a partner. *)
Waiting == Elements(blocked_send) \cup Elements(blocked_recv)

(* A system thread runs mutex_unlock, for a thread that blocked, and nothing
   else of the mutex. *)
SysUnlocks ==
  \A s \in Sys :
    /\ mpc[s] \in {"idle", "unlock_spin", "unlock_give", "unlock_ret", "unlock_wake"}
    /\ mpc[s] # "idle" => spc[s] = "release" /\ lock_tpe[s] = "NONE"

(* Where a thread calls the mutex from. *)
Calls ==
  \A t \in Threads :
    /\ mpc[t] \in {"lock_spin", "lock_try", "woken", "lock_check", "lock_ret"} =>
         pc[t] = "locked"
    /\ mpc[t] \in {"unlock_spin", "unlock_give", "unlock_ret", "unlock_wake"} =>
         pc[t] = "unlocked"

(* A thread in the mutex's queue sleeps in mutex_lock. *)
Queued ==
  /\ NoDuplicate(blocked)
  /\ \A t \in Elements(blocked) : mpc[t] = "woken" /\ state[t] = "BLOCKED"

(* A thread in a queue of the channel sleeps in its operation. *)
ChanQueued ==
  /\ NoDuplicate(blocked_send) /\ NoDuplicate(blocked_recv)
  /\ \A t \in Waiting : pc[t] = "woken" /\ state[t] = "BLOCKED"

(* A thread that is about to be given the mutex sleeps, and there is one at most. *)
Handoff ==
  /\ \A x \in Contexts : nextThread[x] # NULL =>
       /\ mpc[x] \in {"unlock_ret", "unlock_wake"}
       /\ nextThread[x] \notin Elements(blocked)
       /\ state[nextThread[x]] = "BLOCKED"
       /\ mpc[nextThread[x]] = "woken"
  /\ \A x \in Contexts : mpc[x] = "unlock_wake" => nextThread[x] # NULL
  /\ \A x, y \in Contexts : nextThread[x] # NULL /\ nextThread[y] # NULL => x = y

(* A partner that has been popped and not woken sleeps, in no queue. *)
Peers ==
  \A t \in Threads :
    /\ pc[t] = "wake" => peer[t] # NULL
    /\ peer[t] # NULL =>
         /\ pc[t] = "wake"
         /\ pc[peer[t]] = "woken"
         /\ state[peer[t]] = "BLOCKED"
         /\ peer[t] \notin Waiting

(* A thread that is blocking, with its stack still in use, is in a queue. *)
Blocking ==
  \A s \in Sys : spc[s] = "enter" /\ state[current[s]] = "BLOCKED" =>
    \/ current[s] \in Elements(blocked) /\ lock_type[current[s]] = "SPINLOCK"
    \/ current[s] \in Waiting /\ lock_type[current[s]] = "MUTEX"

(* schedule() on s has yet to give away the mutex of a thread that blocked. *)
MutexDeferred(s) ==
  \/ /\ spc[s] = "enter"
     /\ state[current[s]] = "BLOCKED"
     /\ lock_type[current[s]] = "MUTEX"
  \/ spc[s] = "release" /\ lock_tpe[s] = "MUTEX"
  \/ mpc[s] \in {"unlock_spin", "unlock_give"}

(* That thread is still in a queue, and there is one at most. *)
Deferred ==
  /\ \A s \in Sys : MutexDeferred(s) => current[s] \in Waiting
  /\ \A s, r \in Sys : MutexDeferred(s) /\ MutexDeferred(r) => s = r

(* A thread that has been granted the mutex, and has not given it away. *)
Granted(t) ==
  \/ mpc[t] \in {"lock_check", "lock_ret", "unlock_spin", "unlock_give"}
  \/ mpc[t] = "idle" /\ pc[t] \in {"locked", "wake"}
  \/ mpc[t] = "woken" /\ t \notin Elements(blocked)
  \/ \E s \in Sys : current[s] = t /\ MutexDeferred(s)

OwnerGranted == \A t \in Threads : Granted(t) => owner = t

(* The spinlock has one holder. *)
OneHolder ==
  /\ \A x, y \in Contexts : SpinHolder(x) /\ SpinHolder(y) => x = y
  /\ \A s, r \in Sys : SpinDeferred(s) /\ SpinDeferred(r) => s = r
  /\ \A x \in Contexts, s \in Sys : ~(SpinHolder(x) /\ SpinDeferred(s))
  /\ \A x \in Contexts : SpinHolder(x) => lock = "LOCKED"
  /\ \A s \in Sys : SpinDeferred(s) => lock = "LOCKED"
  /\ lock = "LOCKED" => (\E x \in Contexts : SpinHolder(x)) \/ \E s \in Sys : SpinDeferred(s)

(* A thread has a lock to release only while it is blocking. *)
LockTypes ==
  \A t \in Threads : lock_type[t] # "NONE" =>
    \E s \in Sys : spc[s] = "enter" /\ current[s] = t /\ state[t] = "BLOCKED"

(* Whose buffer holds a value, and whose local variable does. *)
Buffers ==
  /\ \A t \in Senders : channel_buffer[t] # NULL <=> t \in Elements(blocked_send)
  /\ \A t \in Receivers :
       /\ channel_buffer[t] # NULL <=> pc[t] = "woken" /\ t \notin Elements(blocked_recv)
       /\ value[t] # NULL <=> pc[t] \in {"wake", "unlocked"}
  /\ \A t \in Senders : pc[t] \notin {"out", "done"} => sent[t] < Count

LockInv == SysUnlocks /\ Calls /\ Queued /\ Handoff /\ OwnerGranted /\ OneHolder

ChanInv == ChanQueued /\ Peers /\ Blocking /\ Deferred /\ LockTypes /\ Buffers

IInv == SchedInv /\ TypeOK /\ LockInv /\ ChanInv

-----------------------------------------------------------------------------
(* Facts about who executes and who owns. *)

(* The scheduler's invariant is about its variables only. *)
LEMMA SchedUnchanged ==
  ASSUME SchedInv, UNCHANGED schedVars
  PROVE  /\ SchedInv'
         /\ \A s \in Sys : SpinDeferred(s)' = SpinDeferred(s)
BY DEF SchedInv, schedVars, SchedTypeOK, Hands, StatesMatch, OnePlace, Held, SpinDeferred

(* A thread that executes is in no queue, and no system thread has its mutex to
   release. *)
LEMMA RunningAlone ==
  ASSUME IInv, NEW t \in Threads, Active(t)
  PROVE  /\ state[t] = "RUNNING" /\ t \notin Sys
         /\ t \notin Elements(blocked) /\ t \notin Waiting
         /\ \A s \in Sys : MutexDeferred(s) => current[s] # t
         /\ \A x \in Contexts : nextThread[x] # t
         /\ \A u \in Threads : peer[u] # t
         /\ lock_type[t] = "NONE"
<1>1. state[t] = "RUNNING" /\ t \notin Sys
  BY ScheduleAssumption DEF IInv, SchedInv, StatesMatch, Active, Running, OnCpu
<1>2. t \notin Elements(blocked) /\ t \notin Waiting
  BY <1>1 DEF IInv, LockInv, ChanInv, Queued, ChanQueued
<1>3. \A s \in Sys : MutexDeferred(s) => current[s] # t
  BY <1>2 DEF IInv, ChanInv, Deferred
<1>4. /\ \A x \in Contexts : nextThread[x] # t
      /\ \A u \in Threads : peer[u] # t
  BY <1>1, ScheduleAssumption DEF IInv, LockInv, ChanInv, Handoff, Peers
<1>5. lock_type[t] = "NONE"
  BY <1>1 DEF IInv, ChanInv, LockTypes
<1> QED BY <1>1, <1>2, <1>3, <1>4, <1>5

(* The context about to give the mutex away acts for the owner, and nobody is
   about to be woken with the mutex. *)
LEMMA UnlockerOwns ==
  ASSUME IInv, NEW x \in Contexts, mpc[x] \in {"unlock_spin", "unlock_give"}
  PROVE  /\ CurrentId(x) \in Threads /\ owner = CurrentId(x)
         /\ \A u \in Threads : Granted(u) => u = CurrentId(x)
         /\ \A y \in Contexts : nextThread[y] = NULL
         /\ x \in Sys => current[x] \in Waiting /\ mpc[current[x]] = "idle"
<1> DEFINE t == CurrentId(x)
<1>1. t \in Threads /\ Granted(t) /\ (x \in Sys => current[x] \in Waiting /\ mpc[current[x]] = "idle")
  <2>1. CASE x \in Sys
    <3>1. MutexDeferred(x) /\ t = current[x] /\ t \in Waiting
      BY <2>1 DEF MutexDeferred, CurrentId, IInv, ChanInv, Deferred
    <3>2. t \in Threads
      BY <3>1, ElementsType, ChannelAssumption DEF Waiting, IInv, TypeOK, Receivers
    <3>3. pc[t] = "woken"
      BY <3>1 DEF IInv, ChanInv, ChanQueued
    <3>4. mpc[t] = "idle"
      BY <3>2, <3>3 DEF IInv, LockInv, Calls, TypeOK, MutexTypeOK, MutexPC, Contexts
    <3> QED BY <2>1, <3>1, <3>2, <3>4 DEF Granted
  <2>2. CASE x \notin Sys
    BY <2>2 DEF Contexts, CurrentId, Granted
  <2> QED BY <2>1, <2>2
<1>2. owner = t /\ \A u \in Threads : Granted(u) => u = t
  BY <1>1 DEF IInv, LockInv, OwnerGranted
<1>3. ASSUME NEW y \in Contexts, nextThread[y] # NULL PROVE FALSE
  <2> DEFINE n == nextThread[y]
  <2>1. n \in Threads /\ mpc[n] = "woken" /\ n \notin Elements(blocked)
    BY <1>3 DEF IInv, LockInv, Handoff, TypeOK, MutexTypeOK
  <2>2. n = t
    BY <1>2, <2>1 DEF Granted
  <2>3. mpc[t] # "woken"
    BY <1>1 DEF CurrentId
  <2> QED BY <2>1, <2>2, <2>3
<1> QED BY <1>1, <1>2, <1>3

-----------------------------------------------------------------------------
(* mutex_lock. *)

(* The steps of mutex_lock in which the thread goes on: it takes the spinlock,
   finds the mutex free or its own, or returns. *)
LEMMA LockGoesOnInv ==
  ASSUME IInv, NEW t \in Threads, UNCHANGED <<chanVars, progVars>>,
         LockSpin(t) \/ LockTake(t) \/ LockRespin(t) \/ LockCheck(t) \/ LockRet(t)
  PROVE  IInv'
<1> USE DEF IInv, LockInv, ChanInv, At, Goto, chanVars, progVars
<1>a. /\ state[t] = "RUNNING" /\ t \notin Sys
      /\ t \notin Elements(blocked) /\ t \notin Waiting
      /\ \A s \in Sys : MutexDeferred(s) => current[s] # t
      /\ \A x \in Contexts : nextThread[x] # t
  BY RunningAlone DEF LockSpin, LockTake, LockRespin, LockCheck, LockRet
<1>b. mpc[t] = "lock_check" => owner = t
  BY DEF OwnerGranted, Granted
<1>c. /\ UNCHANGED <<schedVars, blocked, nextThread>>
      /\ mpc[t] \in {"lock_spin", "lock_try", "woken", "lock_check", "lock_ret"}
  BY DEF LockSpin, LockTake, LockRespin, LockCheck, LockRet
<1>d. PICK l \in {"lock_try", "lock_check", "lock_ret", "idle"} : mpc' = [mpc EXCEPT ![t] = l]
  BY <1>b DEF LockSpin, LockTake, LockRespin, LockCheck, LockRet
<1>e. SchedInv' /\ \A s \in Sys : SpinDeferred(s)' = SpinDeferred(s)
  BY <1>c, SchedUnchanged
<1>f. \A s \in Sys : MutexDeferred(s)' = MutexDeferred(s)
  BY <1>a, <1>c, <1>d DEF MutexDeferred, schedVars, TypeOK, MutexTypeOK, Contexts
<1>1. TypeOK'
  BY <1>c, <1>d, <1>e DEF TypeOK, SchedInv, MutexTypeOK, MutexPC, Contexts,
     LockSpin, LockTake, LockRespin, LockCheck, LockRet, spinlock_lock, spinlock_unlock
<1>2. SysUnlocks' /\ Calls'
  BY <1>a, <1>c, <1>d DEF SysUnlocks, Calls, schedVars, TypeOK, MutexTypeOK, Contexts
<1>3. Queued' /\ Handoff'
  BY <1>a, <1>c, <1>d DEF Queued, Handoff, schedVars, TypeOK, MutexTypeOK, Contexts
<1>4. ChanQueued' /\ Peers' /\ Blocking' /\ LockTypes' /\ Buffers'
  BY <1>c DEF ChanQueued, Peers, Blocking, LockTypes, Buffers, Waiting, schedVars
<1>5. Deferred'
  BY <1>c, <1>f DEF Deferred, Waiting, schedVars
<1>6. OwnerGranted'
  BY <1>a, <1>b, <1>c, <1>d, <1>f, ScheduleAssumption
     DEF OwnerGranted, Granted, schedVars, Calls, TypeOK, MutexTypeOK, Contexts,
         LockSpin, LockTake, LockRespin, LockCheck, LockRet
<1>7. OneHolder'
  <2>1. t \in Contexts /\ \A x \in Contexts \ {t} : SpinHolder(x)' <=> SpinHolder(x)
    BY <1>d DEF SpinHolder, TypeOK, MutexTypeOK, Contexts
  <2>2. \/ SpinHolder(t)' /\ lock' = "LOCKED" /\ (SpinHolder(t) \/ lock = "UNLOCKED")
        \/ ~SpinHolder(t)' /\ lock' = "UNLOCKED" /\ SpinHolder(t)
    BY <1>a, <1>b, <2>1
       DEF OneHolder, SpinHolder, TypeOK, MutexTypeOK, spinlock_lock, spinlock_unlock,
           LockSpin, LockTake, LockRespin, LockCheck, LockRet
  <2> HIDE DEF IInv, LockInv, ChanInv, chanVars, progVars
  <2>3. OneHolder
    BY DEF IInv, LockInv
  <2> QED BY <1>e, <2>1, <2>2, <2>3 DEF OneHolder
<1> QED BY <1>e, <1>1, <1>2, <1>3, <1>4, <1>5, <1>6, <1>7

(* The call of mutex_lock. *)
LEMMA LockInvariant ==
  ASSUME IInv, NEW t \in Threads, Lock(t)
  PROVE  IInv'
<1> USE DEF IInv, LockInv, ChanInv, AtPC, At, Goto, GotoPC, Lock, chanVars
<1>a. /\ state[t] = "RUNNING" /\ t \notin Sys
      /\ t \notin Elements(blocked) /\ t \notin Waiting
      /\ \A s \in Sys : MutexDeferred(s) => current[s] # t
      /\ \A x \in Contexts : nextThread[x] # t
      /\ \A u \in Threads : peer[u] # t
  BY RunningAlone
<1>e. SchedInv' /\ \A s \in Sys : SpinDeferred(s)' = SpinDeferred(s)
  BY SchedUnchanged
<1>f. \A s \in Sys : MutexDeferred(s)' = MutexDeferred(s)
  BY <1>a DEF MutexDeferred, schedVars, TypeOK, MutexTypeOK, Contexts
<1>1. TypeOK'
  BY <1>e DEF TypeOK, SchedInv, MutexTypeOK, MutexPC, Contexts
<1>2. SysUnlocks' /\ Calls'
  BY <1>a DEF SysUnlocks, Calls, schedVars, TypeOK, MutexTypeOK, Contexts
<1>3. Queued' /\ Handoff'
  BY <1>a DEF Queued, Handoff, schedVars, TypeOK, MutexTypeOK, Contexts
<1>4. ChanQueued' /\ Peers' /\ Blocking' /\ LockTypes'
  BY <1>a DEF ChanQueued, Peers, Blocking, LockTypes, Waiting, schedVars, TypeOK
<1>5. Buffers'
  BY <1>a DEF Buffers, Receivers, TypeOK
<1>6. Deferred'
  BY <1>f DEF Deferred, Waiting, schedVars
<1>7. OwnerGranted'
  BY <1>a, <1>f
     DEF OwnerGranted, Granted, schedVars, TypeOK, MutexTypeOK, Contexts
<1>8. OneHolder'
  BY <1>a, <1>e DEF OneHolder, SpinHolder, TypeOK, MutexTypeOK, Contexts
<1> QED BY <1>e, <1>1, <1>2, <1>3, <1>4, <1>5, <1>6, <1>7, <1>8

(* The thread queues up and blocks, with the spinlock. *)
LEMMA LockQueueInv ==
  ASSUME IInv, NEW t \in Threads, LockQueue(t), UNCHANGED <<chanVars, progVars>>
  PROVE  IInv'
<1> USE DEF IInv, LockInv, ChanInv, LockQueue, At, Goto, chanVars, progVars
<1>a. /\ state[t] = "RUNNING" /\ t \notin Sys
      /\ t \notin Elements(blocked) /\ t \notin Waiting
      /\ \A s \in Sys : MutexDeferred(s) => current[s] # t
      /\ \A x \in Contexts : nextThread[x] # t
      /\ \A u \in Threads : peer[u] # t
      /\ lock_type[t] = "NONE"
  BY RunningAlone
<1>b. PICK s \in Sys : cond_wait(s, t, "SPINLOCK")
  OBVIOUS
<1>c. SchedInv'
  BY <1>b, CondWaitInv DEF LockType
<1>d. /\ blocked' \in Seq(Threads)
      /\ Elements(blocked') = Elements(blocked) \cup {t}
      /\ NoDuplicate(blocked')
  BY <1>a, ElementsAppend, NoDuplicateAppend DEF TypeOK, MutexTypeOK, Queued
<1>e. /\ state' = [state EXCEPT ![t] = "BLOCKED"]
      /\ lock_type' = [lock_type EXCEPT ![t] = "SPINLOCK"]
      /\ spc' = [spc EXCEPT ![s] = "enter"]
      /\ current[s] = t /\ spc[s] = "green" /\ current' = current
      /\ lock_tpe' = lock_tpe
  BY <1>b DEF cond_wait, OnCpu
<1>f. \A r \in Sys \ {s} : spc[r] \in {"green", "enter"} => current[r] # t
  BY <1>e, HeldAlone DEF Held
<1>g. SpinDeferred(s)' /\ \A r \in Sys \ {s} : SpinDeferred(r)' = SpinDeferred(r)
  BY <1>e, <1>f DEF SpinDeferred, TypeOK, SchedTypeOK
<1>h. \A r \in Sys : MutexDeferred(r)' = MutexDeferred(r)
  BY <1>a, <1>e, <1>f DEF MutexDeferred, TypeOK, SchedTypeOK, MutexTypeOK, Contexts
<1>1. TypeOK'
  BY <1>c, <1>d DEF TypeOK, SchedInv, MutexTypeOK, Contexts, MutexPC
<1>2. SysUnlocks' /\ Calls'
  BY <1>a, <1>e DEF SysUnlocks, Calls, TypeOK, SchedTypeOK, MutexTypeOK, Contexts
<1>3. Queued' /\ Handoff'
  BY <1>a, <1>d, <1>e DEF Queued, Handoff, TypeOK, MutexTypeOK, SchedTypeOK, Contexts
<1>4. ChanQueued' /\ Peers'
  BY <1>a, <1>e DEF ChanQueued, Peers, Waiting, TypeOK, SchedTypeOK
<1>5. Blocking'
  BY <1>a, <1>d, <1>e, <1>f DEF Blocking, Waiting, TypeOK, SchedTypeOK
<1>6. LockTypes' /\ Buffers'
  BY <1>a, <1>e, <1>f DEF LockTypes, Buffers, TypeOK, SchedTypeOK
<1>7. Deferred'
  BY <1>e, <1>h DEF Deferred, Waiting
<1>8. OwnerGranted'
  BY <1>a, <1>d, <1>e, <1>h DEF OwnerGranted, Granted, TypeOK, MutexTypeOK, Contexts
<1>9. OneHolder'
  BY <1>a, <1>g DEF OneHolder, SpinHolder, TypeOK, MutexTypeOK, Contexts
<1> QED BY <1>c, <1>1, <1>2, <1>3, <1>4, <1>5, <1>6, <1>7, <1>8, <1>9

-----------------------------------------------------------------------------
(* mutex_unlock, on a thread's or a system thread's stack. *)

(* No thread that sleeps in mutex_lock or in the channel is a context that
   executes. *)
LEMMA UnlockingContext ==
  ASSUME IInv, NEW x \in Contexts, Active(x),
         mpc[x] \in {"unlock_spin", "unlock_give", "unlock_ret", "unlock_wake"}
  PROVE  /\ x \notin Elements(blocked)
         /\ \A y \in Contexts : nextThread[y] # NULL => nextThread[y] # x
         /\ x \in Sys => spc[x] = "release" /\ lock_tpe[x] = "NONE"
         /\ x \in Threads => pc[x] = "unlocked" /\ \A s \in Sys : MutexDeferred(s) => current[s] # x
<1>1. CASE x \in Sys
  <2>1. x \notin Elements(blocked) /\ \A y \in Contexts : nextThread[y] # NULL => nextThread[y] # x
    BY <1>1, ElementsType, ScheduleAssumption DEF IInv, TypeOK, MutexTypeOK
  <2> QED BY <1>1, <2>1, ScheduleAssumption DEF IInv, LockInv, SysUnlocks, Handoff
<1>2. CASE x \in Threads
  BY <1>2, RunningAlone, ScheduleAssumption DEF IInv, LockInv, Calls
<1> QED BY <1>1, <1>2 DEF Contexts

(* The steps of mutex_unlock that move no thread: the spinlock is taken, the mutex
   is freed, the spinlock is released. *)
LEMMA UnlockGoesOnInv ==
  ASSUME IInv, NEW x \in Contexts, UNCHANGED <<chanVars, progVars>>,
         UnlockSpin(x) \/ UnlockFree(x) \/ UnlockRet(x)
  PROVE  IInv'
<1> USE DEF IInv, LockInv, ChanInv, At, Goto, chanVars, progVars
<1>a. /\ x \notin Elements(blocked)
      /\ \A y \in Contexts : nextThread[y] # NULL => nextThread[y] # x
      /\ x \in Sys => spc[x] = "release" /\ lock_tpe[x] = "NONE"
      /\ x \in Threads => pc[x] = "unlocked" /\ \A s \in Sys : MutexDeferred(s) => current[s] # x
  BY UnlockingContext DEF UnlockSpin, UnlockFree, UnlockRet
<1>b. /\ UNCHANGED <<schedVars, blocked, nextThread>>
      /\ mpc[x] \in {"unlock_spin", "unlock_give", "unlock_ret"}
  BY DEF UnlockSpin, UnlockFree, UnlockRet
<1>c. PICK l \in {"unlock_give", "unlock_ret", "unlock_wake", "idle"} :
        /\ mpc' = [mpc EXCEPT ![x] = l]
        /\ l = "unlock_wake" => nextThread[x] # NULL
        /\ nextThread[x] # NULL => l = "unlock_wake"
        /\ mpc[x] = "unlock_spin" <=> l = "unlock_give"
        /\ mpc[x] = "unlock_give" <=> l = "unlock_ret"
  BY DEF UnlockSpin, UnlockFree, UnlockRet, Handoff
<1>d. SchedInv' /\ \A s \in Sys : SpinDeferred(s)' = SpinDeferred(s)
  BY <1>b, SchedUnchanged
<1>e. \A s \in Sys : MutexDeferred(s)' => MutexDeferred(s)
  BY <1>a, <1>b, <1>c DEF MutexDeferred, schedVars, TypeOK, MutexTypeOK, Contexts
<1>1. TypeOK'
  BY <1>b, <1>c, <1>d DEF TypeOK, SchedInv, MutexTypeOK, MutexPC, Contexts,
     UnlockSpin, UnlockFree, UnlockRet, spinlock_lock, spinlock_unlock
<1>2. SysUnlocks' /\ Calls'
  BY <1>a, <1>b, <1>c DEF SysUnlocks, Calls, schedVars, TypeOK, MutexTypeOK, Contexts
<1>3. Queued' /\ Handoff'
  BY <1>a, <1>b, <1>c DEF Queued, Handoff, schedVars, TypeOK, MutexTypeOK, Contexts
<1>4. ChanQueued' /\ Peers' /\ Blocking' /\ LockTypes' /\ Buffers'
  BY <1>b DEF ChanQueued, Peers, Blocking, LockTypes, Buffers, Waiting, schedVars
<1>5. Deferred'
  BY <1>b, <1>e DEF Deferred, Waiting, schedVars
<1>6. OwnerGranted'
  <2>1. \A u \in Threads : Granted(u)' => Granted(u)
    BY <1>a, <1>b, <1>c, <1>e, ScheduleAssumption
       DEF Granted, schedVars, TypeOK, MutexTypeOK, Contexts
  <2>2. CASE ~UnlockFree(x)
    BY <2>1, <2>2 DEF OwnerGranted, UnlockSpin, UnlockRet
  <2>3. CASE UnlockFree(x)
    <3>1. PICK t \in Threads :
            /\ t = CurrentId(x)
            /\ \A u \in Threads : Granted(u) => u = t
            /\ x \in Sys => t \in Waiting /\ mpc[t] = "idle"
      BY <2>3, UnlockerOwns DEF UnlockFree, CurrentId
    <3>2. ASSUME NEW s \in Sys, current[s] = t, MutexDeferred(s)' PROVE FALSE
      <4>1. MutexDeferred(s)
        BY <1>e, <3>2
      <4>2. CASE x \in Sys
        <5>1. s = x
          BY <2>3, <4>1, <4>2 DEF Deferred, MutexDeferred, UnlockFree
        <5> QED BY <1>a, <1>b, <1>c, <2>3, <3>2, <4>2, <5>1
                DEF MutexDeferred, UnlockFree, schedVars, TypeOK, MutexTypeOK
      <4>3. CASE x \notin Sys
        BY <1>a, <3>1, <3>2, <4>1, <4>3 DEF CurrentId, Contexts
      <4> QED BY <4>2, <4>3
    <3>3. ~Granted(t)'
      BY <1>a, <1>b, <1>c, <2>3, <3>1, <3>2, ScheduleAssumption
         DEF Granted, UnlockFree, CurrentId, Contexts, schedVars, TypeOK, MutexTypeOK, ChanQueued
    <3> QED BY <2>1, <3>1, <3>3 DEF OwnerGranted
  <2> QED BY <2>2, <2>3
<1>7. OneHolder'
  BY <1>c, <1>d
     DEF OneHolder, SpinHolder, TypeOK, MutexTypeOK, Contexts, spinlock_lock, spinlock_unlock,
         UnlockSpin, UnlockFree, UnlockRet
<1> QED BY <1>d, <1>1, <1>2, <1>3, <1>4, <1>5, <1>6, <1>7

(* The mutex is handed to the head of the queue. *)
LEMMA UnlockGiveInv ==
  ASSUME IInv, NEW x \in Contexts, UNCHANGED <<chanVars, progVars>>, UnlockGive(x)
  PROVE  IInv'
<1> USE DEF IInv, LockInv, ChanInv, At, Goto, UnlockGive, chanVars, progVars
<1> DEFINE u == Head(blocked)
<1>a. /\ x \notin Elements(blocked)
      /\ x \in Sys => spc[x] = "release" /\ lock_tpe[x] = "NONE"
      /\ x \in Threads => pc[x] = "unlocked" /\ \A s \in Sys : MutexDeferred(s) => current[s] # x
  BY UnlockingContext
<1>b. SchedInv' /\ \A s \in Sys : SpinDeferred(s)' = SpinDeferred(s)
  BY SchedUnchanged
<1>c. /\ u \in Threads /\ u \in Elements(blocked)
      /\ blocked' \in Seq(Threads)
      /\ Elements(blocked) = {u} \cup Elements(blocked')
      /\ NoDuplicate(blocked')
      /\ u \notin Elements(blocked')
  BY ElementsTail, NoDuplicateTail DEF TypeOK, MutexTypeOK, Queued
<1>d. mpc[u] = "woken" /\ state[u] = "BLOCKED" /\ u # x
  BY <1>a, <1>c DEF Queued
<1>e. PICK t \in Threads :
        /\ t = CurrentId(x)
        /\ \A v \in Threads : Granted(v) => v = t
        /\ \A y \in Contexts : nextThread[y] = NULL
        /\ x \in Sys => t \in Waiting /\ mpc[t] = "idle"
  BY UnlockerOwns DEF CurrentId
<1> HIDE DEF u
<1>f. /\ owner' = u /\ nextThread' = [nextThread EXCEPT ![x] = u]
      /\ mpc' = [mpc EXCEPT ![x] = "unlock_ret"]
      /\ UNCHANGED schedVars
  BY DEF u
<1>g. \A s \in Sys : MutexDeferred(s)' => MutexDeferred(s) /\ s # x
  BY <1>a, <1>f DEF MutexDeferred, schedVars, TypeOK, MutexTypeOK, Contexts
<1>1. TypeOK'
  BY <1>b, <1>c, <1>f DEF TypeOK, SchedInv, MutexTypeOK, Contexts, MutexPC
<1>2. SysUnlocks' /\ Calls'
  BY <1>a, <1>f DEF SysUnlocks, Calls, schedVars, TypeOK, MutexTypeOK, Contexts
<1>3. Queued'
  BY <1>a, <1>c, <1>f DEF Queued, TypeOK, MutexTypeOK, Contexts, schedVars
<1>4. Handoff'
  BY <1>c, <1>d, <1>e, <1>f DEF Handoff, TypeOK, MutexTypeOK, Contexts, schedVars
<1>5. ChanQueued' /\ Peers' /\ LockTypes' /\ Buffers'
  BY <1>f DEF ChanQueued, Peers, LockTypes, Buffers, Waiting, schedVars
<1>6. Blocking'
  <2>1. ASSUME NEW s \in Sys, spc[s] = "enter", state[current[s]] = "BLOCKED",
               lock_type[current[s]] = "SPINLOCK"
        PROVE  FALSE
    BY <2>1 DEF OneHolder, SpinHolder, SpinDeferred
  <2> QED BY <1>f, <2>1 DEF Blocking, Waiting, schedVars
<1>7. Deferred'
  BY <1>f, <1>g DEF Deferred, Waiting, schedVars
<1>8. OwnerGranted'
  <2>1. \A v \in Threads \ {u} : Granted(v)' => Granted(v)
    BY <1>a, <1>c, <1>f, <1>g, ScheduleAssumption
       DEF Granted, schedVars, TypeOK, MutexTypeOK, Contexts
  <2>2. \A s \in Sys : current[s] = t => ~MutexDeferred(s)'
    <3> SUFFICES ASSUME NEW s \in Sys, current[s] = t, MutexDeferred(s)' PROVE FALSE
      OBVIOUS
    <3>1. MutexDeferred(s) /\ s # x
      BY <1>g
    <3>2. CASE x \in Sys
      BY <3>1, <3>2 DEF Deferred, MutexDeferred
    <3>3. CASE x \notin Sys
      BY <1>a, <1>e, <3>1, <3>3 DEF CurrentId, Contexts
    <3> QED BY <3>2, <3>3
  <2>3. t # u => ~Granted(t)'
    BY <1>a, <1>c, <1>e, <1>f, <2>2, ScheduleAssumption
       DEF Granted, CurrentId, Contexts, schedVars, TypeOK, MutexTypeOK, ChanQueued
  <2> QED BY <1>e, <1>f, <2>1, <2>3 DEF OwnerGranted
<1>9. OneHolder'
  BY <1>b, <1>f DEF OneHolder, SpinHolder, TypeOK, MutexTypeOK, Contexts
<1> QED BY <1>b, <1>1, <1>2, <1>3, <1>4, <1>5, <1>6, <1>7, <1>8, <1>9

(* The new owner of the mutex is made runnable. *)
LEMMA UnlockWakeInv ==
  ASSUME IInv, NEW x \in Contexts, UNCHANGED <<chanVars, progVars>>, UnlockWake(x)
  PROVE  IInv'
<1> USE DEF IInv, LockInv, ChanInv, At, Goto, UnlockWake, chanVars, progVars
<1> DEFINE u == nextThread[x]
<1>a. /\ x \notin Elements(blocked)
      /\ x \in Sys => spc[x] = "release" /\ lock_tpe[x] = "NONE"
      /\ x \in Threads => pc[x] = "unlocked" /\ \A s \in Sys : MutexDeferred(s) => current[s] # x
  BY UnlockingContext
<1>b. /\ u \in Threads /\ u \notin Elements(blocked) /\ state[u] = "BLOCKED" /\ mpc[u] = "woken"
      /\ \A y \in Contexts \ {x} : nextThread[y] = NULL
  BY DEF Handoff, TypeOK, MutexTypeOK
<1>c. pc[u] = "locked" /\ u \notin Waiting
  BY <1>b DEF Calls, ChanQueued
<1>d. \A s \in Sys : spc[s] = "enter" => current[s] # u
  BY <1>b, <1>c DEF Blocking
<1>e. SchedInv'
  BY <1>b, <1>d, UnblockInv
<1>f. /\ state' = [state EXCEPT ![u] = "RUNNABLE"]
      /\ nextThread' = [nextThread EXCEPT ![x] = NULL]
      /\ mpc' = [mpc EXCEPT ![x] = "idle"]
      /\ UNCHANGED <<lock_type, current, spc, lock_tpe>>
  BY DEF tsafe_unblock_thread
<1> HIDE DEF u
<1>g. \A s \in Sys : SpinDeferred(s)' = SpinDeferred(s)
  BY <1>b, <1>d, <1>f DEF SpinDeferred, TypeOK, SchedTypeOK
<1>h. \A s \in Sys : MutexDeferred(s)' = MutexDeferred(s)
  BY <1>a, <1>b, <1>d, <1>f DEF MutexDeferred, TypeOK, SchedTypeOK, MutexTypeOK, Contexts
<1>1. TypeOK'
  BY <1>e, <1>f DEF TypeOK, SchedInv, MutexTypeOK, Contexts, MutexPC
<1>2. SysUnlocks' /\ Calls'
  BY <1>a, <1>f DEF SysUnlocks, Calls, TypeOK, MutexTypeOK, Contexts
<1>3. Queued'
  BY <1>a, <1>b, <1>f DEF Queued, TypeOK, MutexTypeOK, SchedTypeOK, Contexts
<1>4. Handoff'
  BY <1>a, <1>b, <1>f DEF Handoff, TypeOK, MutexTypeOK, SchedTypeOK, Contexts
<1>5. ChanQueued' /\ Peers' /\ Buffers'
  BY <1>c, <1>f DEF ChanQueued, Peers, Buffers, Waiting, TypeOK, SchedTypeOK
<1>6. Blocking' /\ LockTypes'
  BY <1>b, <1>d, <1>f DEF Blocking, LockTypes, Waiting, TypeOK, SchedTypeOK
<1>7. Deferred'
  BY <1>f, <1>h DEF Deferred, Waiting
<1>8. OwnerGranted'
  BY <1>a, <1>f, <1>h, ScheduleAssumption DEF OwnerGranted, Granted, TypeOK, MutexTypeOK, Contexts
<1>9. OneHolder'
  BY <1>f, <1>g DEF OneHolder, SpinHolder, TypeOK, MutexTypeOK, Contexts
<1> QED BY <1>e, <1>1, <1>2, <1>3, <1>4, <1>5, <1>6, <1>7, <1>8, <1>9

-----------------------------------------------------------------------------
(* Steps of schedule(). *)

(* The spinlock of a blocked thread is released, off its stack. *)
LEMMA ReleaseSpinlockInv ==
  ASSUME IInv, NEW s \in Sys, ReleaseSpinlock(s), UNCHANGED <<chanVars, progVars>>
  PROVE  IInv'
<1> USE DEF IInv, LockInv, ChanInv, ReleaseSpinlock, spinlock_unlock, chanVars, progVars
<1>a. SchedInv'
  <2>1. SchedTypeOK'
    BY DEF SchedInv, SchedTypeOK, LockType
  <2>2. Hands' /\ StatesMatch'
    BY DEF SchedInv, Hands, StatesMatch
  <2>3. \A r \in Sys : Held(r)' = Held(r)
    BY DEF Held
  <2>4. OnePlace'
    BY <2>3 DEF SchedInv, OnePlace
  <2> QED BY <2>1, <2>2, <2>4 DEF SchedInv
<1>b. SpinDeferred(s)
  BY DEF SpinDeferred
<1>c. ~SpinDeferred(s)' /\ \A r \in Sys \ {s} : SpinDeferred(r)' = SpinDeferred(r)
  BY DEF SpinDeferred, TypeOK, SchedTypeOK
<1>d. \A r \in Sys : MutexDeferred(r)' = MutexDeferred(r)
  BY DEF MutexDeferred, TypeOK, SchedTypeOK
<1>1. TypeOK'
  BY <1>a DEF TypeOK, SchedInv, MutexTypeOK
<1>2. (SysUnlocks /\ Calls /\ Queued /\ Handoff)'
  BY DEF SysUnlocks, Calls, Queued, Handoff, TypeOK, SchedTypeOK
<1>3. (ChanQueued /\ Peers /\ Blocking /\ LockTypes /\ Buffers)'
  BY DEF ChanQueued, Peers, Blocking, LockTypes, Buffers, Waiting
<1>4. (Deferred /\ OwnerGranted)'
  BY <1>d DEF Deferred, OwnerGranted, Granted, Waiting
<1>5. OneHolder'
  BY <1>b, <1>c DEF OneHolder, SpinHolder
<1> QED BY <1>a, <1>1, <1>2, <1>3, <1>4, <1>5

(* schedule() calls mutex_unlock for a thread that blocked with the mutex. *)
LEMMA ReleaseMutexInv ==
  ASSUME IInv, NEW s \in Sys, ReleaseMutex(s), UNCHANGED <<chanVars, progVars>>
  PROVE  IInv'
<1> USE DEF IInv, LockInv, ChanInv, ReleaseMutex, Goto, chanVars, progVars
<1>a. SchedInv'
  <2>1. SchedTypeOK' /\ Hands'
    BY DEF SchedInv, SchedTypeOK, LockType, Hands
  <2>2. StatesMatch'
    BY DEF SchedInv, StatesMatch
  <2>3. OnePlace'
    BY DEF SchedInv, OnePlace, Held
  <2> QED BY <2>1, <2>2, <2>3 DEF SchedInv
<1>b. mpc[s] \in {"idle", "unlock_spin", "unlock_give"} /\ s \notin Threads /\ mpc[s] = "idle"
  BY ScheduleAssumption DEF SysUnlocks
<1>c. \A r \in Sys : SpinDeferred(r)' = SpinDeferred(r)
  BY DEF SpinDeferred, TypeOK, SchedTypeOK
<1>d. \A r \in Sys : MutexDeferred(r)' = MutexDeferred(r)
  BY DEF MutexDeferred, TypeOK, SchedTypeOK, MutexTypeOK, Contexts
<1>1. TypeOK'
  BY <1>a DEF TypeOK, SchedInv, MutexTypeOK, MutexPC, Contexts
<1>2. (SysUnlocks /\ Calls /\ Queued)'
  BY <1>b, ElementsType
     DEF SysUnlocks, Calls, Queued, TypeOK, SchedTypeOK, MutexTypeOK, Contexts
<1>3. Handoff'
  BY <1>b DEF Handoff, TypeOK, MutexTypeOK, Contexts
<1>4. (ChanQueued /\ Peers /\ Blocking /\ LockTypes /\ Buffers)'
  BY DEF ChanQueued, Peers, Blocking, LockTypes, Buffers, Waiting
<1>5. (Deferred /\ OwnerGranted)'
  BY <1>b, <1>d DEF Deferred, OwnerGranted, Granted, Waiting, TypeOK, MutexTypeOK, Contexts
<1>6. OneHolder'
  BY <1>b, <1>c DEF OneHolder, SpinHolder, TypeOK, MutexTypeOK, Contexts
<1> QED BY <1>a, <1>1, <1>2, <1>3, <1>4, <1>5, <1>6

(* The other steps leave the mutex and the channel alone, and change no thread that
   blocks. *)
LEMMA ScheduleInv ==
  ASSUME IInv, NEW s \in Sys, Schedule(s), UNCHANGED <<chanVars, progVars>>
  PROVE  IInv'
<1> USE DEF IInv, LockInv, ChanInv, lockVars, chanVars, progVars
<1>a. SchedInv'
  BY EnterUnblockedInv, EnterBlockedInv, ReleasedInv, SelectNextInv, SelectNoneInv,
     ParkInv DEF Schedule
<1>b. UNCHANGED lockVars
  BY DEF Schedule
<1>c. \A t \in Threads : state[t] = "BLOCKED" <=> state'[t] = "BLOCKED"
  <2>1. CASE EnterUnblocked(s)
    BY <2>1 DEF EnterUnblocked, TypeOK, SchedTypeOK
  <2>2. CASE Park(s)
    BY <2>2 DEF Park, TypeOK, SchedTypeOK, SchedInv, StatesMatch
  <2>3. CASE UNCHANGED state
    BY <2>3
  <2> QED BY <2>1, <2>2, <2>3
          DEF Schedule, EnterBlocked, Released, SelectNext, SelectNone
<1>d. /\ \A r \in Sys : spc'[r] = "enter" => spc[r] = "enter" /\ current'[r] = current[r]
      /\ \A r \in Sys : spc'[r] = "enter" => current[r] \in Threads
  BY DEF Schedule, EnterUnblocked, EnterBlocked, Released, SelectNext, SelectNone, Park,
         TypeOK, SchedTypeOK
<1>e. /\ \A r \in Sys \ {s} : /\ spc'[r] = spc[r] /\ current'[r] = current[r]
                              /\ lock_tpe'[r] = lock_tpe[r]
      /\ mpc[s] = "idle"
  BY DEF Schedule, EnterUnblocked, EnterBlocked, Released, SelectNext, SelectNone, Park,
         TypeOK, SchedTypeOK, SysUnlocks
<1>f. \A r \in Sys : SpinDeferred(r)' = SpinDeferred(r) /\ MutexDeferred(r)' = MutexDeferred(r)
  <2>1. CASE EnterBlocked(s)
    <3>1. \A r \in Sys \ {s} : spc[r] = "enter" => current[r] # current[s]
      BY <2>1, HeldAlone DEF EnterBlocked, Held
    <3> QED BY <1>b, <2>1, <3>1
            DEF EnterBlocked, SpinDeferred, MutexDeferred, TypeOK, SchedTypeOK
  <2>2. CASE ~EnterBlocked(s)
    <3>1. UNCHANGED <<lock_type, lock_tpe>>
      BY <2>2 DEF Schedule, EnterUnblocked, Released, SelectNext, SelectNone, Park
    <3>2. ~SpinDeferred(s) /\ ~SpinDeferred(s)' /\ ~MutexDeferred(s) /\ ~MutexDeferred(s)'
      BY <1>b, <1>e, <2>2 DEF Schedule, EnterUnblocked, Released, SelectNext, SelectNone, Park,
                  SpinDeferred, MutexDeferred, TypeOK, SchedTypeOK
    <3> QED BY <1>b, <1>c, <1>e, <3>1, <3>2 DEF SpinDeferred, MutexDeferred, TypeOK, SchedTypeOK
  <2> QED BY <2>1, <2>2
<1>g. \A r \in Sys : MutexDeferred(r)' => current'[r] = current[r]
  <2>1. CASE EnterBlocked(s)
    BY <2>1 DEF EnterBlocked
  <2>2. CASE ~EnterBlocked(s)
    <3>1. ~MutexDeferred(s)
      BY <1>e, <2>2 DEF Schedule, EnterUnblocked, Released, SelectNext, SelectNone, Park,
                  MutexDeferred, TypeOK, SchedTypeOK
    <3> QED BY <1>e, <1>f, <3>1
  <2> QED BY <2>1, <2>2
<1>h. Elements(blocked) \subseteq Threads /\ Waiting \subseteq Threads
  BY ElementsType, ChannelAssumption DEF TypeOK, MutexTypeOK, Waiting, Receivers
<1>1. TypeOK'
  BY <1>a, <1>b DEF TypeOK, SchedInv, MutexTypeOK
<1>2. (SysUnlocks /\ Calls)'
  BY <1>b, <1>e DEF SysUnlocks, Calls
<1>3. (Queued /\ Handoff)'
  BY <1>b, <1>c, <1>h DEF Queued, Handoff, TypeOK, MutexTypeOK
<1>4. (ChanQueued /\ Peers /\ Buffers)'
  BY <1>c, <1>h DEF ChanQueued, Peers, Buffers, Waiting, TypeOK
<1>5. Blocking'
  <2>1. ASSUME NEW r \in Sys, spc'[r] = "enter", state'[current'[r]] = "BLOCKED"
        PROVE  \/ current'[r] \in Elements(blocked') /\ lock_type'[current'[r]] = "SPINLOCK"
               \/ current'[r] \in Waiting' /\ lock_type'[current'[r]] = "MUTEX"
    <3>1. /\ spc[r] = "enter" /\ current'[r] = current[r]
          /\ current[r] \in Threads /\ state[current[r]] = "BLOCKED"
      BY <1>c, <1>d, <2>1
    <3>2. CASE SpinDeferred(r) /\ current[r] \in Elements(blocked)
      <4>1. SpinDeferred(r)'
        BY <1>f, <3>2
      <4> QED BY <1>b, <2>1, <3>1, <3>2, <4>1 DEF SpinDeferred
    <3>3. CASE MutexDeferred(r) /\ current[r] \in Waiting
      <4>1. MutexDeferred(r)'
        BY <1>f, <3>3
      <4>2. mpc'[r] = "idle"
        BY <1>b, <3>1 DEF SysUnlocks
      <4> QED BY <2>1, <3>1, <3>3, <4>1, <4>2 DEF MutexDeferred, Waiting
    <3> QED BY <3>1, <3>2, <3>3 DEF Blocking, SpinDeferred, MutexDeferred
  <2> QED BY <2>1 DEF Blocking
<1>6. LockTypes'
  <2>1. ASSUME NEW t \in Threads, lock_type'[t] # "NONE"
        PROVE  \E r \in Sys : spc'[r] = "enter" /\ current'[r] = t /\ state'[t] = "BLOCKED"
    <3>1. lock_type[t] # "NONE" /\ (EnterBlocked(s) => t # current[s])
      BY <2>1 DEF Schedule, EnterUnblocked, EnterBlocked, Released, SelectNext, SelectNone, Park,
                  TypeOK, SchedTypeOK
    <3>2. PICK r \in Sys : spc[r] = "enter" /\ current[r] = t /\ state[t] = "BLOCKED"
      BY <3>1 DEF LockTypes
    <3>3. r # s
      BY <3>1, <3>2 DEF Schedule, EnterUnblocked, Released, SelectNext, SelectNone, Park
    <3> QED BY <1>c, <1>e, <3>2, <3>3
  <2> QED BY <2>1 DEF LockTypes
<1>7. Deferred'
  BY <1>f, <1>g DEF Deferred, Waiting
<1>8. OwnerGranted'
  BY <1>b, <1>f, <1>g DEF OwnerGranted, Granted
<1>9. OneHolder'
  BY <1>b, <1>f DEF OneHolder, SpinHolder
<1> QED BY <1>a, <1>1, <1>2, <1>3, <1>4, <1>5, <1>6, <1>7, <1>8, <1>9

-----------------------------------------------------------------------------
(* The operations of the channel. *)

(* The queues of the channel hold threads of either kind. *)
LEMMA QueueTypes ==
  ASSUME TypeOK
  PROVE  /\ Elements(blocked_send) \subseteq Senders /\ Elements(blocked_recv) \subseteq Receivers
         /\ Senders \subseteq Threads /\ Receivers \subseteq Threads
         /\ Senders \cap Receivers = {}
BY ElementsType, ChannelAssumption DEF TypeOK, Receivers

(* What a sender sends is a value. *)
LEMMA MessageIsValue ==
  ASSUME IInv, NEW t \in Senders, pc[t] \notin {"out", "done"}
  PROVE  Message(t) \in Values /\ Message(t) # NULL
<1>1. sent[t] \in 0 .. Count /\ sent[t] < Count
  BY DEF IInv, TypeOK, ChanInv, Buffers
<1>2. sent[t] + 1 \in 1 .. Count
  BY <1>1, ChannelAssumption
<1> QED BY <1>2, ChannelAssumption DEF Message, Values

(* The partner, asleep and off its stack, is made runnable. *)
LEMMA WakePeerInv ==
  ASSUME IInv, NEW t \in Threads, WakePeer(t)
  PROVE  IInv'
<1> USE DEF IInv, LockInv, ChanInv, AtPC, At, Goto, GotoPC, WakePeer, chanVars
<1> DEFINE u == peer[t]
<1>a. /\ state[t] = "RUNNING" /\ t \notin Sys
      /\ t \notin Elements(blocked) /\ t \notin Waiting
      /\ \A s \in Sys : MutexDeferred(s) => current[s] # t
      /\ \A x \in Contexts : nextThread[x] # t
      /\ \A v \in Threads : peer[v] # t
  BY RunningAlone
<1>b. /\ u \in Threads /\ pc[u] = "woken" /\ state[u] = "BLOCKED" /\ u \notin Waiting /\ u # t
  BY <1>a DEF Peers, TypeOK
<1>c. owner = t /\ \A v \in Threads : Granted(v) => v = t
  BY DEF OwnerGranted, Granted
<1>d. mpc[u] = "idle" /\ u \notin Elements(blocked)
  BY <1>b DEF Calls, Queued, TypeOK, MutexTypeOK, MutexPC, Contexts
<1>e. \A s \in Sys : spc[s] = "enter" => current[s] # u
  BY <1>b, <1>d DEF Blocking
<1>f. \A v \in Threads : peer[v] = u => v = t
  <2> SUFFICES ASSUME NEW v \in Threads, peer[v] = u PROVE v = t
    OBVIOUS
  <2>1. pc[v] = "wake" /\ peer[v] # NULL
    BY <1>b, ScheduleAssumption DEF Peers
  <2>2. mpc[v] = "idle"
    BY <2>1 DEF Calls, TypeOK, MutexTypeOK, MutexPC, Contexts
  <2> QED BY <1>c, <2>1, <2>2 DEF Granted
<1>g. SchedInv'
  BY <1>b, <1>e, UnblockInv
<1>h. /\ state' = [state EXCEPT ![u] = "RUNNABLE"]
      /\ peer' = [peer EXCEPT ![t] = NULL]
      /\ mpc' = [mpc EXCEPT ![t] = "unlock_spin"]
      /\ pc' = [pc EXCEPT ![t] = "unlocked"]
      /\ UNCHANGED <<lock_type, current, spc, lock_tpe>>
  BY DEF tsafe_unblock_thread
<1> HIDE DEF u
<1>i. \A s \in Sys : SpinDeferred(s)' = SpinDeferred(s)
  BY <1>b, <1>e, <1>h DEF SpinDeferred, TypeOK, SchedTypeOK
<1>j. \A s \in Sys : MutexDeferred(s)' = MutexDeferred(s)
  BY <1>a, <1>b, <1>e, <1>h DEF MutexDeferred, TypeOK, SchedTypeOK, MutexTypeOK, Contexts
<1>1. TypeOK'
  BY <1>g, <1>h DEF TypeOK, SchedInv, MutexTypeOK, Contexts, MutexPC
<1>2. SysUnlocks' /\ Calls'
  BY <1>a, <1>h DEF SysUnlocks, Calls, TypeOK, MutexTypeOK, Contexts
<1>3. Queued' /\ Handoff'
  BY <1>a, <1>d, <1>h DEF Queued, Handoff, TypeOK, MutexTypeOK, SchedTypeOK, Contexts
<1>4. ChanQueued' /\ Buffers'
  BY <1>a, <1>b, <1>h DEF ChanQueued, Buffers, Waiting, TypeOK, SchedTypeOK, Receivers
<1>5. Peers'
  BY <1>a, <1>b, <1>f, <1>h DEF Peers, Waiting, TypeOK, SchedTypeOK
<1>6. Blocking' /\ LockTypes'
  BY <1>b, <1>e, <1>h DEF Blocking, LockTypes, Waiting, TypeOK, SchedTypeOK
<1>7. Deferred'
  BY <1>h, <1>j DEF Deferred, Waiting
<1>8. OwnerGranted'
  BY <1>a, <1>c, <1>h, <1>j DEF OwnerGranted, Granted, TypeOK, MutexTypeOK, Contexts
<1>9. OneHolder'
  BY <1>a, <1>h, <1>i DEF OneHolder, SpinHolder, TypeOK, MutexTypeOK, Contexts
<1> QED BY <1>g, <1>1, <1>2, <1>3, <1>4, <1>5, <1>6, <1>7, <1>8, <1>9

(* A thread pops its partner from the queue: of the receivers in channel_send, of
   the senders in channel_receive. *)
LEMMA PopInv ==
  ASSUME IInv, NEW t \in Threads, SendPop(t) \/ RecvPop(t)
  PROVE  IInv'
<1> USE DEF IInv, LockInv, ChanInv, AtPC, At, GotoPC, SendPop, RecvPop, lockVars
<1>a. /\ state[t] = "RUNNING" /\ t \notin Sys
      /\ t \notin Elements(blocked) /\ t \notin Waiting
      /\ \A s \in Sys : MutexDeferred(s) => current[s] # t
      /\ \A v \in Threads : peer[v] # t
  BY RunningAlone
<1>b. PICK u \in Threads :
        /\ peer' = [peer EXCEPT ![t] = u]
        /\ u \in Waiting /\ u \notin Waiting' /\ Waiting = {u} \cup Waiting'
        /\ NoDuplicate(blocked_send') /\ NoDuplicate(blocked_recv')
        /\ blocked_send' \in Seq(Senders) /\ blocked_recv' \in Seq(Receivers)
        /\ SendPop(t) => /\ channel_buffer' = [channel_buffer EXCEPT ![u] = Message(t)]
                         /\ u \in Receivers /\ u \notin Elements(blocked_recv')
                         /\ Elements(blocked_recv) = {u} \cup Elements(blocked_recv')
        /\ RecvPop(t) => /\ channel_buffer' = [channel_buffer EXCEPT ![u] = NULL]
                         /\ value' = [value EXCEPT ![t] = channel_buffer[u]]
                         /\ u \in Senders /\ u \in Elements(blocked_send)
                         /\ u \notin Elements(blocked_send')
                         /\ Elements(blocked_send) = {u} \cup Elements(blocked_send')
  <2>1. CASE SendPop(t)
    <3> DEFINE u == Head(blocked_recv)
    <3>1. /\ u \in Receivers /\ u \in Elements(blocked_recv)
          /\ blocked_recv' \in Seq(Receivers)
          /\ Elements(blocked_recv) = {u} \cup Elements(blocked_recv')
          /\ NoDuplicate(blocked_recv') /\ u \notin Elements(blocked_recv')
      BY <2>1, ElementsTail, NoDuplicateTail DEF TypeOK, ChanQueued
    <3>2. u \notin Elements(blocked_send) /\ u \in Threads /\ t \notin Receivers
      BY <2>1, <3>1, QueueTypes
    <3>3. /\ peer' = [peer EXCEPT ![t] = u] /\ blocked_send' = blocked_send
          /\ channel_buffer' = [channel_buffer EXCEPT ![u] = Message(t)]
      BY <2>1
    <3>4. ~RecvPop(t)
      BY <3>2
    <3> HIDE DEF u
    <3>5. u \in Waiting /\ Waiting = {u} \cup Waiting' /\ u \notin Waiting'
      BY <3>1, <3>2, <3>3 DEF Waiting
    <3>6. NoDuplicate(blocked_send') /\ blocked_send' \in Seq(Senders)
      BY <3>3 DEF ChanQueued, TypeOK
    <3> QED BY <3>1, <3>2, <3>3, <3>4, <3>5, <3>6
  <2>2. CASE RecvPop(t)
    <3> DEFINE u == Head(blocked_send)
    <3>1. /\ u \in Senders /\ u \in Elements(blocked_send)
          /\ blocked_send' \in Seq(Senders)
          /\ Elements(blocked_send) = {u} \cup Elements(blocked_send')
          /\ NoDuplicate(blocked_send') /\ u \notin Elements(blocked_send')
      BY <2>2, ElementsTail, NoDuplicateTail DEF TypeOK, ChanQueued
    <3>2. u \notin Elements(blocked_recv) /\ u \in Threads /\ t \notin Senders
      BY <2>2, <3>1, QueueTypes
    <3>3. /\ peer' = [peer EXCEPT ![t] = u] /\ blocked_recv' = blocked_recv
          /\ channel_buffer' = [channel_buffer EXCEPT ![u] = NULL]
          /\ value' = [value EXCEPT ![t] = channel_buffer[u]]
      BY <2>2
    <3>4. ~SendPop(t)
      BY <3>2
    <3> HIDE DEF u
    <3>5. u \in Waiting /\ Waiting = {u} \cup Waiting' /\ u \notin Waiting'
      BY <3>1, <3>2, <3>3 DEF Waiting
    <3>6. NoDuplicate(blocked_recv') /\ blocked_recv' \in Seq(Receivers)
      BY <3>3 DEF ChanQueued, TypeOK
    <3> QED BY <3>1, <3>2, <3>3, <3>4, <3>5, <3>6
  <2> QED BY <2>1, <2>2
<1>c. pc[u] = "woken" /\ state[u] = "BLOCKED" /\ u # t
  BY <1>a, <1>b DEF ChanQueued
<1>d. owner = t /\ \A v \in Threads : Granted(v) => v = t
  BY DEF OwnerGranted, Granted
<1>e. pc' = [pc EXCEPT ![t] = "wake"] /\ UNCHANGED <<schedVars, lockVars, sent, recd_message>>
  OBVIOUS
<1>f. SchedInv' /\ \A s \in Sys : SpinDeferred(s)' = SpinDeferred(s)
  BY SchedUnchanged
<1>g. \A s \in Sys : MutexDeferred(s)' = MutexDeferred(s) /\ ~MutexDeferred(s)
  <2>1. ASSUME NEW s \in Sys, MutexDeferred(s) PROVE FALSE
    <3>1. current[s] \in Threads /\ Granted(current[s])
      BY <2>1, QueueTypes DEF Deferred, Waiting, Granted
    <3> QED BY <1>a, <1>d, <2>1, <3>1
  <2> QED BY <1>e, <2>1 DEF MutexDeferred, schedVars
<1>h. \A v \in Threads : pc[v] = "wake" => FALSE
  <2> SUFFICES ASSUME NEW v \in Threads, pc[v] = "wake" PROVE FALSE
    OBVIOUS
  <2>1. mpc[v] = "idle"
    BY DEF Calls, TypeOK, MutexTypeOK, MutexPC, Contexts
  <2> QED BY <1>d, <2>1 DEF Granted
<1>i. SendPop(t) => Message(t) \in Values /\ Message(t) # NULL
  BY MessageIsValue
<1>1. TypeOK'
  <2>1. channel_buffer' \in [Threads -> Values \cup {NULL}] /\ value' \in [Receivers -> Values \cup {NULL}]
    <3>1. CASE SendPop(t)
      BY <1>b, <1>i, <3>1 DEF TypeOK
    <3>2. CASE RecvPop(t)
      BY <1>b, <3>2 DEF TypeOK
    <3> QED BY <3>1, <3>2
  <2> QED BY <1>b, <1>e, <1>f, <2>1 DEF TypeOK, SchedInv, MutexTypeOK
<1>2. (SysUnlocks /\ Calls /\ Queued /\ Handoff)'
  <2>1. SysUnlocks' /\ Calls'
    BY <1>e DEF SysUnlocks, Calls, schedVars, TypeOK
  <2>2. Queued' /\ Handoff'
    BY <1>e DEF Queued, Handoff, schedVars, TypeOK
  <2> QED BY <2>1, <2>2
<1>3. ChanQueued' /\ Peers'
  <2>1. ChanQueued'
    BY <1>a, <1>b, <1>e DEF ChanQueued, TypeOK, schedVars
  <2>2. \A v \in Threads \ {t} : peer'[v] = NULL /\ pc'[v] # "wake"
    BY <1>b, <1>e, <1>h DEF Peers, TypeOK
  <2>3. peer'[t] = u /\ u # NULL /\ pc'[t] = "wake" /\ pc'[u] = "woken" /\ state'[u] = "BLOCKED"
    BY <1>b, <1>c, <1>e, ScheduleAssumption DEF TypeOK, schedVars
  <2> QED BY <1>b, <2>1, <2>2, <2>3 DEF Peers
<1>4. Blocking'
  <2>1. ASSUME NEW s \in Sys, spc[s] = "enter", state[current[s]] = "BLOCKED",
               lock_type[current[s]] = "MUTEX"
        PROVE  FALSE
    BY <1>g, <2>1 DEF MutexDeferred
  <2> QED BY <1>e, <2>1 DEF Blocking, schedVars
<1>5. LockTypes' /\ Deferred'
  BY <1>e, <1>g DEF LockTypes, Deferred, schedVars
<1>6. Buffers'
  <2>1. CASE SendPop(t)
    BY <1>a, <1>b, <1>c, <1>e, <1>i, <2>1, QueueTypes, SMTT(30) DEF Buffers, TypeOK
  <2>2. CASE RecvPop(t)
    BY <1>a, <1>b, <1>c, <1>e, <2>2, QueueTypes, SMTT(30) DEF Buffers, TypeOK
  <2> QED BY <2>1, <2>2
<1>7. OwnerGranted'
  BY <1>e, <1>g DEF OwnerGranted, Granted, schedVars, TypeOK
<1>8. OneHolder'
  BY <1>e, <1>f DEF OneHolder, SpinHolder
<1> QED BY <1>f, <1>1, <1>2, <1>3, <1>4, <1>5, <1>6, <1>7, <1>8

(* A thread finds no partner: it queues up and blocks, with the mutex. *)
LEMMA BlockInv ==
  ASSUME IInv, NEW t \in Threads, SendBlock(t) \/ RecvBlock(t)
  PROVE  IInv'
<1> USE DEF IInv, LockInv, ChanInv, AtPC, At, GotoPC, SendBlock, RecvBlock, lockVars
<1>a. /\ state[t] = "RUNNING" /\ t \notin Sys
      /\ t \notin Elements(blocked) /\ t \notin Waiting
      /\ \A s \in Sys : MutexDeferred(s) => current[s] # t
      /\ \A x \in Contexts : nextThread[x] # t
      /\ \A v \in Threads : peer[v] # t
  BY RunningAlone
<1>b. PICK s \in Sys : cond_wait(s, t, "MUTEX")
  OBVIOUS
<1>c. SchedInv'
  BY <1>b, CondWaitInv DEF LockType
<1>d. /\ blocked_send' \in Seq(Senders) /\ blocked_recv' \in Seq(Receivers)
      /\ NoDuplicate(blocked_send') /\ NoDuplicate(blocked_recv')
      /\ Waiting' = Waiting \cup {t}
      /\ SendBlock(t) => /\ Elements(blocked_send') = Elements(blocked_send) \cup {t}
                         /\ blocked_recv' = blocked_recv
                         /\ t \in Senders /\ t \notin Receivers
      /\ RecvBlock(t) => /\ Elements(blocked_recv') = Elements(blocked_recv) \cup {t}
                         /\ blocked_send' = blocked_send
                         /\ t \in Receivers /\ t \notin Senders
  <2>1. CASE SendBlock(t)
    <3>1. /\ blocked_send' \in Seq(Senders)
          /\ Elements(blocked_send') = Elements(blocked_send) \cup {t}
          /\ NoDuplicate(blocked_send')
      BY <1>a, <2>1, ElementsAppend, NoDuplicateAppend DEF TypeOK, ChanQueued, Waiting
    <3> QED BY <2>1, <3>1 DEF Waiting, TypeOK, ChanQueued, Receivers
  <2>2. CASE RecvBlock(t)
    <3>1. /\ blocked_recv' \in Seq(Receivers)
          /\ Elements(blocked_recv') = Elements(blocked_recv) \cup {t}
          /\ NoDuplicate(blocked_recv')
      BY <1>a, <2>2, ElementsAppend, NoDuplicateAppend DEF TypeOK, ChanQueued, Waiting
    <3> QED BY <2>2, <3>1 DEF Waiting, TypeOK, ChanQueued, Receivers
  <2> QED BY <2>1, <2>2
<1>e. /\ state' = [state EXCEPT ![t] = "BLOCKED"]
      /\ lock_type' = [lock_type EXCEPT ![t] = "MUTEX"]
      /\ spc' = [spc EXCEPT ![s] = "enter"]
      /\ current[s] = t /\ spc[s] = "green" /\ current' = current
      /\ lock_tpe' = lock_tpe
  BY <1>b DEF cond_wait, OnCpu
<1>f. \A r \in Sys \ {s} : spc[r] \in {"green", "enter"} => current[r] # t
  BY <1>e, HeldAlone DEF Held
<1>g. /\ pc' = [pc EXCEPT ![t] = "woken"]
      /\ UNCHANGED <<lockVars, peer, value, sent, recd_message>>
  OBVIOUS
<1>h. \A r \in Sys : SpinDeferred(r)' = SpinDeferred(r)
  BY <1>e, <1>f, SMTT(30) DEF SpinDeferred, TypeOK, SchedTypeOK
<1>i. MutexDeferred(s)' /\ \A r \in Sys \ {s} : MutexDeferred(r)' = MutexDeferred(r)
  <2>1. MutexDeferred(s)'
    BY <1>e, <1>f, <1>g DEF MutexDeferred, TypeOK, SchedTypeOK
  <2>2. \A r \in Sys \ {s} : MutexDeferred(r)' = MutexDeferred(r)
    BY <1>e, <1>f, <1>g DEF MutexDeferred, TypeOK, SchedTypeOK
  <2> QED BY <2>1, <2>2
<1>j. owner = t /\ \A v \in Threads : Granted(v) => v = t
  BY DEF OwnerGranted, Granted
<1>k. \A r \in Sys : ~MutexDeferred(r)
  <2> SUFFICES ASSUME NEW r \in Sys, MutexDeferred(r) PROVE FALSE
    OBVIOUS
  <2>1. current[r] \in Threads /\ Granted(current[r])
    BY QueueTypes DEF Deferred, Waiting, Granted
  <2> QED BY <1>a, <1>j, <2>1
<1>l. mpc[t] = "idle" /\ mpc[s] = "idle"
  BY <1>e DEF SysUnlocks
<1>1. TypeOK'
  <2>1. channel_buffer' \in [Threads -> Values \cup {NULL}]
    BY MessageIsValue DEF TypeOK
  <2> QED BY <1>c, <1>d, <1>g, <2>1 DEF TypeOK, SchedInv, MutexTypeOK
<1>2. SysUnlocks' /\ Calls'
  <2>1. SysUnlocks'
    BY <1>e, <1>g, <1>l DEF SysUnlocks, TypeOK, SchedTypeOK
  <2>2. Calls'
    BY <1>e, <1>g, <1>l DEF Calls, TypeOK, SchedTypeOK
  <2> QED BY <2>1, <2>2
<1>3. Queued' /\ Handoff'
  <2>1. Queued'
    BY <1>a, <1>e, <1>g, <1>l, SMTT(30) DEF Queued, TypeOK, MutexTypeOK, SchedTypeOK
  <2>2. Handoff'
    BY <1>a, <1>e, <1>g, <1>l DEF Handoff, TypeOK, MutexTypeOK, SchedTypeOK
  <2> QED BY <2>1, <2>2
<1>4. ChanQueued' /\ Peers'
  <2>1. /\ pc'[t] = "woken" /\ state'[t] = "BLOCKED" /\ peer' = peer
        /\ \A x \in Threads \ {t} : pc'[x] = pc[x] /\ state'[x] = state[x]
    BY <1>e, <1>g DEF TypeOK, SchedTypeOK
  <2>2. Waiting \subseteq Threads
    BY QueueTypes DEF Waiting
  <2>3. ChanQueued'
    BY <1>d, <2>1, <2>2 DEF ChanQueued
  <2>4. peer \in [Threads -> Threads \cup {NULL}] /\ peer[t] = NULL
    BY <1>a DEF Peers, TypeOK
  <2>5. \A x \in Threads : peer[x] # t
    BY <1>a DEF Peers
  <2> QED BY <1>d, <2>1, <2>3, <2>4, <2>5 DEF Peers
<1>5. Blocking'
  BY <1>a, <1>d, <1>e, <1>f, <1>g, SMTT(30) DEF Blocking, TypeOK, SchedTypeOK
<1>6. LockTypes'
  BY <1>a, <1>e, <1>f DEF LockTypes, TypeOK, SchedTypeOK
<1>7. Buffers'
  <2>1. CASE SendBlock(t)
    <3>1. Message(t) # NULL
      BY <2>1, MessageIsValue
    <3> QED BY <1>a, <1>d, <1>g, <2>1, <3>1, QueueTypes DEF Buffers, TypeOK
  <2>2. CASE RecvBlock(t)
    BY <1>a, <1>d, <1>g, <2>2, QueueTypes DEF Buffers, TypeOK
  <2> QED BY <2>1, <2>2
<1>8. Deferred'
  BY <1>d, <1>e, <1>i, <1>k DEF Deferred
<1>9. OwnerGranted'
  BY <1>a, <1>e, <1>g, <1>i, <1>j, <1>k, <1>l DEF OwnerGranted, Granted, TypeOK
<1>10. OneHolder'
  BY <1>g, <1>h DEF OneHolder, SpinHolder
<1> QED BY <1>c, <1>1, <1>2, <1>3, <1>4, <1>5, <1>6, <1>7, <1>8, <1>9, <1>10

(* channel_send or channel_receive returns. *)
LEMMA ReturnInv ==
  ASSUME IInv, NEW t \in Threads, SendReturn(t) \/ RecvReturn(t)
  PROVE  IInv'
<1> USE DEF IInv, LockInv, ChanInv, AtPC, At, GotoPC, SendReturn, RecvReturn, lockVars, chanVars
<1>a. /\ state[t] = "RUNNING" /\ t \notin Sys
      /\ t \notin Elements(blocked) /\ t \notin Waiting
      /\ \A v \in Threads : peer[v] # t
  BY RunningAlone
<1>b. /\ pc' = [pc EXCEPT ![t] = "out"] /\ mpc[t] = "idle" /\ pc[t] \in {"unlocked", "woken"}
      /\ UNCHANGED <<schedVars, lockVars, blocked_send, blocked_recv, peer>>
  OBVIOUS
<1>c. SchedInv' /\ \A s \in Sys : SpinDeferred(s)' = SpinDeferred(s)
  BY SchedUnchanged
<1>d. \A s \in Sys : MutexDeferred(s)' = MutexDeferred(s)
  BY <1>b DEF MutexDeferred, schedVars
<1>1. TypeOK'
  <2>1. CASE SendReturn(t)
    <3>1. sent[t] \in 0 .. Count /\ sent[t] < Count
      BY <2>1 DEF TypeOK, Buffers
    <3>2. sent' \in [Senders -> 0 .. Count]
      BY <2>1, <3>1, ChannelAssumption DEF TypeOK
    <3> QED BY <1>b, <1>c, <2>1, <3>2 DEF TypeOK, SchedInv, MutexTypeOK
  <2>2. CASE RecvReturn(t)
    <3>1. /\ pc[t] = "unlocked" => value[t] \in Values
          /\ pc[t] = "woken" => channel_buffer[t] \in Values
      BY <1>a, <2>2, QueueTypes DEF TypeOK, Buffers, Waiting
    <3>2. PICK v \in Values : recd_message' = [recd_message EXCEPT ![t] = Append(@, v)]
      BY <2>2, <3>1
    <3>3. Append(recd_message[t], v) \in Seq(Values)
      BY <2>2 DEF TypeOK
    <3>4. recd_message' \in [Receivers -> Seq(Values)]
      BY <3>2, <3>3 DEF TypeOK
    <3>5. channel_buffer' \in [Threads -> Values \cup {NULL}] /\ value' \in [Receivers -> Values \cup {NULL}]
      BY <2>2 DEF TypeOK
    <3> QED BY <1>b, <1>c, <2>2, <3>4, <3>5 DEF TypeOK, SchedInv, MutexTypeOK
  <2> QED BY <2>1, <2>2
<1>2. (SysUnlocks /\ Calls /\ Queued /\ Handoff)'
  <2>1. SysUnlocks' /\ Calls'
    BY <1>b DEF SysUnlocks, Calls, schedVars, TypeOK
  <2>2. Queued' /\ Handoff'
    BY <1>b DEF Queued, Handoff, schedVars, TypeOK
  <2> QED BY <2>1, <2>2
<1>3. ChanQueued' /\ Peers'
  BY <1>a, <1>b DEF ChanQueued, Peers, Waiting, TypeOK, schedVars
<1>4. Blocking' /\ LockTypes' /\ Deferred'
  BY <1>b, <1>d DEF Blocking, LockTypes, Deferred, Waiting, schedVars
<1>5. Buffers'
  <2>1. CASE SendReturn(t)
    BY <1>a, <1>b, <2>1, QueueTypes DEF Buffers, TypeOK
  <2>2. CASE RecvReturn(t)
    BY <1>a, <1>b, <2>2, QueueTypes DEF Buffers, TypeOK, Waiting
  <2> QED BY <2>1, <2>2
<1>6. OwnerGranted'
  BY <1>b, <1>d DEF OwnerGranted, Granted, schedVars, TypeOK
<1>7. OneHolder'
  BY <1>b, <1>c DEF OneHolder, SpinHolder
<1> QED BY <1>c, <1>1, <1>2, <1>3, <1>4, <1>5, <1>6, <1>7

(* A thread ends. *)
LEMMA ExitInv ==
  ASSUME IInv, NEW t \in Threads, Exit(t)
  PROVE  IInv'
<1> USE DEF IInv, LockInv, ChanInv, AtPC, At, GotoPC, Exit, lockVars, chanVars
<1>a. /\ state[t] = "RUNNING" /\ t \notin Sys
      /\ t \notin Elements(blocked) /\ t \notin Waiting
      /\ \A x \in Contexts : nextThread[x] # t
      /\ \A v \in Threads : peer[v] # t
      /\ lock_type[t] = "NONE"
  BY RunningAlone
<1>b. PICK s \in Sys : yield(s, t, "ZOMBIE")
  OBVIOUS
<1>c. SchedInv'
  BY <1>b, YieldInv
<1>d. /\ state' = [state EXCEPT ![t] = "ZOMBIE"]
      /\ spc' = [spc EXCEPT ![s] = "enter"]
      /\ current[s] = t /\ spc[s] = "green"
      /\ UNCHANGED <<current, lock_type, lock_tpe>>
  BY <1>b DEF yield, OnCpu
<1>e. \A r \in Sys \ {s} : spc[r] \in {"green", "enter"} => current[r] # t
  BY <1>d, HeldAlone DEF Held
<1>f. pc' = [pc EXCEPT ![t] = "done"] /\ mpc[t] = "idle" /\ pc[t] = "out" /\ mpc[s] = "idle"
  BY <1>d DEF SysUnlocks
<1>g. \A r \in Sys : SpinDeferred(r)' = SpinDeferred(r) /\ MutexDeferred(r)' = MutexDeferred(r)
  BY <1>d, <1>e, <1>f DEF SpinDeferred, MutexDeferred, TypeOK, SchedTypeOK
<1>1. TypeOK'
  BY <1>c DEF TypeOK, SchedInv, MutexTypeOK
<1>2. (SysUnlocks /\ Calls)'
  BY <1>d, <1>f DEF SysUnlocks, Calls, TypeOK, SchedTypeOK
<1>3. (Queued /\ Handoff)'
  BY <1>a, <1>d, <1>f DEF Queued, Handoff, TypeOK, MutexTypeOK, SchedTypeOK
<1>4. (ChanQueued /\ Peers)'
  BY <1>a, <1>d, <1>f DEF ChanQueued, Peers, Waiting, TypeOK, SchedTypeOK
<1>5. (Blocking /\ LockTypes)'
  BY <1>a, <1>d, <1>e DEF Blocking, LockTypes, Waiting, TypeOK, SchedTypeOK
<1>6. Buffers'
  BY <1>f DEF Buffers, TypeOK, Receivers
<1>7. (Deferred /\ OwnerGranted)'
  BY <1>d, <1>f, <1>g DEF Deferred, Waiting, OwnerGranted, Granted, TypeOK
<1>8. OneHolder'
  BY <1>g DEF OneHolder, SpinHolder
<1> QED BY <1>c, <1>1, <1>2, <1>3, <1>4, <1>5, <1>6, <1>7, <1>8

-----------------------------------------------------------------------------
(* The invariant, and the two invariants of the runs. *)

(* The invariant holds when the threads have been created. *)
LEMMA InitInv == Init => IInv
<1> SUFFICES ASSUME Init PROVE IInv
  OBVIOUS
<1> USE DEF Init, mutex_init, channel_init
<1>1. SchedInv
  BY SchedInitInv
<1>2. TypeOK
  BY <1>1, ChannelAssumption DEF SchedInv, TypeOK, MutexTypeOK, MutexPC
<1>3. SysUnlocks /\ Calls /\ Queued /\ Handoff
  BY ElementsEmpty DEF SysUnlocks, Calls, Queued, Handoff, Contexts, NoDuplicate
<1>4. ChanQueued /\ Peers
  BY ElementsEmpty DEF ChanQueued, Peers, Waiting, NoDuplicate
<1>5. Blocking /\ LockTypes
  BY DEF SchedInit, Blocking, LockTypes
<1>6. \A s \in Sys : ~MutexDeferred(s) /\ ~SpinDeferred(s)
  BY DEF SchedInit, MutexDeferred, SpinDeferred, Contexts
<1>7. Deferred /\ OwnerGranted
  BY <1>6 DEF Deferred, OwnerGranted, Granted, Contexts
<1>8. OneHolder
  BY <1>6 DEF OneHolder, SpinHolder, Contexts
<1>9. Buffers
  BY ElementsEmpty, ChannelAssumption DEF Buffers, Receivers
<1> QED BY <1>1, <1>2, <1>3, <1>4, <1>5, <1>7, <1>8, <1>9 DEF IInv, LockInv, ChanInv

(* A step in which nothing changes preserves it. *)
LEMMA StutterInv ==
  ASSUME IInv, UNCHANGED vars
  PROVE  IInv'
<1> USE DEF vars, lockVars, chanVars, progVars
<1>1. SchedInv' /\ \A s \in Sys : SpinDeferred(s)' = SpinDeferred(s)
  BY SchedUnchanged DEF IInv
<1>2. TypeOK'
  BY <1>1 DEF IInv, TypeOK, SchedInv, MutexTypeOK
<1>3. LockInv'
  BY <1>1 DEF IInv, LockInv, SysUnlocks, Calls, Queued, Handoff, OwnerGranted, Granted,
              MutexDeferred, OneHolder, SpinHolder, schedVars
<1>4. ChanInv'
  BY DEF IInv, ChanInv, ChanQueued, Peers, Blocking, Deferred, MutexDeferred, LockTypes,
         Buffers, Waiting, schedVars
<1> QED BY <1>1, <1>2, <1>3, <1>4 DEF IInv

(* Every step preserves it. *)
LEMMA NextInv ==
  ASSUME IInv, [Next]_vars
  PROVE  IInv'
<1>1. ASSUME NEW t \in Threads, Thread(t) PROVE IInv'
  <2>1. CASE Operation(t)
    BY <2>1, LockInvariant, WakePeerInv, ExitInv, PopInv, BlockInv, ReturnInv DEF Operation
  <2>2. CASE mutex_lock(t) /\ UNCHANGED <<chanVars, progVars>>
    BY <2>2, LockGoesOnInv, LockQueueInv DEF mutex_lock
  <2>3. CASE mutex_unlock(t) /\ UNCHANGED <<chanVars, progVars>>
    BY <2>3, UnlockGoesOnInv, UnlockGiveInv, UnlockWakeInv DEF mutex_unlock, Contexts
  <2> QED BY <1>1, <2>1, <2>2, <2>3 DEF Thread
<1>2. ASSUME NEW s \in Sys, System(s) PROVE IInv'
  BY <1>2, ScheduleInv, ReleaseSpinlockInv, ReleaseMutexInv, UnlockGoesOnInv, UnlockGiveInv,
     UnlockWakeInv DEF System, mutex_unlock, Contexts
<1>3. CASE UNCHANGED vars
  BY <1>3, StutterInv
<1> QED BY <1>1, <1>2, <1>3 DEF Next, Terminated

(* The invariant holds in every reachable state. *)
THEOREM Invariance == Spec => []IInv
<1>1. Init => IInv
  BY InitInv
<1>2. IInv /\ [Next]_vars => IInv'
  BY NextInv
<1> QED BY <1>1, <1>2, PTL DEF Spec

(* One thread at a time works on the channel's lists and buffers, the one that owns
   the mutex: also while schedule() unlocks it for a thread that has already left its
   stack (channel.c:14-80, schedule.c:114-131). *)
THEOREM ChannelExcludes == Spec => []ChannelExclusion
<1>1. IInv => ChannelExclusion
  <2> SUFFICES ASSUME IInv, NEW t \in Threads, HasMutex(t)
               PROVE  owner = t /\ \A u \in Threads \ {t} : ~HasMutex(u)
    BY DEF ChannelExclusion, IInv
  <2>1. \A u \in Threads : HasMutex(u) => Granted(u)
    BY DEF HasMutex, Granted, MutexDeferred
  <2> QED BY <2>1 DEF IInv, LockInv, OwnerGranted
<1> QED BY <1>1, Invariance, PTL

(* The assertions of the channel, the mutex and the scheduler hold: the partner that is
   woken, and the thread the mutex is handed to, are still BLOCKED and in no list
   (utils.c:43-44); mutex_unlock is called by the owner, also from schedule()
   (mutex.c:49); a sender that comes back finds its buffer empty (channel.c:36). *)
THEOREM ChannelAsserts == Spec => []ChannelAssertsHold
<1>1. IInv => ChannelAssertsHold
  <2> SUFFICES ASSUME IInv PROVE ChannelAssertsHold
    OBVIOUS
  <2> USE DEF IInv, LockInv, ChanInv
  <2>0. \A u \in Elements(runnable) : state[u] = "RUNNABLE"
    BY DEF SchedInv, StatesMatch
  <2>1. \A x \in Contexts : mpc[x] = "unlock_give" => owner = CurrentId(x)
    BY UnlockerOwns
  <2>2. \A x \in Contexts : mpc[x] = "unlock_wake" =>
          /\ state[nextThread[x]] = "BLOCKED"
          /\ nextThread[x] \notin Elements(blocked) \cup Elements(runnable)
    BY <2>0 DEF Handoff
  <2>3. \A s \in Sys : spc[s] = "green" =>
          state[current[s]] = "RUNNING" /\ lock_type[current[s]] = "NONE"
    BY DEF SchedInv, StatesMatch, LockTypes, TypeOK, SchedTypeOK
  <2>4. \A t \in Threads : pc[t] = "wake" =>
          state[peer[t]] = "BLOCKED" /\ peer[t] \notin Elements(runnable)
    BY <2>0 DEF Peers
  <2>5. ASSUME NEW t \in Senders, AtPC(t, "woken") PROVE channel_buffer[t] = NULL
    <3>1. t \in Threads /\ t \notin Waiting
      BY <2>5, QueueTypes, RunningAlone DEF AtPC, At
    <3> QED BY <3>1 DEF Buffers, Waiting
  <2> QED BY <2>1, <2>2, <2>3, <2>4, <2>5 DEF ChannelAssertsHold, AssertsHold
<1> QED BY <1>1, Invariance, PTL

(* The spinlock of the channel's mutex has exactly one context to release it, a thread
   or a system thread that unlocks for one (spinlock.c:23-24). *)
THEOREM SpinlockReleasedOnce == Spec => []SpinlockHeld
<1>1. IInv => SpinlockHeld
  BY DEF IInv, LockInv, OneHolder, SpinlockHeld, Contexts
<1> QED BY <1>1, Invariance, PTL

-----------------------------------------------------------------------------
(* The refinement. *)

(* The sends of a queue of senders whose buffers hold what they send. *)
Send(t, v) == [thread |-> t, value |-> v]

SendsOf(queue, buffer) == [i \in DOMAIN queue |-> Send(queue[i], buffer[queue[i]])]

Sends(S, V) == [thread : S, value : V]

(* The sends of a queue depend on the buffers of its threads only. *)
LEMMA SendsSame ==
  ASSUME NEW q, NEW b1, NEW b2, \A t \in Elements(q) : b1[t] = b2[t]
  PROVE  SendsOf(q, b1) = SendsOf(q, b2)
BY DEF SendsOf, Elements

(* sends is a sequence of members of R, for each thread of the queue its send. *)
MatchSends(sends, R, queue, buffer) ==
  /\ sends \in Seq(R)
  /\ Len(sends) = Len(queue)
  /\ \A i \in 1 .. Len(queue) : sends[i] = Send(queue[i], buffer[queue[i]])

(* They are a sequence, as long as the queue. *)
LEMMA SendsType ==
  ASSUME NEW S, NEW q \in Seq(S), NEW V, NEW b \in [S -> V]
  PROVE  MatchSends(SendsOf(q, b), Sends(S, V), q, b)
<1>1. /\ DOMAIN q = 1 .. Len(q) /\ Len(q) \in Nat
      /\ \A i \in 1 .. Len(q) : q[i] \in S
  OBVIOUS
<1>2. /\ DOMAIN SendsOf(q, b) = 1 .. Len(q)
      /\ \A i \in 1 .. Len(q) : SendsOf(q, b)[i] = Send(q[i], b[q[i]])
  BY <1>1 DEF SendsOf
<1>3. SendsOf(q, b) \in [1 .. Len(q) -> Sends(S, V)]
  BY <1>1 DEF SendsOf, Send, Sends
<1>4. SendsOf(q, b) \in Seq(Sends(S, V))
  BY <1>1, <1>3, SeqDef
<1>5. Len(SendsOf(q, b)) = Len(q)
  BY <1>1, <1>2, <1>4, LenProperties
<1> QED BY <1>2, <1>4, <1>5 DEF MatchSends

(* A send that waits is added at the end. *)
AddsSend(q, b, x, m) ==
  SendsOf(Append(q, x), [b EXCEPT ![x] = m]) = Append(SendsOf(q, b), Send(x, m))

LEMMA SendsAppend ==
  ASSUME NEW S, NEW q \in Seq(S), NEW x \in S, x \notin Elements(q),
         NEW V, NEW b \in [S -> V], NEW m \in V
  PROVE  AddsSend(q, b, x, m)
<1> USE DEF AddsSend
<1> DEFINE c == [b EXCEPT ![x] = m]
           R == Sends(S, V)
           e == Send(x, m)
           r == Append(q, x)
           z == SendsOf(q, b)
           y == SendsOf(r, c)
<1>1. /\ r \in Seq(S) /\ Len(r) = Len(q) + 1
      /\ \A i \in 1 .. Len(q) : r[i] = q[i]
      /\ r[Len(q) + 1] = x /\ Len(q) \in Nat
  BY AppendProperties, LenProperties
<1>2. c \in [S -> V] /\ c[x] = m /\ \A t \in Elements(q) : c[t] = b[t]
  BY ElementsType
<1>3. \A i \in 1 .. Len(q) : q[i] \in Elements(q)
  BY LenProperties DEF Elements
<1>4. MatchSends(z, R, q, b)
  BY SendsType
<1>5. e \in R
  BY DEF Send, Sends
<1> HIDE DEF r, c
<1>6. MatchSends(y, R, r, c)
  BY <1>1, <1>2, SendsType
<1> HIDE DEF R, z, y
<1>7. /\ Append(z, e) \in Seq(R)
      /\ Len(Append(z, e)) = Len(q) + 1
      /\ \A i \in 1 .. Len(q) : Append(z, e)[i] = z[i]
      /\ Append(z, e)[Len(q) + 1] = e
  BY <1>4, <1>5, AppendProperties DEF MatchSends
<1>8. ASSUME NEW i \in 1 .. Len(y)
      PROVE  y[i] = Append(z, e)[i]
  <2>1. i \in 1 .. Len(r) /\ (i \in 1 .. Len(q) \/ i = Len(q) + 1)
    BY <1>1, <1>6 DEF MatchSends
  <2>2. y[i] = Send(r[i], c[r[i]])
    BY <1>6, <2>1 DEF MatchSends
  <2>3. CASE i \in 1 .. Len(q)
    BY <1>1, <1>2, <1>3, <1>4, <1>7, <2>2, <2>3 DEF MatchSends
  <2>4. CASE i = Len(q) + 1
    BY <1>1, <1>2, <1>7, <2>2, <2>4
  <2> QED BY <2>1, <2>3, <2>4
<1>9. y = Append(z, e)
  BY <1>1, <1>6, <1>7, <1>8, SeqEqual DEF MatchSends
<1> QED BY <1>9 DEF r, c, z, y

(* A send whose value is taken leaves at the head. *)
TakesSend(q, b) ==
  /\ SendsOf(q, b) # <<>>
  /\ Head(SendsOf(q, b)) = Send(Head(q), b[Head(q)])
  /\ SendsOf(Tail(q), b) = Tail(SendsOf(q, b))

LEMMA SendsTail ==
  ASSUME NEW S, NEW q \in Seq(S), q # <<>>, NEW V, NEW b \in [S -> V]
  PROVE  TakesSend(q, b)
<1> USE DEF TakesSend
<1> DEFINE R == Sends(S, V)
           r == Tail(q)
           z == SendsOf(q, b)
           y == SendsOf(r, b)
<1>1. /\ Len(q) \in Nat \ {0} /\ Head(q) = q[1]
      /\ r \in Seq(S) /\ Len(r) = Len(q) - 1
      /\ \A i \in 1 .. Len(r) : r[i] = q[i + 1]
  BY HeadTailProperties, EmptySeq
<1>2. MatchSends(z, R, q, b)
  BY SendsType
<1> HIDE DEF r
<1>3. MatchSends(y, R, r, b)
  BY <1>1, SendsType
<1> HIDE DEF R, z, y
<1>4. z # <<>> /\ Head(z) = z[1]
  BY <1>1, <1>2 DEF MatchSends
<1>5. /\ Tail(z) \in Seq(R) /\ Len(Tail(z)) = Len(z) - 1
      /\ \A i \in 1 .. Len(Tail(z)) : Tail(z)[i] = z[i + 1]
  BY <1>2, <1>4, HeadTailProperties DEF MatchSends
<1>6. Len(y) = Len(Tail(z))
  BY <1>1, <1>2, <1>3, <1>5 DEF MatchSends
<1>7. ASSUME NEW i \in 1 .. Len(y)
      PROVE  y[i] = Tail(z)[i]
  <2>1. i \in 1 .. Len(r) /\ i \in 1 .. Len(Tail(z)) /\ i + 1 \in 1 .. Len(q)
    BY <1>1, <1>3, <1>6 DEF MatchSends
  <2>2. y[i] = Send(q[i + 1], b[q[i + 1]])
    BY <1>1, <1>3, <2>1 DEF MatchSends
  <2>3. Tail(z)[i] = Send(q[i + 1], b[q[i + 1]])
    BY <1>2, <1>5, <2>1 DEF MatchSends
  <2> QED BY <2>2, <2>3
<1>8. y = Tail(z)
  BY <1>3, <1>5, <1>6, <1>7, SeqEqual DEF MatchSends
<1> QED BY <1>1, <1>2, <1>4, <1>8 DEF MatchSends, r, z, y

(* The variables of SyncChannel. *)
SyncSends == SendsOf(blocked_send, channel_buffer)
SyncPaired == {t \in Senders : Paired(t)}
SyncGiven == [t \in Receivers |-> IF value[t] # NULL THEN value[t] ELSE channel_buffer[t]]

(* A thread that is about to send or to receive is in no pair and in no queue. *)
LEMMA AboutToMeet ==
  ASSUME IInv, NEW t \in Threads, AtPC(t, "locked")
  PROVE  /\ t \in Senders => Sync!NotSending(t)
         /\ t \in Receivers => Sync!NotReceiving(t)
<1>1. t \notin Elements(blocked_send) /\ t \notin Elements(blocked_recv) /\ pc[t] = "locked"
  BY RunningAlone DEF AtPC, At, Waiting
<1>2. ASSUME t \in Senders PROVE Sync!NotSending(t)
  <2>1. ~Paired(t)
    BY <1>1 DEF Paired
  <2>2. \A i \in DOMAIN SyncSends : SyncSends[i].thread # t
    BY <1>1 DEF SyncSends, SendsOf, Send, Elements
  <2> QED BY <2>1, <2>2 DEF Sync!NotSending, SyncSends, SendsOf, Send
<1>3. ASSUME t \in Receivers PROVE Sync!NotReceiving(t)
  <2>1. value[t] = NULL /\ channel_buffer[t] = NULL
    BY <1>1, <1>3 DEF IInv, ChanInv, Buffers
  <2> QED BY <1>1, <1>3, <2>1 DEF Sync!NotReceiving, Elements
<1> QED BY <1>2, <1>3

(* The sender is paired with the receiver that waits first. *)
LEMMA SendPopImplements ==
  ASSUME IInv, NEW t \in Threads, SendPop(t), NEW v \in Values, v = Message(t)
  PROVE  Sync!SendPair(t, v)
<1> USE DEF IInv, ChanInv, AtPC, At, GotoPC, SendPop
<1> DEFINE u == Head(blocked_recv)
<1>1. Sync!NotSending(t)
  BY AboutToMeet
<1>2. u \in Receivers /\ u \in Elements(blocked_recv)
  BY ElementsTail DEF TypeOK
<1>3. pc[u] = "woken" /\ u \notin Senders /\ u \in Threads
  BY <1>2, QueueTypes DEF ChanQueued, Waiting
<1>4. value[u] = NULL
  BY <1>2, <1>3 DEF Buffers
<1> HIDE DEF u
<1>5. channel_buffer' = [channel_buffer EXCEPT ![u] = Message(t)]
  BY DEF u
<1>6. SyncGiven' = [SyncGiven EXCEPT ![u] = Message(t)]
  <2>1. \A r \in Receivers : SyncGiven'[r] = IF r = u THEN Message(t) ELSE SyncGiven[r]
    BY <1>3, <1>4, <1>5, QueueTypes DEF SyncGiven, TypeOK
  <2> QED BY <1>2, <2>1 DEF SyncGiven
<1>7. SyncPaired' = SyncPaired \cup {t}
  BY <1>3, <1>5, QueueTypes DEF SyncPaired, Paired, TypeOK
<1>8. SyncSends' = SyncSends
  <2>1. \A w \in Elements(blocked_send) : channel_buffer[w] = channel_buffer'[w]
    BY <1>3, <1>5, QueueTypes DEF TypeOK
  <2>2. SyncSends' = SendsOf(blocked_send, channel_buffer')
    BY DEF SyncSends
  <2>3. SendsOf(blocked_send, channel_buffer) = SendsOf(blocked_send, channel_buffer')
    BY <2>1, SendsSame
  <2> QED BY <2>2, <2>3 DEF SyncSends
<1> QED BY <1>1, <1>6, <1>7, <1>8
        DEF Sync!SendPair, u, SyncGiven, SyncPaired, SyncSends, SendsOf, Send

(* Or waits its turn. *)
LEMMA SendBlockImplements ==
  ASSUME IInv, NEW t \in Threads, SendBlock(t), NEW v \in Values, v = Message(t)
  PROVE  Sync!SendWait(t, v)
<1> USE DEF IInv, ChanInv, AtPC, At, GotoPC, SendBlock
<1>1. Sync!NotSending(t)
  BY AboutToMeet
<1>2. t \notin Elements(blocked_send) /\ t \notin Receivers
  BY RunningAlone, QueueTypes DEF Waiting
<1>3. Message(t) \in Values /\ Message(t) # NULL
  BY MessageIsValue
<1>4. SyncGiven' = SyncGiven
  BY <1>2, QueueTypes DEF SyncGiven, TypeOK
<1>5. SyncPaired' = SyncPaired
  BY <1>3, QueueTypes DEF SyncPaired, Paired, TypeOK
<1>6. SyncSends' = Append(SyncSends, Send(t, Message(t)))
  <2>1. blocked_send \in Seq(Threads) /\ channel_buffer \in [Threads -> Values \cup {NULL}]
    BY QueueTypes, SeqMonotonic DEF TypeOK
  <2> DEFINE V == Values \cup {NULL}
             m == Message(t)
  <2>2. m \in V /\ channel_buffer \in [Threads -> V]
    BY <1>3, <2>1
  <2> HIDE DEF V, m
  <2>3. AddsSend(blocked_send, channel_buffer, t, m)
    BY <1>2, <2>1, <2>2, SendsAppend
  <2> QED BY <2>3 DEF AddsSend, SyncSends, m
<1> QED BY <1>1, <1>4, <1>5, <1>6
        DEF Sync!SendWait, SyncGiven, SyncPaired, SyncSends, SendsOf, Send

(* A send returns once it is paired. *)
LEMMA SendReturnImplements ==
  ASSUME IInv, NEW t \in Threads, SendReturn(t)
  PROVE  Sync!SendReturn(t)
<1> USE DEF IInv, ChanInv, AtPC, At, GotoPC, SendReturn, chanVars
<1>1. Paired(t)
  <2>1. t \notin Elements(blocked_send)
    BY RunningAlone DEF Waiting
  <2> QED BY <2>1 DEF Paired, Buffers
<1>2. SyncPaired' = SyncPaired \ {t}
  BY QueueTypes DEF SyncPaired, Paired, TypeOK
<1> QED BY <1>1, <1>2 DEF Sync!SendReturn, SyncPaired

(* The receiver is paired with the sender that waits first. *)
LEMMA RecvPopImplements ==
  ASSUME IInv, NEW t \in Threads, RecvPop(t)
  PROVE  Sync!RecvPair(t)
<1> USE DEF IInv, ChanInv, AtPC, At, GotoPC, RecvPop
<1> DEFINE u == Head(blocked_send)
           V == Values \cup {NULL}
<1>1. Sync!NotReceiving(t)
  BY AboutToMeet
<1>2. u \in Senders /\ u \in Elements(blocked_send) /\ u \notin Elements(Tail(blocked_send))
      /\ Tail(blocked_send) \in Seq(Senders)
  BY ElementsTail, NoDuplicateTail DEF TypeOK, ChanQueued
<1>3. pc[u] = "woken" /\ u \notin Receivers /\ u \in Threads /\ channel_buffer[u] # NULL
  BY <1>2, QueueTypes DEF ChanQueued, Waiting, Buffers
<1>4. /\ blocked_send \in Seq(Threads) /\ channel_buffer \in [Threads -> V]
      /\ Tail(blocked_send) \in Seq(Threads)
  BY <1>2, QueueTypes, SeqMonotonic DEF TypeOK
<1> HIDE DEF V
<1>5. /\ SyncSends # <<>>
      /\ Head(SyncSends) = Send(u, channel_buffer[u])
      /\ SendsOf(Tail(blocked_send), channel_buffer) = Tail(SyncSends)
  <2>1. TakesSend(blocked_send, channel_buffer)
    BY <1>4, SendsTail
  <2> QED BY <2>1 DEF TakesSend, SyncSends
<1> HIDE DEF u
<1>6. /\ channel_buffer' = [channel_buffer EXCEPT ![u] = NULL]
      /\ value' = [value EXCEPT ![t] = channel_buffer[u]]
  BY DEF u
<1>7. SyncSends' = Tail(SyncSends)
  <2> DEFINE q == Tail(blocked_send)
  <2>1. q \in Seq(Threads) /\ \A v \in Elements(q) : channel_buffer[v] = channel_buffer'[v]
    BY <1>2, <1>3, <1>4, <1>6, ElementsType
  <2>2. SyncSends' = SendsOf(q, channel_buffer')
    BY DEF SyncSends
  <2> HIDE DEF q
  <2>3. SendsOf(q, channel_buffer) = SendsOf(q, channel_buffer')
    BY <2>1, SendsSame
  <2> QED BY <1>5, <2>2, <2>3 DEF q
<1>8. SyncGiven' = [SyncGiven EXCEPT ![t] = Head(SyncSends).value]
  <2>1. Head(SyncSends).value = channel_buffer[u]
    BY <1>5 DEF Send
  <2>2. \A r \in Receivers : SyncGiven'[r] = IF r = t THEN channel_buffer[u] ELSE SyncGiven[r]
    BY <1>3, <1>6, QueueTypes DEF SyncGiven, TypeOK
  <2>3. SyncGiven' = [SyncGiven EXCEPT ![t] = channel_buffer[u]]
    BY <2>2 DEF SyncGiven
  <2> QED BY <2>1, <2>3
<1>9. SyncPaired' = SyncPaired \cup {Head(SyncSends).thread}
  <2>1. t \notin Senders /\ Head(SyncSends).thread = u
    BY <1>5, QueueTypes DEF Send
  <2> QED BY <1>2, <1>3, <1>6, <2>1, QueueTypes DEF SyncPaired, Paired, TypeOK
<1> QED BY <1>1, <1>5, <1>7, <1>8, <1>9
        DEF Sync!RecvPair, SyncGiven, SyncPaired, SyncSends, SendsOf, Send

(* Or waits its turn. *)
LEMMA RecvBlockImplements ==
  ASSUME IInv, NEW t \in Threads, RecvBlock(t)
  PROVE  Sync!RecvWait(t)
<1> USE DEF IInv, ChanInv, AtPC, At, GotoPC, RecvBlock
<1>1. Sync!NotReceiving(t)
  BY AboutToMeet
<1>2. SyncPaired' = SyncPaired
  BY QueueTypes DEF SyncPaired, Paired, TypeOK
<1>3. SyncSends = <<>>
  BY DEF SyncSends, SendsOf
<1> QED BY <1>1, <1>2, <1>3 DEF Sync!RecvWait, SyncPaired, SyncSends, SendsOf, Send

(* What one receiver is given changes. *)
LEMMA GivenBecomes ==
  ASSUME NEW t \in Receivers, NEW v,
         \A r \in Receivers : SyncGiven'[r] = IF r = t THEN v ELSE SyncGiven[r]
  PROVE  SyncGiven' = [SyncGiven EXCEPT ![t] = v]
BY DEF SyncGiven

(* A receive returns the value it was given. *)
LEMMA RecvReturnImplements ==
  ASSUME IInv, NEW t \in Threads, RecvReturn(t)
  PROVE  Sync!RecvReturn(t)
<1> USE DEF IInv, ChanInv, AtPC, At, GotoPC, RecvReturn
<1>1. t \notin Elements(blocked_recv) /\ t \notin Senders /\ t \in Receivers /\ pc[t] \in {"unlocked", "woken"}
  BY RunningAlone, QueueTypes DEF Waiting
<1>2. /\ value[t] # NULL <=> pc[t] = "unlocked"
      /\ channel_buffer[t] # NULL <=> pc[t] = "woken"
  BY <1>1 DEF Buffers
<1>3. SyncGiven[t] # NULL
  BY <1>1, <1>2 DEF SyncGiven
<1>4. recd_message' = [recd_message EXCEPT ![t] = Append(@, SyncGiven[t])]
  BY <1>1, <1>2 DEF SyncGiven
<1>5. SyncGiven' = [SyncGiven EXCEPT ![t] = NULL]
  <2>1. \A r \in Receivers : SyncGiven'[r] = IF r = t THEN NULL ELSE SyncGiven[r]
    BY <1>1, <1>2, QueueTypes DEF SyncGiven, TypeOK
  <2> QED BY <1>1, <2>1, GivenBecomes
<1>6. SyncPaired' = SyncPaired
  BY <1>1, QueueTypes DEF SyncPaired, Paired, TypeOK
<1>7. SyncSends' = SyncSends
  <2>1. \A v \in Elements(blocked_send) : channel_buffer[v] = channel_buffer'[v]
    BY <1>1, QueueTypes DEF TypeOK
  <2> QED BY <2>1, SendsSame DEF SyncSends, TypeOK
<1> QED BY <1>3, <1>4, <1>5, <1>6, <1>7
        DEF Sync!RecvReturn, SyncGiven, SyncPaired, SyncSends, SendsOf, Send

(* Every other step leaves the pairs as they are. *)
LEMMA SyncUnchanged ==
  ASSUME IInv, UNCHANGED <<chanVars, value, recd_message>>, \A t \in Senders : Paired(t)' = Paired(t)
  PROVE  UNCHANGED Sync!vars
BY DEF Sync!vars, chanVars

LEMMA StepImplements ==
  ASSUME IInv, [Next]_vars
  PROVE  [Sync!Next]_(Sync!vars)
<1> USE DEF progVars
<1>1. ASSUME NEW t \in Threads, Operation(t) PROVE [Sync!Next]_(Sync!vars)
  <2>1. CASE SendPop(t)
    <3>1. t \in Senders /\ Message(t) \in Values
      BY <2>1, MessageIsValue DEF SendPop, AtPC
    <3>2. PICK v \in Values : v = Message(t)
      BY <3>1
    <3>3. Sync!SendPair(t, v)
      BY <2>1, <3>2, SendPopImplements
    <3> QED BY <3>1, <3>3, Zenon DEF Sync!Next
  <2>2. CASE SendBlock(t)
    <3>1. t \in Senders /\ Message(t) \in Values
      BY <2>2, MessageIsValue DEF SendBlock, AtPC
    <3>2. PICK v \in Values : v = Message(t)
      BY <3>1
    <3>3. Sync!SendWait(t, v)
      BY <2>2, <3>2, SendBlockImplements
    <3> QED BY <3>1, <3>3, Zenon DEF Sync!Next
  <2>3. CASE SendReturn(t)
    BY <2>3, SendReturnImplements DEF Sync!Next, SendReturn
  <2>4. CASE RecvPop(t)
    BY <2>4, RecvPopImplements DEF Sync!Next, RecvPop
  <2>5. CASE RecvBlock(t)
    BY <2>5, RecvBlockImplements DEF Sync!Next, RecvBlock
  <2>6. CASE RecvReturn(t)
    BY <2>6, RecvReturnImplements DEF Sync!Next, RecvReturn
  <2>7. CASE Lock(t) \/ WakePeer(t) \/ Exit(t)
    <3>1. \A u \in Senders : Paired(u)' = Paired(u)
      BY <2>7, ChannelAssumption
         DEF Lock, WakePeer, Exit, AtPC, GotoPC, Paired, IInv, TypeOK, chanVars
    <3> QED BY <2>7, <3>1, SyncUnchanged DEF Lock, WakePeer, Exit
  <2> QED BY <1>1, <2>1, <2>2, <2>3, <2>4, <2>5, <2>6, <2>7 DEF Operation
<1>2. CASE UNCHANGED <<chanVars, progVars>>
  <2>1. \A u \in Senders : Paired(u)' = Paired(u)
    BY <1>2 DEF Paired, chanVars
  <2> QED BY <1>2, <2>1, SyncUnchanged
<1> QED BY <1>1, <1>2 DEF Next, Thread, System, Terminated, vars

(* Sends and receives meet in pairs, first come first served: no value is lost or
   delivered twice, and a send returns only once its value has been taken
   (channel.c:14-80, channel.h:36-49). *)
THEOREM ChannelIsSynchronous == Spec => ImplementsSyncChannel
<1>1. Init => Sync!Init
  <2> SUFFICES ASSUME Init PROVE Sync!Init
    OBVIOUS
  <2>1. SyncSends = <<>>
    BY DEF Init, channel_init, SyncSends, SendsOf
  <2>2. SyncPaired = {}
    BY ChannelAssumption DEF Init, SyncPaired, Paired
  <2>3. SyncGiven = [r \in Receivers |-> NULL]
    BY DEF Init, SyncGiven, Receivers
  <2> QED BY <2>1, <2>2, <2>3
          DEF Init, channel_init, Sync!Init, SyncSends, SyncPaired, SyncGiven, SendsOf, Send
<1>2. IInv /\ [Next]_vars => [Sync!Next]_(Sync!vars)
  BY StepImplements
<1> QED BY <1>1, <1>2, Invariance, PTL DEF Spec, ImplementsSyncChannel, Sync!Spec
=============================================================================
