--------------------------- MODULE TestGlobalMutex ---------------------------
(***************************************************************************)
(* Threads that share one mutex: the loop of test_global_mutex (main.c:    *)
(* 57-80), any number of times.  Where the test waits in the critical      *)
(* section the thread may also give up its system thread, once, as a user  *)
(* of the mutex may.  The thread that created them (try_locks, main.c:     *)
(* 115-119) waits in a join and is left out.                               *)
(***************************************************************************)
EXTENDS Mutex

VARIABLE pc   \* where each thread is in its program, when mpc is "idle"

vars == <<schedVars, lockVars, pc>>

TypeOK ==
  /\ SchedTypeOK
  /\ MutexTypeOK
  /\ pc \in [Threads -> {"out", "cs", "yielded", "done"}]

Init ==
  /\ SchedInit
  /\ mutex_init
  /\ pc = [t \in Threads |-> "out"]

-----------------------------------------------------------------------------
CallLock(t) ==
  /\ At(t, "idle")
  /\ pc[t] = "out"
  /\ Goto(t, "lock_spin")
  /\ pc' = [pc EXCEPT ![t] = "cs"]
  /\ UNCHANGED <<lock, owner, blocked, nextThread, schedVars>>

(* The thread calls yield(-1) inside. *)
YieldInside(t) ==
  /\ At(t, "idle")
  /\ pc[t] = "cs"
  /\ \E s \in Sys : yield(s, t, "RUNNING")
  /\ pc' = [pc EXCEPT ![t] = "yielded"]
  /\ UNCHANGED lockVars

CallUnlock(t) ==
  /\ At(t, "idle")
  /\ pc[t] \in {"cs", "yielded"}
  /\ Goto(t, "unlock_spin")
  /\ pc' = [pc EXCEPT ![t] = "out"]
  /\ UNCHANGED <<lock, owner, blocked, nextThread, schedVars>>

(* NITERS iterations are done: the thread's function returns. *)
Exit(t) ==
  /\ At(t, "idle")
  /\ pc[t] = "out"
  /\ \E s \in Sys : yield(s, t, "ZOMBIE")
  /\ pc' = [pc EXCEPT ![t] = "done"]
  /\ UNCHANGED lockVars

Program(t) == CallLock(t) \/ YieldInside(t) \/ CallUnlock(t) \/ Exit(t)

Thread(t) == Program(t) \/ ((mutex_lock(t) \/ mutex_unlock(t)) /\ UNCHANGED pc)

System(s) == (Schedule(s) \/ ReleaseSpinlock(s)) /\ UNCHANGED pc

AllDone == \A t \in Elements(Created) : pc[t] = "done"

(* init_sys_and_launch returns once nothing is left to run. *)
Terminated ==
  /\ AllDone
  /\ \A s \in Sys : spc[s] = "select" /\ cur[s] = NULL
  /\ UNCHANGED vars

Next ==
  \/ \E t \in Threads : Thread(t)
  \/ \E s \in Sys : System(s)
  \/ Terminated

(* A system thread is a pthread: the kernel keeps running it, whichever stack
   it is on.  Nothing makes a spinning compare-and-swap succeed. *)
Fairness ==
  /\ \A t \in Threads : WF_vars(Thread(t))
  /\ \A s \in Sys : WF_vars(System(s))

Spec == Init /\ [][Next]_vars

FairSpec == Spec /\ Fairness

-----------------------------------------------------------------------------
(* Safety. *)

(* t is between the return of mutex_lock and the moment mutex_unlock gives
   the mutex away. *)
Inside(t) ==
  \/ mpc[t] = "idle" /\ pc[t] \in {"cs", "yielded"}
  \/ mpc[t] \in {"unlock_spin", "unlock_give"}

(* What test_global_mutex (main.c:57-80) counts: two threads are never in the
   critical section, however they block, yield and are handed the mutex; and
   "when the function returns, the current thread owns m" (mutex.h:30). *)
MutualExclusion ==
  \A t \in Threads : Inside(t) => /\ owner = t
                                 /\ \A u \in Threads \ {t} : ~Inside(u)

(* No wake-up is lost: a blocked thread is in the queue of a mutex that has an
   owner, or it has been made the owner by a context that is about to wake it,
   and by one only. *)
WakeupPending ==
  LET Wakers(t) == {c \in Contexts : /\ mpc[c] \in {"unlock_ret", "unlock_wake"}
                                    /\ nextThread[c] = t}
  IN  \A t \in Threads : state[t] = "BLOCKED" =>
        \/ t \in Elements(blocked) /\ owner # NULL /\ Wakers(t) = {}
        \/ t \notin Elements(blocked) /\ owner = t
             /\ \E c \in Contexts : Wakers(t) = {c}

(* The mutex is a first-in first-out lock. *)
Fifo == INSTANCE FifoLock WITH queue <- blocked,
                               inside <- {t \in Threads : Inside(t)}

(* Every step of the mutex is a step of FifoLock or changes nothing there: in
   particular no thread takes the mutex ahead of those in the queue
   (mutex.c:30-46), and none returns from mutex_lock before it was granted. *)
ImplementsFifoLock == Fifo!Spec

-----------------------------------------------------------------------------
(* Liveness, under FairSpec. *)

(* A thread that has queued gets the mutex, however often the others lock it
   and although nothing makes a spinlock fair: a thread that finds the mutex
   taken spins once and then queues up behind (mutex.c:29-39), so that the
   owner cannot starve in the spinlock of mutex_unlock (mutex.c:48). *)
QueuedGetsMutex ==
  \A t \in Threads : t \in Elements(blocked) ~> owner = t
=============================================================================
