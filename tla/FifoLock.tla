------------------------------ MODULE FifoLock ------------------------------
(***************************************************************************)
(* What the mutex of lab 2 promises: one thread at a time is inside, and   *)
(* threads that had to wait are granted the mutex in the order in which    *)
(* they queued; nobody overtakes them.  Granting (owner) and entering      *)
(* (the return of mutex_lock) are separate steps, since the thread that    *)
(* unlocks grants the mutex to one that still sleeps.                      *)
(***************************************************************************)
EXTENDS Sequences

CONSTANTS Threads, NULL

VARIABLES owner,   \* the thread the mutex is granted to
          queue,   \* the threads that wait, in order
          inside   \* the threads mutex_lock has returned to

vars == <<owner, queue, inside>>

Init == owner = NULL /\ queue = <<>> /\ inside = {}

(* A free mutex is granted at once, but only if nobody waits for it. *)
Take(t) ==
  /\ owner = NULL
  /\ queue = <<>>
  /\ owner' = t
  /\ UNCHANGED <<queue, inside>>

Wait(t) ==
  /\ owner \notin {NULL, t}
  /\ \A i \in DOMAIN queue : queue[i] # t
  /\ queue' = Append(queue, t)
  /\ UNCHANGED <<owner, inside>>

Enter(t) ==
  /\ owner = t
  /\ inside = {}
  /\ inside' = {t}
  /\ UNCHANGED <<owner, queue>>

(* The thread inside leaves: the mutex goes to the first that waits. *)
Leave(t) ==
  /\ owner = t
  /\ inside = {t}
  /\ inside' = {}
  /\ IF queue = <<>> THEN owner' = NULL /\ UNCHANGED queue
                     ELSE owner' = Head(queue) /\ queue' = Tail(queue)

Next == \E t \in Threads : Take(t) \/ Wait(t) \/ Enter(t) \/ Leave(t)

Spec == Init /\ [][Next]_vars
=============================================================================
