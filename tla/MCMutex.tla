------------------------------ MODULE MCMutex ------------------------------
(* Four green threads on two system threads: two more than can run, so that a
   thread waits in RUNNABLE while others lock and unlock, and three can queue
   behind one. *)
EXTENDS TestGlobalMutex, TLC
CONSTANTS t1, t2, t3, t4
MCCreated == <<t1, t2, t3, t4>>
=============================================================================
