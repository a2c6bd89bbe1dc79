----------------------------- MODULE MCSysSleep -----------------------------
(* Three system threads, so that two can be in sys_thread_sleep while the
   third still runs threads or decides; two threads are made RUNNABLE. *)
EXTENDS SysSleep
=============================================================================
