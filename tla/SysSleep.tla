------------------------------ MODULE SysSleep ------------------------------
(***************************************************************************)
(* What the system threads of lab 2 do with nothing to schedule: the end   *)
(* of schedule() (schedule.c:184-213), sys_thread.c and the start of       *)
(* init_sys_and_launch.  A system thread that finds RUNNABLE empty tries   *)
(* to sleep on the futex word sleep_count, which counts the sleepers; one  *)
(* that sees all others counted there decides that the program is over and *)
(* adds IS_OVER.                                                           *)
(*                                                                         *)
(* Green threads are counted, not named: what a thread does between two    *)
(* switches is to make others RUNNABLE (create, unblock), and it switches  *)
(* out as a yielder, or blocked or finished.  MaxWakes bounds the former.  *)
(***************************************************************************)
EXTENDS Integers, FiniteSets

CONSTANTS Sys,       \* the system threads
          IS_OVER,   \* the flag added to sleep_count, 1<<30 in the code
          MaxWakes   \* the bound on the threads made RUNNABLE while running

total_sys == Cardinality(Sys)

ASSUME SysSleepAssumption ==
  /\ IsFiniteSet(Sys)
  /\ IS_OVER \in Nat /\ IS_OVER > 2 * total_sys
  /\ MaxWakes \in Nat

VARIABLES
  nrunnable,    \* thread_arrays[RUNNABLE].size
  wakes,        \* how many threads were made RUNNABLE so far
  launcher,     \* where init_sys_and_launch is: "set", "wake", "join"
  _start,       \* the futex the system threads wait on before they start
  sleep_count,  \* the futex they sleep on
  spc,          \* where each system thread is
  hold,         \* schedule()'s "current" is a yielder, not yet in RUNNABLE
  expected      \* sys_thread_sleep's local "expected"

sleepVars == <<nrunnable, wakes, launcher, _start, sleep_count, spc, hold, expected>>

PC == {"start", "start_wait", "select", "park_none", "park", "green", "check",
       "last", "over", "signal", "sleep", "compare", "wait", "asleep", "wake",
       "woken", "done"}

SleepTypeOK ==
  /\ nrunnable \in 0 .. 1 + MaxWakes
  /\ wakes \in 0 .. MaxWakes
  /\ launcher \in {"set", "wake", "join"}
  /\ _start \in 0 .. 1
  /\ sleep_count \in 0 .. IS_OVER + total_sys
  /\ spc \in [Sys -> PC]
  /\ hold \in [Sys -> BOOLEAN]
  /\ expected \in [Sys -> 0 .. IS_OVER + total_sys]

(* initialize_and_launch has created the main thread. *)
SleepInit ==
  /\ nrunnable = 1
  /\ wakes = 0
  /\ launcher = "set"
  /\ _start = 0
  /\ sleep_count = 0
  /\ spc = [s \in Sys |-> "start"]
  /\ hold = [s \in Sys |-> FALSE]
  /\ expected = [s \in Sys |-> 0]

-----------------------------------------------------------------------------
Step(s, from, to) == spc[s] = from /\ spc' = [spc EXCEPT ![s] = to]

(* FUTEX_WAIT: sleep if the word still has the value. *)
FutexWait(s, from, word, value, waiting, on) ==
  Step(s, from, IF word = value THEN waiting ELSE on)

(* The wake-up of all that wait on a futex, by s, which goes on at "to". *)
FutexWakeAll(s, to, waiting, on) ==
  spc' = [r \in Sys |-> IF r = s THEN to ELSE IF spc[r] = waiting THEN on ELSE spc[r]]

(* Mutant: the start is waited for without the expected value. *)
StartWait_Unconditional(s) ==
  /\ Step(s, "start", "start_wait")
  /\ UNCHANGED <<nrunnable, wakes, launcher, _start, sleep_count, hold, expected>>

(* sys_thread_start waits for _start ... *)
StartWait(s) ==
  /\ FutexWait(s, "start", _start, 0, "start_wait", "select")
  /\ UNCHANGED <<nrunnable, wakes, launcher, _start, sleep_count, hold, expected>>

(* ... which init_sys_and_launch sets, *)
SetStart ==
  /\ launcher = "set"
  /\ launcher' = "wake"
  /\ _start' = 1
  /\ UNCHANGED <<nrunnable, wakes, sleep_count, spc, hold, expected>>

(* and then wakes those that wait. *)
WakeStarted ==
  /\ launcher = "wake"
  /\ launcher' = "join"
  /\ spc' = [s \in Sys |-> IF spc[s] = "start_wait" THEN "select" ELSE spc[s]]
  /\ UNCHANGED <<nrunnable, wakes, _start, sleep_count, hold, expected>>

-----------------------------------------------------------------------------
(* The policy takes the head of RUNNABLE, if any. *)
Select(s) ==
  /\ IF nrunnable > 0
     THEN Step(s, "select", "park") /\ nrunnable' = nrunnable - 1
     ELSE Step(s, "select", "park_none") /\ UNCHANGED nrunnable
  /\ UNCHANGED <<wakes, launcher, _start, sleep_count, hold, expected>>

(* Then the yielder goes back to RUNNABLE and the selected thread runs. *)
Park(s) ==
  /\ Step(s, "park", "green") \/ Step(s, "park_none", "check")
  /\ nrunnable' = nrunnable + IF hold[s] THEN 1 ELSE 0
  /\ hold' = [hold EXCEPT ![s] = FALSE]
  /\ UNCHANGED <<wakes, launcher, _start, sleep_count, expected>>

(* The thread that runs on s makes another RUNNABLE. *)
Wake(s) ==
  /\ spc[s] = "green"
  /\ wakes < MaxWakes
  /\ wakes' = wakes + 1
  /\ nrunnable' = nrunnable + 1
  /\ UNCHANGED <<launcher, _start, sleep_count, spc, hold, expected>>

(* It yields, or it blocks or ends. *)
SwitchOut(s) ==
  /\ Step(s, "green", "select")
  /\ \E yielder \in BOOLEAN : hold' = [hold EXCEPT ![s] = yielder]
  /\ UNCHANGED <<nrunnable, wakes, launcher, _start, sleep_count, expected>>

(* Mutant: lines 186-196 dropped, the list is not looked at again. *)
Check_Skipped(s) ==
  /\ Step(s, "check", "last")
  /\ UNCHANGED <<nrunnable, wakes, launcher, _start, sleep_count, hold, expected>>

(* Lines 186-196: is RUNNABLE still empty?  If not wake the sleepers. *)
Check(s) ==
  /\ spc[s] = "check"
  /\ IF nrunnable > 0 THEN FutexWakeAll(s, "select", "asleep", "wake")
                      ELSE Step(s, "check", "last")
  /\ UNCHANGED <<nrunnable, wakes, launcher, _start, sleep_count, hold, expected>>

(* Line 199: are all others counted in sleep_count? *)
LastRunning(s) ==
  /\ Step(s, "last", IF sleep_count = total_sys - 1 THEN "over" ELSE "sleep")
  /\ UNCHANGED <<nrunnable, wakes, launcher, _start, sleep_count, hold, expected>>

Over(s) ==
  /\ Step(s, "over", "signal")
  /\ sleep_count' = sleep_count + IS_OVER
  /\ UNCHANGED <<nrunnable, wakes, launcher, _start, hold, expected>>

(* Wake the sleepers and leave. *)
Signal(s) ==
  /\ spc[s] = "signal"
  /\ FutexWakeAll(s, "done", "asleep", "wake")
  /\ UNCHANGED <<nrunnable, wakes, launcher, _start, sleep_count, hold, expected>>

-----------------------------------------------------------------------------
(* sys_thread_sleep *)

Sleep(s) ==
  /\ Step(s, "sleep", "compare")
  /\ sleep_count' = sleep_count + 1
  /\ expected' = [expected EXCEPT ![s] = sleep_count + 1]
  /\ UNCHANGED <<nrunnable, wakes, launcher, _start, hold>>

(* Line 57: the call is refused unless another thread was counted since. *)
Compare(s) ==
  /\ Step(s, "compare", IF expected[s] >= sleep_count THEN "wake" ELSE "wait")
  /\ UNCHANGED <<nrunnable, wakes, launcher, _start, sleep_count, hold, expected>>

Wait(s) ==
  /\ FutexWait(s, "wait", sleep_count, expected[s], "asleep", "wake")
  /\ UNCHANGED <<nrunnable, wakes, launcher, _start, sleep_count, hold, expected>>

(* FUTEX_WAIT may also return for no reason. *)
SpuriousWake(s) ==
  /\ Step(s, "asleep", "wake")
  /\ UNCHANGED <<nrunnable, wakes, launcher, _start, sleep_count, hold, expected>>

(* Mutant: a refused or woken thread stays counted. *)
Uncount_Forgotten(s) ==
  /\ Step(s, "wake", "woken")
  /\ UNCHANGED <<nrunnable, wakes, launcher, _start, sleep_count, hold, expected>>

(* Refused (line 58) or woken (line 62): no longer counted.  The local variable
   is dead. *)
Uncount(s) ==
  /\ Step(s, "wake", "woken")
  /\ sleep_count' = sleep_count - 1
  /\ expected' = [expected EXCEPT ![s] = 0]
  /\ UNCHANGED <<nrunnable, wakes, launcher, _start, hold>>

(* Mutant: line 209 compares with ">" a flag nobody else adds to. *)
Woken_OffByOne(s) ==
  /\ Step(s, "woken", IF sleep_count > IS_OVER THEN "done" ELSE "select")
  /\ UNCHANGED <<nrunnable, wakes, launcher, _start, sleep_count, hold, expected>>

(* Back in schedule(), line 209. *)
Woken(s) ==
  /\ Step(s, "woken", IF sleep_count >= IS_OVER THEN "done" ELSE "select")
  /\ UNCHANGED <<nrunnable, wakes, launcher, _start, sleep_count, hold, expected>>

(* init_sys_and_launch joins the system threads. *)
AllLeft == (\A s \in Sys : spc[s] = "done") /\ UNCHANGED sleepVars

Launch == SetStart \/ WakeStarted

System(s) ==
  \/ StartWait(s) \/ Select(s) \/ Park(s) \/ SwitchOut(s) \/ Check(s)
  \/ LastRunning(s) \/ Over(s) \/ Signal(s)
  \/ Sleep(s) \/ Compare(s) \/ Wait(s) \/ Uncount(s) \/ Woken(s)

SleepNext ==
  \/ Launch
  \/ \E s \in Sys : System(s) \/ Wake(s) \/ SpuriousWake(s)
  \/ AllLeft

SleepSpec == SleepInit /\ [][SleepNext]_sleepVars

(* The kernel keeps running each pthread; a green thread ends its slice. *)
SleepFairness == WF_sleepVars(Launch) /\ \A s \in Sys : WF_sleepVars(System(s))

FairSleepSpec == SleepSpec /\ SleepFairness

-----------------------------------------------------------------------------
(* Safety. *)

Counted(s) == spc[s] \in {"compare", "wait", "asleep", "wake"}

(* The types hold; sleep_count is the number of threads in sys_thread_sleep, and
   IS_OVER is added to it once: the assertion "res >= 0" (sys_thread.c:63) never
   fails, and the int never overflows, which adding IS_OVER = 1<<30 twice would
   do. *)
SleepCountExact ==
  LET ended == \E s \in Sys : spc[s] = "signal" \/ spc[s] = "done"
  IN  /\ SleepTypeOK
      /\ sleep_count = Cardinality({s \in Sys : Counted(s)}) + IF ended THEN IS_OVER ELSE 0

(* The program ends only when there is nothing left to run: no system thread
   decides that it is the last (schedule.c:198-203) or leaves schedule() while
   a thread is RUNNABLE, is running or is being switched, although the list and
   sleep_count are read at different times. *)
NoEarlyEnd ==
  (\E s \in Sys : spc[s] \in {"over", "signal", "done"}) =>
    /\ nrunnable = 0
    /\ \A s \in Sys : spc[s] \notin {"park", "green"} /\ ~hold[s]

-----------------------------------------------------------------------------
(* Liveness, under FairSleepSpec.  That somebody decides that the program is over
   is not among them: it takes one thread at line 199 while all others are in
   sys_thread_sleep, which nothing forces. *)

(* No start is missed: every system thread enters schedule(). *)
AllStart == \A s \in Sys : <>(spc[s] \notin {"start", "start_wait"})

Decided == \E s \in Sys : spc[s] = "over"

(* Once one thread has decided, every other leaves schedule() or sleeps: none
   polls for ever. *)
AllEndOrSleep == Decided ~> \A s \in Sys : spc[s] \in {"done", "asleep"}

(* "We are the last thread running, signal other to terminate" (schedule.c:198):
   once one thread has decided, all leave schedule(), so that the pthread_join
   of init_sys_and_launch (schedule.c:42-44) returns.  With three system
   threads it is not so: sleep_count may go up and down again between the
   comparison of line 57 and the FUTEX_WAIT of line 61, which then finds the
   value it expects after the last wake-up. *)
AllEnd == Decided ~> \A s \in Sys : spc[s] = "done"
=============================================================================
