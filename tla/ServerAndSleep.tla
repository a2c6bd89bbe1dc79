--------------------------- MODULE ServerAndSleep ---------------------------
(***************************************************************************)
(* Two parts of lab 2 side by side, for one run of TLC: the list server,   *)
(* and the start, sleep and end of the system threads.  They share no      *)
(* state: a behaviour is one of either, and the other keeps one of its     *)
(* initial states.                                                         *)
(***************************************************************************)
EXTENDS SysSleep, CommandList

VARIABLE part

bothVars == <<part, vars, sleepVars>>

BothInit ==
  /\ part \in {"list", "sleep"}
  /\ part = "sleep" => program = CHOOSE p \in Programs : TRUE
  /\ Init /\ SleepInit

(* try_list has returned.                                                  *)
Returned == (\A t \in Threads : pc[t] = "returned") /\ UNCHANGED vars

BothNext ==
  /\ UNCHANGED part
  /\ \/ part = "list" /\ (Next \/ Returned) /\ UNCHANGED sleepVars
     \/ part = "sleep" /\ SleepNext /\ UNCHANGED vars

BothSpec ==
  /\ BothInit /\ [][BothNext]_bothVars
  /\ WF_vars(part = "list" /\ MainStep)
  /\ WF_vars(part = "list" /\ SenderStep)
  /\ \A s \in Servers : WF_vars(part = "list" /\ ServerStep(s))
  /\ WF_sleepVars(part = "sleep" /\ Launch)
  /\ \A s \in Sys : WF_sleepVars(part = "sleep" /\ System(s))
-----------------------------------------------------------------------------
(* try_list returns, with the sender and the servers: a server that holds  *)
(* the lock of the list while it receives and sends (linked_list.c:163)    *)
(* keeps nobody waiting for ever.                                          *)
ServerEnds == part = "list" => AllReturn

(* Every system thread gets past the futex of _start, also one that comes  *)
(* to it after the others were woken (lab 2's schedule.c:26).              *)
SleepersStart == part = "sleep" => AllStart
=============================================================================
