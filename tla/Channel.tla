------------------------------- MODULE Channel -------------------------------
(***************************************************************************)
(* The channel of lab 2 (src/os21-lab2/done/channel.c): a mutex, a list of *)
(* blocked senders and a list of blocked receivers.  The thread that       *)
(* arrives second moves the value through the channel_buffer of the one    *)
(* that waits and unblocks it; the thread that arrives first queues up and *)
(* leaves the mutex to schedule(), which unlocks it on its own stack in    *)
(* the name of the blocked thread (schedule.c:125-127).                    *)
(*                                                                         *)
(* As in try_locks (main.c:123-132), some threads only send and the others *)
(* only receive; each sends or receives Count values, all different.       *)
(***************************************************************************)
EXTENDS Mutex

CONSTANTS Senders, Count

Receivers == Threads \ Senders

(* The values that are sent are not null pointers. *)
ASSUME ChannelAssumption ==
  /\ Senders \subseteq Threads
  /\ Count \in Nat
  /\ NULL \notin Senders \X (1 .. Count)

VARIABLES
  channel_buffer,  \* thread_info_t.channel_buffer
  blocked_send,    \* channel_t.blocked_send, head first
  blocked_recv,    \* channel_t.blocked_recv, head first
  pc,              \* where each thread is in its program, when mpc is "idle"
  peer,            \* channel_send's recv_thread, channel_receive's send_thread
  value,           \* channel_receive's value
  sent,            \* how many values each sender has sent
  recd_message     \* the values each receiver has received

chanVars == <<channel_buffer, blocked_send, blocked_recv>>
progVars == <<pc, peer, value, sent, recd_message>>
vars == <<schedVars, lockVars, chanVars, progVars>>

Values == Senders \X (1 .. Count)

(* What t sends now. *)
Message(t) == <<t, sent[t] + 1>>

TypeOK ==
  /\ SchedTypeOK
  /\ MutexTypeOK
  /\ channel_buffer \in [Threads -> Values \cup {NULL}]
  /\ blocked_send \in Seq(Senders)
  /\ blocked_recv \in Seq(Receivers)
  /\ pc \in [Threads -> {"out", "locked", "wake", "unlocked", "woken", "done"}]
  /\ peer \in [Threads -> Threads \cup {NULL}]
  /\ value \in [Receivers -> Values \cup {NULL}]
  /\ sent \in [Senders -> 0 .. Count]
  /\ recd_message \in [Receivers -> Seq(Values)]

channel_init ==
  /\ mutex_init
  /\ blocked_send = <<>>
  /\ blocked_recv = <<>>

Init ==
  /\ SchedInit
  /\ channel_init
  /\ channel_buffer = [t \in Threads |-> NULL]
  /\ pc = [t \in Threads |-> "out"]
  /\ peer = [t \in Threads |-> NULL]
  /\ value = [t \in Receivers |-> NULL]
  /\ sent = [t \in Senders |-> 0]
  /\ recd_message = [t \in Receivers |-> <<>>]

-----------------------------------------------------------------------------
AtPC(t, l) == At(t, "idle") /\ pc[t] = l

GotoPC(t, l) == pc' = [pc EXCEPT ![t] = l]

(* mutex_lock(&chan->mu), the first line of both operations. *)
Lock(t) ==
  /\ AtPC(t, "out")
  /\ IF t \in Senders THEN sent[t] < Count ELSE Len(recd_message[t]) < Count
  /\ Goto(t, "lock_spin")
  /\ GotoPC(t, "locked")
  /\ UNCHANGED <<schedVars, lock, owner, blocked, nextThread, chanVars>>
  /\ UNCHANGED <<peer, value, sent, recd_message>>

(* The partner is unblocked; the mutex is unlocked next. *)
WakePeer(t) ==
  /\ AtPC(t, "wake")
  /\ tsafe_unblock_thread(peer[t])
  /\ peer' = [peer EXCEPT ![t] = NULL]
  /\ Goto(t, "unlock_spin")
  /\ GotoPC(t, "unlocked")
  /\ UNCHANGED <<lock, owner, blocked, nextThread, chanVars>>
  /\ UNCHANGED <<value, sent, recd_message>>

-----------------------------------------------------------------------------
(* channel_send *)

(* Mutant: the value goes to the sender's own buffer. *)
SendPop_OwnBuffer(t) ==
  /\ t \in Senders
  /\ AtPC(t, "locked")
  /\ blocked_recv # <<>>
  /\ peer' = [peer EXCEPT ![t] = Head(blocked_recv)]
  /\ blocked_recv' = Tail(blocked_recv)
  /\ channel_buffer' = [channel_buffer EXCEPT ![t] = Message(t)]
  /\ GotoPC(t, "wake")
  /\ UNCHANGED <<schedVars, lockVars, blocked_send, value, sent, recd_message>>

(* A receiver waits: give it the value. *)
SendPop(t) ==
  /\ t \in Senders
  /\ AtPC(t, "locked")
  /\ blocked_recv # <<>>
  /\ peer' = [peer EXCEPT ![t] = Head(blocked_recv)]
  /\ blocked_recv' = Tail(blocked_recv)
  /\ channel_buffer' = [channel_buffer EXCEPT ![Head(blocked_recv)] = Message(t)]
  /\ GotoPC(t, "wake")
  /\ UNCHANGED <<schedVars, lockVars, blocked_send, value, sent, recd_message>>

(* None does: leave the value in our own buffer and wait. *)
SendBlock(t) ==
  /\ t \in Senders
  /\ AtPC(t, "locked")
  /\ blocked_recv = <<>>
  /\ channel_buffer' = [channel_buffer EXCEPT ![t] = Message(t)]
  /\ blocked_send' = Append(blocked_send, t)
  /\ \E s \in Sys : cond_wait(s, t, "MUTEX")
  /\ GotoPC(t, "woken")
  /\ UNCHANGED <<lockVars, blocked_recv, peer, value, sent, recd_message>>

SendReturn(t) ==
  /\ t \in Senders
  /\ AtPC(t, "unlocked") \/ AtPC(t, "woken")
  /\ sent' = [sent EXCEPT ![t] = @ + 1]
  /\ GotoPC(t, "out")
  /\ UNCHANGED <<schedVars, lockVars, chanVars, peer, value, recd_message>>

-----------------------------------------------------------------------------
(* channel_receive *)

(* Mutant: the sender's buffer is not reset. *)
RecvPop_KeepsBuffer(t) ==
  /\ t \in Receivers
  /\ AtPC(t, "locked")
  /\ blocked_send # <<>>
  /\ peer' = [peer EXCEPT ![t] = Head(blocked_send)]
  /\ blocked_send' = Tail(blocked_send)
  /\ value' = [value EXCEPT ![t] = channel_buffer[Head(blocked_send)]]
  /\ GotoPC(t, "wake")
  /\ UNCHANGED <<schedVars, lockVars, channel_buffer, blocked_recv, sent, recd_message>>

(* A sender waits: take its value. *)
RecvPop(t) ==
  /\ t \in Receivers
  /\ AtPC(t, "locked")
  /\ blocked_send # <<>>
  /\ peer' = [peer EXCEPT ![t] = Head(blocked_send)]
  /\ blocked_send' = Tail(blocked_send)
  /\ value' = [value EXCEPT ![t] = channel_buffer[Head(blocked_send)]]
  /\ channel_buffer' = [channel_buffer EXCEPT ![Head(blocked_send)] = NULL]
  /\ GotoPC(t, "wake")
  /\ UNCHANGED <<schedVars, lockVars, blocked_recv, sent, recd_message>>

RecvBlock(t) ==
  /\ t \in Receivers
  /\ AtPC(t, "locked")
  /\ blocked_send = <<>>
  /\ blocked_recv' = Append(blocked_recv, t)
  /\ \E s \in Sys : cond_wait(s, t, "MUTEX")
  /\ GotoPC(t, "woken")
  /\ UNCHANGED <<lockVars, channel_buffer, blocked_send, peer, value, sent, recd_message>>

(* The value is the one taken from the sender, or, after the wait, the one the
   sender left in our buffer. *)
RecvReturn(t) ==
  /\ t \in Receivers
  /\ \/ /\ AtPC(t, "unlocked")
        /\ recd_message' = [recd_message EXCEPT ![t] = Append(@, value[t])]
        /\ UNCHANGED channel_buffer
     \/ /\ AtPC(t, "woken")
        /\ recd_message' = [recd_message EXCEPT ![t] = Append(@, channel_buffer[t])]
        /\ channel_buffer' = [channel_buffer EXCEPT ![t] = NULL]
  /\ value' = [value EXCEPT ![t] = NULL]
  /\ GotoPC(t, "out")
  /\ UNCHANGED <<schedVars, lockVars, blocked_send, blocked_recv, peer, sent>>

-----------------------------------------------------------------------------
(* channel_sender or channel_receiver returns. *)
Exit(t) ==
  /\ AtPC(t, "out")
  /\ IF t \in Senders THEN sent[t] = Count ELSE Len(recd_message[t]) = Count
  /\ \E s \in Sys : yield(s, t, "ZOMBIE")
  /\ GotoPC(t, "done")
  /\ UNCHANGED <<lockVars, chanVars, peer, value, sent, recd_message>>

(* Mutant: schedule() forgets the mutex of the blocked thread. *)
ReleaseMutex_Forgotten(s) ==
  /\ spc[s] = "release"
  /\ lock_tpe[s] = "MUTEX"
  /\ lock_tpe' = [lock_tpe EXCEPT ![s] = "NONE"]
  /\ UNCHANGED <<state, lock_type, runnable, current, spc, cur, next, lockVars>>

(* The scheduler unlocks the mutex of a thread blocked on the channel: it calls
   mutex_unlock, whose steps follow. *)
ReleaseMutex(s) ==
  /\ spc[s] = "release"
  /\ lock_tpe[s] = "MUTEX"
  /\ lock_tpe' = [lock_tpe EXCEPT ![s] = "NONE"]
  /\ Goto(s, "unlock_spin")
  /\ UNCHANGED <<state, lock_type, runnable, current, spc, cur, next>>
  /\ UNCHANGED <<lock, owner, blocked, nextThread>>

Operation(t) ==
  \/ Lock(t) \/ WakePeer(t) \/ Exit(t)
  \/ SendPop(t) \/ SendBlock(t) \/ SendReturn(t)
  \/ RecvPop(t) \/ RecvBlock(t) \/ RecvReturn(t)

Thread(t) ==
  \/ Operation(t)
  \/ (mutex_lock(t) \/ mutex_unlock(t)) /\ UNCHANGED <<chanVars, progVars>>

System(s) ==
  /\ Schedule(s) \/ ReleaseSpinlock(s) \/ ReleaseMutex(s) \/ mutex_unlock(s)
  /\ UNCHANGED <<chanVars, progVars>>

AllDone == \A t \in Threads : pc[t] = "done"

Terminated ==
  /\ AllDone
  /\ \A s \in Sys : spc[s] = "select" /\ cur[s] = NULL
  /\ UNCHANGED vars

Next ==
  \/ \E t \in Threads : Thread(t)
  \/ \E s \in Sys : System(s)
  \/ Terminated

Fairness ==
  /\ \A t \in Threads : WF_vars(Thread(t))
  /\ \A s \in Sys : WF_vars(System(s))

Spec == Init /\ [][Next]_vars

FairSpec == Spec /\ Fairness

-----------------------------------------------------------------------------
(* Safety. *)

(* t is between the return of mutex_lock and the moment the mutex is given
   away, by t or by schedule() in its name. *)
HasMutex(t) ==
  \/ mpc[t] = "idle" /\ pc[t] \in {"locked", "wake"}
  \/ mpc[t] \in {"unlock_spin", "unlock_give"}
  \/ \E s \in Sys : /\ current[s] = t
                    /\ \/ /\ spc[s] = "enter"
                          /\ state[t] = "BLOCKED" /\ lock_type[t] = "MUTEX"
                       \/ spc[s] = "release" /\ lock_tpe[s] = "MUTEX"
                       \/ mpc[s] \in {"unlock_spin", "unlock_give"}

(* The types hold, and one thread at a time works on the channel's lists and
   buffers: it owns the mutex, also while the scheduler unlocks it for a blocked
   thread. *)
ChannelExclusion ==
  /\ TypeOK
  /\ \A t \in Threads : HasMutex(t) => /\ owner = t
                                       /\ \A u \in Threads \ {t} : ~HasMutex(u)

(* The assertions of channel_send and tsafe_unblock_thread: the thread popped
   from a list is BLOCKED when it is woken (utils.c:43), and the buffer of a
   sender is empty when it comes back from cond_wait (channel.c:36). *)
ChannelAssertsHold ==
  /\ AssertsHold
  /\ \A t \in Threads : pc[t] = "wake" =>
       state[peer[t]] = "BLOCKED" /\ peer[t] \notin Elements(runnable)
  /\ \A t \in Senders : AtPC(t, "woken") => channel_buffer[t] = NULL

(* A send whose value has been taken, and which has not returned. *)
Paired(t) ==
  \/ pc[t] \in {"wake", "unlocked"}
  \/ pc[t] = "woken" /\ channel_buffer[t] = NULL

Sync == INSTANCE SyncChannel WITH
  sends    <- [i \in DOMAIN blocked_send |->
                 [thread |-> blocked_send[i], value |-> channel_buffer[blocked_send[i]]]],
  recvs    <- blocked_recv,
  paired   <- {t \in Senders : Paired(t)},
  given    <- [t \in Receivers |-> IF value[t] # NULL THEN value[t] ELSE channel_buffer[t]],
  received <- recd_message

(* Sends and receives meet in pairs, first come first served; no value is lost
   or delivered twice, and a send returns only once its value was taken
   (channel.h:36-49, "received only by one consumer" in the handout). *)
ImplementsSyncChannel == Sync!Spec

-----------------------------------------------------------------------------
(* Liveness, under FairSpec. *)

(* When there are as many receives as sends, every call returns. *)
AllThreadsFinish == <>AllDone
=============================================================================
