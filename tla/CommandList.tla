---------------------------- MODULE CommandList ----------------------------
(***************************************************************************)
(* Lab 2's list server: execute_commands and the list (linked_list.c) with *)
(* the program around them (send_commands and try_list of main.c).  One    *)
(* thread sends pointers to the commands in its own frame, each server     *)
(* takes the list's lock, receives one command, executes it, sends the     *)
(* answer and unlocks; the main thread collects the answers and joins.     *)
(* The lock and the two channels are the abstract specifications that      *)
(* Mutex and Channel are shown to implement.                               *)
(***************************************************************************)
EXTENDS Naturals, Sequences, SequencesExt

CONSTANTS N,          \* LIST_THREADS: the commands, and the servers
          Keys, Vals, \* keys and values of the commands
          Programs,   \* the arrays of commands send_commands may hold
          Main, Sender, NULL

Servers == 1..N
Threads == Servers \cup {Main, Sender}

VARIABLES
  program,                            \* cmds, in the frame of send_commands
  head,                               \* the list: its nodes [key, data]
  owner, queue, inside,               \* list_lock
  qsends, qrecvs, qpaired, qgiven, recv_command,  \* chan_to_recv
  asends, arecvs, apaired, agiven, retvals,       \* chan_to_send
  retval,                             \* each server's local variable
  pc, sent, joined                    \* control; the sender's i; main's i

lockVars == <<owner, queue, inside>>
reqVars == <<qsends, qrecvs, qpaired, qgiven, recv_command>>
ansVars == <<asends, arecvs, apaired, agiven, retvals>>
vars == <<program, head, lockVars, reqVars, ansVars, retval, pc, sent, joined>>

Lock == INSTANCE FifoLock WITH Threads <- Servers
Req == INSTANCE SyncChannel WITH
         Senders <- {Sender}, Receivers <- Servers, Values <- 1..N,
         sends <- qsends, recvs <- qrecvs, paired <- qpaired,
         given <- qgiven, received <- recv_command
Ans == INSTANCE SyncChannel WITH
         Senders <- Servers, Receivers <- {Main}, Values <- Vals \cup {0},
         sends <- asends, recvs <- arecvs, paired <- apaired,
         given <- agiven, received <- retvals

Command == [op : {"INSERT", "DELETE", "GET"}, key : Keys, val : Vals \cup {0}]

(* There is a command, and the threads are different. *)
ASSUME ProgramsAssumption == N \in Nat \ {0} /\ Programs \subseteq [1..N -> Command]
ASSUME ThreadsAssumption == Main # Sender /\ {Main, Sender, NULL} \cap Servers = {}

(* The mark of a receiver that was given nothing is no answer. *)
ASSUME NullAssumption == NULL \notin Vals \cup {0}
-----------------------------------------------------------------------------
(* The list: new nodes go first, a key finds its first node.               *)
list_insert(l, k, v) == <<[key |-> k, data |-> v]>> \o l

Matches(l, k) == {i \in DOMAIN l : l[i].key = k}
FirstMatch(l, k) == CHOOSE i \in Matches(l, k) : \A j \in Matches(l, k) : i <= j

list_delete(l, k) == IF Matches(l, k) = {} THEN l ELSE RemoveAt(l, FirstMatch(l, k))

list_find(l, k) == IF Matches(l, k) = {} THEN 0 ELSE l[FirstMatch(l, k)].data

(* The switch of execute_commands: the list after it, and retval.          *)
ListAfter(c, l) == CASE c.op = "INSERT" -> list_insert(l, c.key, c.val)
                     [] c.op = "DELETE" -> list_delete(l, c.key)
                     [] OTHER -> l

Retval(c, l) == IF c.op = "GET" THEN list_find(l, c.key) ELSE 0
-----------------------------------------------------------------------------
Init ==
  /\ program \in Programs
  /\ head = <<>> /\ sent = 0 /\ joined = 0
  /\ Lock!Init /\ Req!Init /\ Ans!Init
  /\ retval = [s \in Servers |-> 0]
  /\ pc = [t \in Threads |-> IF t = Main THEN "create_sender" ELSE "uncreated"]

(* Mutant: the servers are joined before the answers are received.         *)
MainOrder_JoinFirst ==
  [create_sender |-> "create", create |-> "join", join |-> "collect",
   collect |-> "join_sender", join_sender |-> "returned"]

(* Mutant: the servers are not joined.                                     *)
MainOrder_NoJoin ==
  [create_sender |-> "create", create |-> "collect", collect |-> "join_sender",
   join_sender |-> "returned"]

(* The order of the calls of try_list, send_commands and execute_commands. *)
MainOrder == [create_sender |-> "create", create |-> "collect", collect |-> "join",
              join |-> "join_sender", join_sender |-> "returned"]
SenderOrder == [send |-> "returned"]

(* Mutant: the lock is released before the answer is sent.                 *)
ServerOrder_UnlocksEarly ==
  [lock |-> "receive", receive |-> "execute", execute |-> "unlock",
   unlock |-> "answer", answer |-> "returned"]

ServerOrder == [lock |-> "receive", receive |-> "execute", execute |-> "answer",
                answer |-> "unlock", unlock |-> "returned"]

After(t) == CASE t = Main -> MainOrder[pc[t]]
              [] t = Sender -> SenderOrder[pc[t]]
              [] OTHER -> ServerOrder[pc[t]]

Advance(t) == pc' = [pc EXCEPT ![t] = After(t)]

(* t goes on after the last round of its loop.                             *)
AdvanceIf(t, last) == IF last THEN Advance(t) ELSE UNCHANGED pc
-----------------------------------------------------------------------------
CreateSender ==
  /\ pc[Main] = "create_sender"
  /\ pc' = [pc EXCEPT ![Sender] = "send", ![Main] = After(Main)]
  /\ UNCHANGED <<program, head, lockVars, reqVars, ansVars, retval, sent, joined>>

Uncreated == {s \in Servers : pc[s] = "uncreated"}

CreateServer ==
  /\ pc[Main] = "create"
  /\ LET s == CHOOSE u \in Uncreated : \A v \in Uncreated : u <= v IN
       pc' = [pc EXCEPT ![s] = "lock",
                        ![Main] = IF Uncreated = {s} THEN After(Main) ELSE @]
  /\ UNCHANGED <<program, head, lockVars, reqVars, ansVars, retval, sent, joined>>

(* channel_receive of the answers: the call, and its return.               *)
Collect ==
  /\ pc[Main] = "collect"
  /\ Ans!RecvPair(Main) \/ Ans!RecvWait(Main)
  /\ UNCHANGED <<program, head, lockVars, reqVars, retval, pc, sent, joined>>

Collected ==
  /\ pc[Main] = "collect"
  /\ Ans!RecvReturn(Main)
  /\ AdvanceIf(Main, Len(retvals'[Main]) = N)
  /\ UNCHANGED <<program, head, lockVars, reqVars, retval, sent, joined>>

JoinServer ==
  /\ pc[Main] = "join"
  /\ pc[joined + 1] = "returned"
  /\ joined' = joined + 1
  /\ AdvanceIf(Main, joined' = N)
  /\ UNCHANGED <<program, head, lockVars, reqVars, ansVars, retval, sent>>

JoinSender ==
  /\ pc[Main] = "join_sender"
  /\ pc[Sender] = "returned"
  /\ Advance(Main)
  /\ UNCHANGED <<program, head, lockVars, reqVars, ansVars, retval, sent, joined>>

MainStep == CreateSender \/ CreateServer \/ Collect \/ Collected \/ JoinServer \/ JoinSender
-----------------------------------------------------------------------------
(* send_commands sends the address of each of its commands, here its index. *)
Send ==
  /\ pc[Sender] = "send"
  /\ Req!SendPair(Sender, sent + 1) \/ Req!SendWait(Sender, sent + 1)
  /\ UNCHANGED <<program, head, lockVars, ansVars, retval, pc, sent, joined>>

Sent ==
  /\ pc[Sender] = "send"
  /\ Req!SendReturn(Sender)
  /\ sent' = sent + 1
  /\ AdvanceIf(Sender, sent' = N)
  /\ UNCHANGED <<program, head, lockVars, ansVars, retval, joined>>

SenderStep == Send \/ Sent
-----------------------------------------------------------------------------
LockList(s) ==
  /\ pc[s] = "lock"
  /\ Lock!Take(s) \/ Lock!Wait(s)
  /\ UNCHANGED <<program, head, reqVars, ansVars, retval, pc, sent, joined>>

Locked(s) ==
  /\ pc[s] = "lock"
  /\ Lock!Enter(s)
  /\ Advance(s)
  /\ UNCHANGED <<program, head, reqVars, ansVars, retval, sent, joined>>

Receive(s) ==
  /\ pc[s] = "receive"
  /\ Req!RecvPair(s) \/ Req!RecvWait(s)
  /\ UNCHANGED <<program, head, lockVars, ansVars, retval, pc, sent, joined>>

Received(s) ==
  /\ pc[s] = "receive"
  /\ Req!RecvReturn(s)
  /\ Advance(s)
  /\ UNCHANGED <<program, head, lockVars, ansVars, retval, sent, joined>>

(* What recv_command points to: when send_commands has returned, its frame *)
(* is gone, and the calls that end the thread may have written over it.    *)
Pointee(i) == IF pc[Sender] = "returned"
                THEN Command \cup {[op |-> "OTHER"], program[i]}
                ELSE {program[i]}

Execute(s) ==
  /\ pc[s] = "execute"
  /\ \E c \in Pointee(Last(recv_command[s])) :
       /\ head' = ListAfter(c, head)
       /\ retval' = [retval EXCEPT ![s] = Retval(c, head)]
  /\ Advance(s)
  /\ UNCHANGED <<program, lockVars, reqVars, ansVars, sent, joined>>

Answer(s) ==
  /\ pc[s] = "answer"
  /\ Ans!SendPair(s, retval[s]) \/ Ans!SendWait(s, retval[s])
  /\ UNCHANGED <<program, head, lockVars, reqVars, retval, pc, sent, joined>>

Answered(s) ==
  /\ pc[s] = "answer"
  /\ Ans!SendReturn(s)
  /\ Advance(s)
  /\ UNCHANGED <<program, head, lockVars, reqVars, retval, sent, joined>>

Unlock(s) ==
  /\ pc[s] = "unlock"
  /\ Lock!Leave(s)
  /\ Advance(s)
  /\ UNCHANGED <<program, head, reqVars, ansVars, retval, sent, joined>>

ServerStep(s) == \/ LockList(s) \/ Locked(s) \/ Receive(s) \/ Received(s)
                 \/ Execute(s) \/ Answer(s) \/ Answered(s) \/ Unlock(s)
-----------------------------------------------------------------------------
Next == MainStep \/ SenderStep \/ \E s \in Servers : ServerStep(s)

(* The scheduler runs every RUNNABLE thread in its turn.                   *)
Fairness == WF_vars(MainStep) /\ WF_vars(SenderStep)
            /\ \A s \in Servers : WF_vars(ServerStep(s))

Spec == Init /\ [][Next]_vars /\ Fairness
-----------------------------------------------------------------------------
(* What the commands should answer, written without the list: every key    *)
(* has a stack of values, an INSERT pushes, a DELETE pops, a GET reads the *)
(* top, and a key without values reads as 0 (list_find returns NULL).      *)
Stacks[i \in 0..N] ==
  IF i = 0 THEN [k \in Keys |-> <<>>]
  ELSE LET c == program[i]
           s == Stacks[i - 1][c.key]
       IN [Stacks[i - 1] EXCEPT ![c.key] =
             CASE c.op = "INSERT" -> <<c.val>> \o s
               [] c.op = "DELETE" /\ s # <<>> -> Tail(s)
               [] OTHER -> s]

Expected(i) == LET c == program[i]
                   s == Stacks[i - 1][c.key]
               IN IF c.op = "GET" /\ s # <<>> THEN Head(s) ELSE 0

(* The answers arrive in the order of the commands, and each is the result *)
(* of its command on the list that the commands before it left, whichever  *)
(* servers executed them: for every command but the last, whose frame may  *)
(* be gone (execute_commands holds the list's lock from before the receive *)
(* until its answer is taken).                                             *)
AnswersInOrder ==
  \A i \in DOMAIN retvals[Main] : i < N => retvals[Main][i] = Expected(i)

(* No thread uses memory of a frame that is gone: a server that is about   *)
(* to read a command other than the last finds send_commands in its loop,  *)
(* and try_list, whose frame holds the channels, returns after all.        *)
FramesAlive ==
  /\ \A s \in Servers :
       pc[s] = "execute" /\ Last(recv_command[s]) < N => pc[Sender] = "send"
  /\ pc[Main] = "returned" => \A t \in Threads : pc[t] = "returned"

(* Nobody is left waiting for the lock, for a partner on a channel or for  *)
(* an exit: the program ends (a server waits for the main thread with the  *)
(* lock taken, so the main thread may not wait for the servers first).     *)
AllReturn == <>(\A t \in Threads : pc[t] = "returned")
=============================================================================
