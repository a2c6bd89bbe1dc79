----------------------------- MODULE OrderProofs -----------------------------
(***************************************************************************)
(* Proofs about what comes in which order: the answers of the list server  *)
(* of lab 2 (CommandList), the processes of lab 0 (ForkTree), the threads  *)
(* that the policies of lab 1 choose (Policies), and what the shell of     *)
(* lab 4 remembers (Shell).                                                *)
(***************************************************************************)
EXTENDS CommandList, ForkTree, Policies, Shell,
        NumberTheorems, FiniteSetTheorems, SequenceTheorems

-----------------------------------------------------------------------------
(* CommandList, for any number of commands: no command but the last is     *)
(* read from a frame that is gone, try_list returns last, and the answers  *)
(* arrive in the order of the commands and are right.                      *)
PcValues == {"uncreated", "create_sender", "create", "collect", "join", "join_sender", "send",
           "lock", "receive", "execute", "answer", "unlock", "returned"}

Types ==
  /\ inside \in SUBSET Servers
  /\ qsends \in Seq([thread : {Sender}, value : 1..N])
  /\ qrecvs \in Seq(Servers)
  /\ qpaired \in SUBSET {Sender}
  /\ qgiven \in [Servers -> 1..N \cup {NULL}]
  /\ recv_command \in [Servers -> Seq(1..N)]
  /\ pc \in [Threads -> PcValues]
  /\ sent \in 0..N
  /\ joined \in 0..N

(* How far each program is, and who has returned. *)
MainPlace ==
  /\ pc[Main] \in {"create_sender", "create", "collect", "join", "join_sender", "returned"}
  /\ pc[Main] \in {"create_sender", "create", "collect"} => joined = 0
  /\ pc[Main] = "join" => joined < N
  /\ pc[Main] \in {"join_sender", "returned"} => joined = N
  /\ \A s \in 1..joined : pc[s] = "returned"
  /\ pc[Main] = "returned" => pc[Sender] = "returned"
  /\ pc[Main] = "create" => \E m \in Servers : \A s \in Servers : pc[s] = "uncreated" <=> s >= m
  /\ pc[Main] = "create_sender" =>
       pc[Sender] = "uncreated" /\ \A s \in Servers : pc[s] = "uncreated"

SenderPlace ==
  /\ pc[Sender] \in {"uncreated", "send", "returned"}
  /\ pc[Sender] = "uncreated" => sent = 0
  /\ pc[Sender] = "send" => sent < N
  /\ pc[Sender] = "returned" => sent = N
  /\ pc[Sender] # "send" => qpaired = {} /\ qsends = <<>>

ServerPlace == \A s \in Servers :
  pc[s] \in {"uncreated", "lock", "receive", "execute", "answer", "unlock", "returned"}

(* The list's lock is taken from before the receive until after the answer. *)
Holding ==
  /\ \A s, r \in inside : s = r
  /\ \A s \in Servers : s \in inside <=> pc[s] \in {"receive", "execute", "answer", "unlock"}

(* One command at most waits, and one server at most waits for it. *)
Waiting ==
  /\ \/ qsends = <<>>
     \/ qpaired = {} /\ qsends = <<[thread |-> Sender, value |-> sent + 1]>>
  /\ \/ qrecvs = <<>>
     \/ \E r \in Servers : qrecvs = <<r>> /\ pc[r] = "receive" /\ qgiven[r] = NULL
  /\ \A s \in Servers : qgiven[s] # NULL => pc[s] = "receive"

(* The command that was received last is the one the sender is at, as long as its
   call has not returned, or the one before. *)
IsLatest(k) == k = IF qpaired = {} THEN sent ELSE sent + 1

Latest == \A s \in Servers :
  /\ qgiven[s] # NULL => IsLatest(qgiven[s])
  /\ pc[s] = "execute" => recv_command[s] # <<>> /\ IsLatest(Last(recv_command[s]))

IInv == Types /\ MainPlace /\ SenderPlace /\ ServerPlace /\ Holding /\ Waiting /\ Latest

-----------------------------------------------------------------------------
(* Nobody has started. *)
LEMMA InitIInv == Init => IInv
<1> SUFFICES ASSUME Init PROVE IInv
  OBVIOUS
<1> USE ProgramsAssumption, ThreadsAssumption DEF Init, Lock!Init, Req!Init
<1>1. /\ pc[Main] = "create_sender" /\ pc[Sender] = "uncreated"
      /\ \A s \in Servers : pc[s] = "uncreated"
  BY DEF Threads
<1>2. Types
  <2>1. pc \in [Threads -> PcValues]
    BY DEF PcValues
  <2> QED BY <2>1 DEF Types, Servers
<1>3. MainPlace
  BY <1>1 DEF MainPlace
<1>4. SenderPlace /\ ServerPlace
  BY <1>1 DEF SenderPlace, ServerPlace
<1>5. Holding /\ Waiting /\ Latest
  BY <1>1 DEF Holding, Waiting, Latest
<1> QED BY <1>2, <1>3, <1>4, <1>5 DEF IInv

(* CreateServer creates a server that was not created. *)
LEMMA CreatesOne ==
  ASSUME IInv, pc[Main] = "create",
         NEW u, u = CHOOSE x \in Uncreated : \A v \in Uncreated : x <= v
  PROVE  /\ u \in Servers /\ pc[u] = "uncreated"
         /\ Uncreated # {u} => u + 1 \in Servers
         /\ \A s \in Servers \ {u} : pc[s] = "uncreated" <=> s >= u + 1
<1> USE ProgramsAssumption DEF Servers
<1>1. PICK m \in Servers : \A s \in Servers : pc[s] = "uncreated" <=> s >= m
  BY DEF IInv, MainPlace
<1>2. m \in Uncreated /\ \A v \in Uncreated : m <= v
  BY <1>1 DEF Uncreated
<1>3. u \in Uncreated /\ \A v \in Uncreated : u <= v
  BY <1>2
<1>4. u = m
  BY <1>2, <1>3 DEF Uncreated
<1>5. Uncreated # {u} => u + 1 \in Servers
  <2> SUFFICES ASSUME Uncreated # {u} PROVE u + 1 \in Servers
    OBVIOUS
  <2>1. PICK v \in Uncreated : v # u
    BY <1>3
  <2> QED BY <2>1, <1>3 DEF Uncreated
<1> QED BY <1>1, <1>3, <1>4, <1>5 DEF Uncreated

(* A step that changes neither the lock, the requests nor a server that is past
   them keeps what IInv says about them. *)
LEMMA Unchanged ==
  ASSUME IInv, UNCHANGED <<inside, reqVars, sent>>, pc' \in [Threads -> PcValues],
         \A s \in Servers : pc[s] \in {"receive", "execute", "answer", "unlock"}
                             \/ pc'[s] \in {"receive", "execute", "answer", "unlock"}
                             => pc'[s] = pc[s]
  PROVE  Holding' /\ Waiting' /\ Latest'
<1>1. Holding'
  BY DEF IInv, Holding
<1>2. Waiting'
  BY DEF IInv, Waiting, reqVars
<1>3. Latest'
  BY DEF IInv, Latest, IsLatest, reqVars
<1> QED BY <1>1, <1>2, <1>3

(* Steps of the main thread. *)
LEMMA MainInv ==
  ASSUME IInv, MainStep
  PROVE  IInv'
<1> USE ProgramsAssumption, ThreadsAssumption DEF IInv, Types, PcValues
<1>a. UNCHANGED <<inside, reqVars, sent>>
  BY DEF MainStep, CreateSender, CreateServer, Collect, Collected, JoinServer, JoinSender, lockVars
<1>b. Main \in Threads /\ Sender \in Threads /\ Servers \subseteq Threads
      /\ Main \notin Servers /\ Sender \notin Servers /\ Main # Sender
  BY DEF Threads
<1>c. N \in Nat \ {0} /\ Servers = 1..N
  BY DEF Servers
<1>1. CASE CreateSender
  <2>1. pc[Main] = "create_sender" /\ joined' = joined
        /\ pc' = [pc EXCEPT ![Sender] = "send", ![Main] = "create"]
    BY <1>1 DEF CreateSender, After, MainOrder
  <2>2. pc' \in [Threads -> PcValues] /\ pc'[Main] = "create" /\ pc'[Sender] = "send"
        /\ \A s \in Servers : pc'[s] = pc[s]
    BY <2>1, <1>b
  <2>3. Holding' /\ Waiting' /\ Latest'
    BY <2>2, <1>a, Unchanged
  <2>4. MainPlace'
    <3>1. pc[Sender] = "uncreated" /\ joined = 0 /\ \A s \in Servers : pc[s] = "uncreated"
      BY <2>1 DEF MainPlace
    <3>2. 1 \in Servers /\ \A s \in Servers : pc'[s] = "uncreated" <=> s >= 1
      BY <3>1, <2>2, <1>c
    <3>3. \E m \in Servers : \A s \in Servers : pc'[s] = "uncreated" <=> s >= m
      BY <3>2
    <3>4. \A s \in 1..joined' : pc'[s] = "returned"
      BY <3>1, <2>1
    <3> QED BY <3>1, <3>3, <3>4, <2>1, <2>2 DEF MainPlace
  <2>5. SenderPlace' /\ ServerPlace'
    <3>1. pc[Sender] = "uncreated" /\ \A s \in Servers : pc[s] = "uncreated"
      BY <2>1 DEF MainPlace
    <3>2. sent = 0 /\ sent' = 0 /\ 0 < N /\ qpaired = {} /\ qsends = <<>>
      BY <3>1, <1>a, <1>c DEF SenderPlace
    <3>3. SenderPlace'
      BY <2>2, <3>2, <1>a DEF SenderPlace, reqVars
    <3>4. ServerPlace'
      BY <2>2, <3>1 DEF ServerPlace
    <3> QED BY <3>3, <3>4
  <2> QED BY <2>1, <2>2, <2>3, <2>4, <2>5, <1>a DEF reqVars
<1>2. CASE CreateServer
  <2> DEFINE u == CHOOSE x \in Uncreated : \A v \in Uncreated : x <= v
  <2>1. pc[Main] = "create" /\ joined' = joined
        /\ pc' = [pc EXCEPT ![u] = "lock",
                            ![Main] = IF Uncreated = {u} THEN "collect" ELSE @]
    BY <1>2 DEF CreateServer, After, MainOrder
  <2>2. /\ u \in Servers /\ pc[u] = "uncreated"
        /\ Uncreated # {u} => u + 1 \in Servers
        /\ \A s \in Servers \ {u} : pc[s] = "uncreated" <=> s >= u + 1
    BY <2>1, CreatesOne
  <2> HIDE DEF u
  <2>3. /\ pc' \in [Threads -> PcValues]
        /\ pc'[Main] = IF Uncreated = {u} THEN "collect" ELSE "create"
        /\ pc'[u] = "lock" /\ pc'[Sender] = pc[Sender]
        /\ \A s \in Servers \ {u} : pc'[s] = pc[s]
    BY <2>1, <2>2, <1>b
  <2>4. Holding' /\ Waiting' /\ Latest'
    BY <2>2, <2>3, <1>a, Unchanged
  <2>5. MainPlace'
    <3>1. joined' = 0 /\ pc'[Main] \in {"create", "collect"}
      BY <2>1, <2>3 DEF MainPlace
    <3>2. ASSUME NEW s \in Servers PROVE pc'[s] = "uncreated" <=> s >= u + 1
      <4>1. CASE s = u
        BY <4>1, <2>2, <2>3, <1>c
      <4>2. CASE s # u
        BY <4>2, <2>2, <2>3
      <4> QED BY <4>1, <4>2
    <3>3. pc'[Main] = "create" => u + 1 \in Servers
      BY <2>2, <2>3
    <3>4. pc'[Main] = "create" =>
            \E m \in Servers : \A s \in Servers : pc'[s] = "uncreated" <=> s >= m
      BY <3>2, <3>3
    <3>5. \A s \in 1..joined' : pc'[s] = "returned"
      BY <3>1
    <3> QED BY <3>1, <3>4, <3>5 DEF MainPlace
  <2>6. SenderPlace' /\ ServerPlace'
    BY <2>3, <1>a DEF SenderPlace, ServerPlace, reqVars
  <2> QED BY <2>1, <2>3, <2>4, <2>5, <2>6, <1>a DEF reqVars
<1>3. CASE Collect \/ Collected \/ JoinServer \/ JoinSender
  <2>a. /\ pc[Main] \in {"collect", "join", "join_sender"}
        /\ \/ pc' = pc
           \/ pc' = [pc EXCEPT ![Main] = MainOrder[pc[Main]]]
    BY <1>3 DEF Collect, Collected, JoinServer, JoinSender, Advance, AdvanceIf, After
  <2>1. /\ pc' \in [Threads -> PcValues]
        /\ pc'[Sender] = pc[Sender]
        /\ \A s \in Servers : pc'[s] = pc[s]
    <3>1. MainOrder[pc[Main]] \in PcValues
      BY <2>a DEF MainOrder
    <3> QED BY <2>a, <3>1, <1>b
  <2>2. Holding' /\ Waiting' /\ Latest'
    BY <2>1, <1>a, Unchanged
  <2>3. MainPlace' /\ joined' \in 0..N
    <3>1. CASE Collect \/ Collected
      BY <3>1, <2>1, <1>b, <1>c
         DEF Collect, Collected, MainPlace, Advance, AdvanceIf, After, MainOrder
    <3>2. CASE JoinServer
      BY <3>2, <2>1, <1>b, <1>c, SMTT(30) DEF JoinServer, MainPlace, Advance, AdvanceIf, After, MainOrder
    <3>3. CASE JoinSender
      BY <3>3, <2>1, <1>b, <1>c DEF JoinSender, MainPlace, Advance, After, MainOrder
    <3> QED BY <1>3, <3>1, <3>2, <3>3
  <2>4. SenderPlace' /\ ServerPlace'
    BY <2>1, <1>a DEF SenderPlace, ServerPlace, reqVars
  <2> QED BY <2>1, <2>2, <2>3, <2>4, <1>a DEF reqVars
<1> QED BY <1>1, <1>2, <1>3 DEF MainStep

(* Steps of the thread that sends the commands. *)
LEMMA SenderInv ==
  ASSUME IInv, SenderStep
  PROVE  IInv'
<1> USE ProgramsAssumption, ThreadsAssumption DEF IInv, Types, PcValues
<1>a. pc[Sender] = "send" /\ UNCHANGED <<inside, joined>>
  BY DEF SenderStep, Send, Sent, lockVars
<1>b. Main \in Threads /\ Sender \in Threads /\ Servers \subseteq Threads
      /\ Main \notin Servers /\ Sender \notin Servers /\ Main # Sender
  BY DEF Threads
<1>c. N \in Nat \ {0} /\ Servers = 1..N /\ NULL \notin Servers
  BY DEF Servers
<1>d. sent \in 0..N /\ sent < N /\ sent + 1 \in Servers
  BY <1>a, <1>c DEF SenderPlace
<1>1. CASE Send
  <2>1. pc' = pc /\ sent' = sent /\ Sender \notin qpaired /\ qpaired = {}
        /\ recv_command' = recv_command
    BY <1>1 DEF Send, Req!SendPair, Req!SendWait, Req!NotSending
  <2>2. qsends = <<>>
    BY <1>1 DEF Waiting, Send, Req!SendPair, Req!SendWait, Req!NotSending
  <2>3. MainPlace' /\ ServerPlace' /\ SenderPlace' /\ Holding'
    BY <1>a, <2>1 DEF MainPlace, ServerPlace, SenderPlace, Holding
  <2>4. CASE Req!SendPair(Sender, sent + 1)
    <3>1. PICK r \in Servers : qrecvs = <<r>> /\ pc[r] = "receive" /\ qgiven[r] = NULL
      BY <2>4 DEF Req!SendPair, Waiting
    <3>2. /\ qgiven' = [qgiven EXCEPT ![r] = sent + 1] /\ qrecvs' = <<>>
          /\ qpaired' = {Sender} /\ qsends' = <<>>
      BY <2>4, <3>1, <2>1, <2>2 DEF Req!SendPair
    <3>3. qgiven' \in [Servers -> 1..N \cup {NULL}]
      BY <3>2, <1>c, <1>d
    <3>4. Waiting'
      BY <3>1, <3>2, <2>1 DEF Waiting
    <3>5. \A s \in Servers : pc[s] # "execute"
      BY <3>1 DEF Holding
    <3>6. \A s \in Servers \ {r} : qgiven[s] = NULL
      BY <3>1 DEF Holding, Waiting
    <3>7. Latest'
      BY <3>2, <3>5, <3>6, <2>1 DEF Latest, IsLatest
    <3> QED BY <3>2, <3>3, <3>4, <3>7, <2>1, <2>3, <1>a
  <2>5. CASE Req!SendWait(Sender, sent + 1)
    <3>1. /\ qsends' = <<[thread |-> Sender, value |-> sent + 1]>>
          /\ UNCHANGED <<qrecvs, qpaired, qgiven>>
      BY <2>5, <2>2 DEF Req!SendWait
    <3>2. qsends' \in Seq([thread : {Sender}, value : 1..N])
      BY <3>1, <1>c, <1>d
    <3>3. Waiting'
      BY <3>1, <2>1 DEF Waiting
    <3>4. Latest'
      BY <3>1, <2>1 DEF Latest, IsLatest
    <3> QED BY <3>1, <3>2, <3>3, <3>4, <2>1, <2>3, <1>a
  <2> QED BY <1>1, <2>4, <2>5 DEF Send
<1>2. CASE Sent
  <2>1. /\ Sender \in qpaired /\ qpaired = {Sender} /\ qpaired' = {}
        /\ UNCHANGED <<qsends, qrecvs, qgiven, recv_command>> /\ sent' = sent + 1
    BY <1>2 DEF Sent, Req!SendReturn
  <2>2. pc' = IF sent' = N THEN [pc EXCEPT ![Sender] = "returned"] ELSE pc
    BY <1>2, <1>a, <1>b DEF Sent, AdvanceIf, Advance, After, SenderOrder
  <2>3. /\ pc' \in [Threads -> PcValues]
        /\ pc'[Sender] = IF sent' = N THEN "returned" ELSE "send"
        /\ \A t \in Threads \ {Sender} : pc'[t] = pc[t]
    BY <2>2, <1>a, <1>b
  <2>4. qsends = <<>>
    BY <2>1 DEF Waiting
  <2>5. MainPlace'
    <3>1. pc[Main] \notin {"create_sender", "returned"} /\ pc'[Main] = pc[Main]
      BY <1>a, <1>b, <2>3 DEF MainPlace
    <3>2. \A r \in Servers : pc'[r] = pc[r]
      BY <1>b, <2>3
    <3>3. \A r \in 1..joined : pc'[r] = "returned"
      <4>1. \A r \in 1..joined : pc[r] = "returned"
        BY DEF MainPlace
      <4>2. 1..joined \subseteq Servers /\ joined' = joined
        BY <1>a, <1>c
      <4> QED BY <3>2, <4>1, <4>2
    <3> QED BY <1>a, <3>1, <3>2, <3>3 DEF MainPlace
  <2>6. SenderPlace' /\ sent' \in 0..N
    BY <1>c, <1>d, <2>1, <2>3, <2>4 DEF SenderPlace
  <2>7. ServerPlace' /\ Holding'
    BY <1>a, <1>b, <2>3 DEF ServerPlace, Holding
  <2>8. Waiting'
    BY <1>b, <2>1, <2>3, <2>4 DEF Waiting
  <2>9. Latest'
    BY <1>b, <2>1, <2>3 DEF Latest, IsLatest
  <2> QED BY <2>1, <2>3, <2>5, <2>6, <2>7, <2>8, <2>9, <1>a
<1> QED BY <1>1, <1>2 DEF SenderStep

(* Steps of the servers. *)
LEMMA ServerInv ==
  ASSUME IInv, NEW s \in Servers, ServerStep(s)
  PROVE  IInv'
<1> USE ProgramsAssumption, ThreadsAssumption DEF IInv, Types, PcValues
<1>a. UNCHANGED <<sent, joined>>
  BY DEF ServerStep, LockList, Locked, Receive, Received, Execute, Answer, Answered, Unlock
<1>b. Main \in Threads /\ Sender \in Threads /\ Servers \subseteq Threads
      /\ Main \notin Servers /\ Sender \notin Servers /\ Main # Sender
  BY DEF Threads
<1>c. N \in Nat \ {0} /\ Servers = 1..N /\ NULL \notin Servers
  BY DEF Servers
<1>d. pc[s] \in {"lock", "receive", "execute", "answer", "unlock"}
  BY DEF ServerStep, LockList, Locked, Receive, Received, Execute, Answer, Answered, Unlock
<1>e. pc' = pc \/ pc' = [pc EXCEPT ![s] = ServerOrder[pc[s]]]
  BY <1>b DEF ServerStep, LockList, Locked, Receive, Received, Execute, Answer, Answered, Unlock,
              Advance, After
<1>f. /\ pc' \in [Threads -> PcValues] /\ pc'[s] # "uncreated"
      /\ \A t \in Threads \ {s} : pc'[t] = pc[t]
  <2>1. ServerOrder[pc[s]] \in PcValues \ {"uncreated"}
    BY <1>d DEF ServerOrder
  <2> QED BY <2>1, <1>b, <1>d, <1>e
<1>g. ServerPlace'
  <2>1. ServerOrder[pc[s]] \in {"receive", "execute", "answer", "unlock", "returned"}
    BY <1>d DEF ServerOrder
  <2>2. pc'[s] \in {"lock", "receive", "execute", "answer", "unlock", "returned"}
    BY <2>1, <1>b, <1>d, <1>e
  <2> QED BY <2>2, <1>b, <1>f DEF ServerPlace
<1>h. MainPlace'
  <2>1. \A r \in 1..joined : r \in Servers /\ r # s /\ pc[r] = "returned"
    BY <1>c, <1>d DEF MainPlace
  <2>2. \A r \in Servers : pc'[r] = "uncreated" <=> pc[r] = "uncreated"
    BY <1>b, <1>d, <1>f
  <2> QED BY <1>a, <1>b, <1>f, <2>1, <2>2 DEF MainPlace
<1>1. CASE LockList(s)
  <2>1. UNCHANGED <<inside, reqVars, pc>>
    BY <1>1 DEF LockList, Lock!Take, Lock!Wait
  <2>2. SenderPlace' /\ Holding' /\ Waiting' /\ Latest'
    BY <1>a, <2>1 DEF reqVars, SenderPlace, Holding, Waiting, Latest, IsLatest
  <2> QED BY <2>1, <2>2, <1>a, <1>f, <1>g, <1>h DEF reqVars
<1>2. CASE Locked(s)
  <2>1. UNCHANGED reqVars /\ pc[s] = "lock" /\ pc'[s] = "receive" /\ inside = {} /\ inside' = {s}
    BY <1>2, <1>b DEF Locked, Lock!Enter, Advance, After, ServerOrder
  <2>2. Holding' /\ SenderPlace'
    BY <2>1, <1>a, <1>b, <1>f DEF Holding, SenderPlace, reqVars
  <2>3. Waiting' /\ Latest'
    BY <2>1, <1>a, <1>b, <1>f DEF Waiting, Latest, IsLatest, reqVars
  <2> QED BY <2>1, <2>2, <2>3, <1>a, <1>f, <1>g, <1>h DEF reqVars
<1>3. CASE Receive(s)
  <2>1. pc[s] = "receive" /\ pc' = pc /\ UNCHANGED <<inside, recv_command>> /\ qgiven[s] = NULL
    BY <1>3 DEF Receive, Req!RecvPair, Req!RecvWait, Req!NotReceiving, lockVars
  <2>2. \A r \in Servers \ {s} : pc[r] \notin {"receive", "execute"} /\ qgiven[r] = NULL
    BY <2>1 DEF Holding, Waiting
  <2>3. qrecvs = <<>>
    BY <1>3, <2>2 DEF Receive, Req!RecvPair, Req!RecvWait, Req!NotReceiving, Waiting
  <2>4. Holding'
    BY <2>1 DEF Holding
  <2>5. CASE Req!RecvPair(s)
    <3>1. qpaired = {} /\ qsends = <<[thread |-> Sender, value |-> sent + 1]>>
      BY <2>5 DEF Req!RecvPair, Waiting
    <3>2. /\ qgiven' = [qgiven EXCEPT ![s] = sent + 1] /\ qpaired' = {Sender}
          /\ qsends' = <<>> /\ qrecvs' = <<>>
      <4> DEFINE h == Head(qsends)
      <4>1. h = [thread |-> Sender, value |-> sent + 1] /\ Tail(qsends) = <<>>
        BY <3>1
      <4>2. h.thread = Sender /\ h.value = sent + 1
        BY <4>1
      <4>3. /\ qgiven' = [qgiven EXCEPT ![s] = h.value] /\ qpaired' = qpaired \cup {h.thread}
            /\ qsends' = Tail(qsends) /\ qrecvs' = qrecvs
        BY <2>5 DEF Req!RecvPair
      <4> HIDE DEF h
      <4> QED BY <2>3, <3>1, <4>1, <4>2, <4>3
    <3>3. pc[Sender] = "send" /\ sent + 1 \in 1..N
      BY <3>1, <1>c DEF SenderPlace
    <3>4. SenderPlace'
      BY <2>1, <3>2, <3>3, <1>a DEF SenderPlace
    <3>5. qgiven' \in [Servers -> 1..N \cup {NULL}]
      BY <3>2, <3>3
    <3>6. Waiting' /\ Latest'
      BY <2>1, <2>2, <3>2, <1>a DEF Waiting, Latest, IsLatest
    <3> QED BY <2>1, <2>4, <3>2, <3>4, <3>5, <3>6, <1>a, <1>f, <1>g, <1>h
  <2>6. CASE Req!RecvWait(s)
    <3>1. qrecvs' = <<s>> /\ qsends = <<>> /\ UNCHANGED <<qsends, qpaired, qgiven>>
      BY <2>6, <2>3 DEF Req!RecvWait
    <3>2. SenderPlace' /\ Waiting' /\ Latest'
      BY <2>1, <3>1, <1>a DEF SenderPlace, Waiting, Latest, IsLatest
    <3> QED BY <2>1, <2>4, <3>1, <3>2, <1>a, <1>f, <1>g, <1>h
  <2> QED BY <1>3, <2>5, <2>6 DEF Receive
<1>4. CASE Received(s)
  <2>1. /\ pc[s] = "receive" /\ pc'[s] = "execute" /\ inside' = inside
        /\ UNCHANGED <<qsends, qrecvs, qpaired>> /\ qgiven[s] # NULL
        /\ recv_command' = [recv_command EXCEPT ![s] = Append(@, qgiven[s])]
        /\ qgiven' = [qgiven EXCEPT ![s] = NULL]
    BY <1>4, <1>b DEF Received, Req!RecvReturn, lockVars, Advance, After, ServerOrder
  <2>2. /\ qgiven[s] \in 1..N
        /\ recv_command'[s] = Append(recv_command[s], qgiven[s])
        /\ recv_command[s] \in Seq(1..N)
    BY <2>1
  <2>3. /\ recv_command'[s] # <<>> /\ Last(recv_command'[s]) = qgiven[s]
        /\ recv_command' \in [Servers -> Seq(1..N)]
        /\ qgiven' \in [Servers -> 1..N \cup {NULL}]
    <3>1. /\ recv_command'[s] \in Seq(1..N) /\ Len(recv_command'[s]) = Len(recv_command[s]) + 1
          /\ recv_command'[s][Len(recv_command[s]) + 1] = qgiven[s]
      BY <2>2
    <3>2. recv_command'[s] # <<>> /\ Last(recv_command'[s]) = qgiven[s]
      BY <3>1 DEF Last
    <3>3. recv_command' \in [Servers -> Seq(1..N)]
      BY <2>1, <2>2, <3>1
    <3>4. qgiven' \in [Servers -> 1..N \cup {NULL}]
      BY <2>1
    <3> QED BY <3>2, <3>3, <3>4
  <2>4. Holding' /\ SenderPlace'
    BY <2>1, <1>a, <1>b, <1>f DEF Holding, SenderPlace
  <2>5. \A r \in Servers \ {s} : pc[r] \notin {"receive", "execute"} /\ qgiven[r] = NULL
    BY <2>1 DEF Holding, Waiting
  <2>6. qrecvs = <<>>
    BY <2>1, <2>5 DEF Waiting
  <2>7. Waiting'
    BY <2>1, <2>5, <2>6, <1>a, <1>b, <1>f DEF Waiting
  <2>8. Latest'
    BY <2>1, <2>3, <2>5, <1>a, <1>b, <1>f DEF Latest, IsLatest
  <2> QED BY <2>1, <2>3, <2>4, <2>7, <2>8, <1>a, <1>f, <1>g, <1>h
<1>5. CASE Execute(s) \/ Answer(s) \/ Answered(s)
  <2>1. /\ UNCHANGED <<inside, reqVars>> /\ pc[s] \in {"execute", "answer"}
        /\ pc'[s] \in {"answer", "unlock"}
    BY <1>5, <1>b DEF Execute, Answer, Answered, lockVars, Advance, After, ServerOrder
  <2>2. Holding' /\ SenderPlace'
    BY <2>1, <1>a, <1>b, <1>f DEF Holding, SenderPlace, reqVars
  <2>3. Waiting' /\ Latest'
    BY <2>1, <1>a, <1>b, <1>f DEF Waiting, Latest, IsLatest, reqVars
  <2> QED BY <2>1, <2>2, <2>3, <1>a, <1>f, <1>g, <1>h DEF reqVars
<1>6. CASE Unlock(s)
  <2>1. UNCHANGED reqVars /\ pc[s] = "unlock" /\ pc'[s] = "returned" /\ inside = {s} /\ inside' = {}
    BY <1>6, <1>b DEF Unlock, Lock!Leave, Advance, After, ServerOrder
  <2>2. Holding' /\ SenderPlace'
    BY <2>1, <1>a, <1>b, <1>f DEF Holding, SenderPlace, reqVars
  <2>3. Waiting' /\ Latest'
    BY <2>1, <1>a, <1>b, <1>f DEF Waiting, Latest, IsLatest, reqVars
  <2> QED BY <2>1, <2>2, <2>3, <1>a, <1>f, <1>g, <1>h DEF reqVars
<1> QED BY <1>1, <1>2, <1>3, <1>4, <1>5, <1>6 DEF ServerStep

-----------------------------------------------------------------------------
(* What a server is about to read is there, and try_list returns last. *)
LEMMA IInvFramesAlive == IInv => FramesAlive
<1> SUFFICES ASSUME IInv PROVE FramesAlive
  OBVIOUS
<1> USE ProgramsAssumption DEF IInv, Types
<1>1. ASSUME NEW s \in Servers, pc[s] = "execute", Last(recv_command[s]) < N
      PROVE  pc[Sender] = "send"
  <2>1. recv_command[s] # <<>> /\ recv_command[s] \in Seq(1..N) /\ IsLatest(Last(recv_command[s]))
    BY <1>1 DEF Latest
  <2>2. Last(recv_command[s]) \in 1..N
    BY <2>1 DEF Last
  <2> QED BY <1>1, <2>1, <2>2 DEF IsLatest, SenderPlace
<1>2. ASSUME pc[Main] = "returned" PROVE \A t \in Threads : pc[t] = "returned"
  BY <1>2 DEF MainPlace, Threads, Servers
<1> QED BY <1>1, <1>2 DEF FramesAlive

(* No thread uses memory of a frame that is gone, for any number of commands and any
   programs: send_commands leaves its loop only when the last command was received, one
   server receives at a time, and try_list joins the others before it returns. *)
THEOREM FramesStayAlive == Spec => []FramesAlive
<1>1. Spec => Init /\ [][Next]_vars
  BY DEF Spec
<1>2. IInv /\ [Next]_vars => IInv'
  <2> SUFFICES ASSUME IInv, [Next]_vars PROVE IInv'
    OBVIOUS
  <2>1. CASE Next
    BY <2>1, MainInv, SenderInv, ServerInv DEF Next
  <2>2. CASE UNCHANGED vars
    BY <2>2 DEF vars, lockVars, reqVars, IInv, Types, MainPlace, SenderPlace, ServerPlace,
                Holding, Waiting, Latest, IsLatest
  <2> QED BY <2>1, <2>2
<1> QED BY <1>1, <1>2, InitIInv, IInvFramesAlive, PTL

-----------------------------------------------------------------------------
(* The list holds a stack for every key: its nodes with the key, in their order, have the
   values of the stack. *)
Node == [key : Keys, data : Vals \cup {0}]
Stack == Seq(Vals \cup {0})

(* The values of the stack are the data of the nodes at the places in M, in their order. *)
Positions(f, l, M, q) ==
  /\ f \in [DOMAIN q -> DOMAIN l]
  /\ \A i, j \in DOMAIN q : i < j => f[i] < f[j]
  /\ M = {f[i] : i \in DOMAIN q}
  /\ \A i \in DOMAIN q : l[f[i]].data = q[i]

Stacked(l, k, q) == \E f : Positions(f, l, Matches(l, k), q)

LEMMA RemoveAtIs ==
  ASSUME NEW S, NEW q \in Seq(S), NEW m \in 1 .. Len(q)
  PROVE  /\ RemoveAt(q, m) \in Seq(S) /\ Len(RemoveAt(q, m)) = Len(q) - 1
         /\ \A j \in 1 .. Len(q) - 1 :
              RemoveAt(q, m)[j] = IF j < m THEN q[j] ELSE q[j + 1]
<1> DEFINE a == SubSeq(q, 1, m - 1)
           b == SubSeq(q, m + 1, Len(q))
<1>1. a \in Seq(S) /\ Len(a) = m - 1 /\ \A j \in 1 .. m - 1 : a[j] = q[j]
  OBVIOUS
<1>2. b \in Seq(S) /\ Len(b) = Len(q) - m /\ \A j \in 1 .. Len(q) - m : b[j] = q[m + j]
  OBVIOUS
<1>3. RemoveAt(q, m) = a \o b
  BY DEF RemoveAt
<1> HIDE DEF a, b
<1>4. a \o b \in Seq(S) /\ Len(a \o b) = Len(q) - 1
  <2>1. Len(a) + Len(b) = Len(q) - 1
    BY <1>1, <1>2
  <2>2. a \o b \in Seq(S) /\ Len(a \o b) = Len(a) + Len(b)
    BY <1>1, <1>2, Appended
  <2> QED BY <2>1, <2>2
<1>5. ASSUME NEW j \in 1 .. Len(q) - 1
      PROVE  (a \o b)[j] = IF j < m THEN q[j] ELSE q[j + 1]
  <2>1. CASE j < m
    <3>1. j \in 1 .. m - 1 /\ j \in 1 .. Len(a)
      BY <1>1, <2>1
    <3>2. (a \o b)[j] = a[j]
      BY <1>1, <1>2, <3>1, Appended
    <3>3. a[j] = q[j]
      BY <1>1, <3>1
    <3> QED BY <2>1, <3>2, <3>3
  <2>2. CASE ~(j < m)
    <3>1. j - (m - 1) \in 1 .. Len(q) - m /\ m + (j - (m - 1)) = j + 1
      BY <2>2
    <3>2. /\ j - (m - 1) \in 1 .. Len(b) /\ Len(a) + (j - (m - 1)) = j
      BY <1>1, <1>2, <2>2
    <3>3. (a \o b)[Len(a) + (j - (m - 1))] = b[j - (m - 1)]
      BY <1>1, <1>2, <3>2, Appended
    <3>4. (a \o b)[j] = b[j - (m - 1)]
      BY <3>2, <3>3
    <3> QED BY <1>2, <2>2, <3>1, <3>4
  <2> QED BY <2>1, <2>2
<1> QED BY <1>3, <1>4, <1>5

(* A new node is the first of the list. *)
LEMMA Inserted ==
  ASSUME NEW l \in Seq(Node), NEW k \in Keys, NEW v \in Vals \cup {0}
  PROVE  LET r == list_insert(l, k, v)
         IN  /\ r \in Seq(Node) /\ Len(r) = Len(l) + 1
             /\ r[1] = [key |-> k, data |-> v]
             /\ \A i \in 1 .. Len(l) : r[i + 1] = l[i]
<1>1. [key |-> k, data |-> v] \in Node
  BY DEF Node
<1> QED BY <1>1 DEF list_insert

(* An INSERT pushes on the stack of its key. *)
LEMMA InsertPushes ==
  ASSUME NEW l \in Seq(Node), NEW k \in Keys, NEW v \in Vals \cup {0},
         NEW q \in Stack, Stacked(l, k, q)
  PROVE  Stacked(list_insert(l, k, v), k, <<v>> \o q)
<1> DEFINE r == list_insert(l, k, v)
           p == <<v>> \o q
<1>1. PICK f : Positions(f, l, Matches(l, k), q)
  BY DEF Stacked
<1>2. /\ Len(r) = Len(l) + 1 /\ r \in Seq(Node)
      /\ r[1] = [key |-> k, data |-> v]
      /\ \A i \in 1 .. Len(l) : r[i + 1] = l[i]
  BY Inserted
<1>3. DOMAIN p = 1 .. Len(q) + 1 /\ p[1] = v /\ \A i \in 1 .. Len(q) : p[i + 1] = q[i]
  BY DEF Stack
<1>4. /\ Len(q) \in Nat /\ Len(l) \in Nat /\ DOMAIN q = 1 .. Len(q) /\ DOMAIN l = 1 .. Len(l)
      /\ DOMAIN r = 1 .. Len(l) + 1
  BY <1>2 DEF Stack
<1> HIDE DEF r, p
<1> DEFINE g == [i \in 1 .. Len(q) + 1 |-> IF i = 1 THEN 1 ELSE f[i - 1] + 1]
<1>5. g[1] = 1 /\ \A i \in 1 .. Len(q) : g[i + 1] = f[i] + 1 /\ f[i] \in 1 .. Len(l)
  <2>1. \A i \in 1 .. Len(q) : f[i] \in 1 .. Len(l)
    BY <1>1, <1>4 DEF Positions
  <2>2. 1 \in 1 .. Len(q) + 1
    BY <1>4
  <2>3. ASSUME NEW i \in 1 .. Len(q)
        PROVE  i + 1 \in 1 .. Len(q) + 1 /\ i + 1 # 1 /\ (i + 1) - 1 = i
    BY <1>4
  <2> QED BY <2>1, <2>2, <2>3
<1>6. g \in [DOMAIN p -> DOMAIN r]
  <2>1. ASSUME NEW i \in 1 .. Len(q) + 1 PROVE g[i] \in DOMAIN r
    <3>1. CASE i = 1
      BY <1>4, <1>5, <3>1
    <3>2. CASE i # 1
      <4>1. i - 1 \in 1 .. Len(q)
        BY <1>4, <3>2
      <4> QED BY <1>1, <1>4, <3>2, <4>1 DEF Positions
    <3> QED BY <3>1, <3>2
  <2> QED BY <1>3, <2>1
<1>7. \A i \in DOMAIN p : i = 1 \/ \E j \in 1 .. Len(q) : i = j + 1
  <2> SUFFICES ASSUME NEW i \in DOMAIN p, i # 1 PROVE \E j \in 1 .. Len(q) : i = j + 1
    OBVIOUS
  <2>1. i - 1 \in 1 .. Len(q) /\ i = (i - 1) + 1
    BY <1>3, <1>4
  <2> QED BY <2>1
<1> HIDE DEF g
<1>8. ASSUME NEW i \in DOMAIN p, NEW j \in DOMAIN p, i < j PROVE g[i] < g[j]
  <2>1. PICK b \in 1 .. Len(q) : j = b + 1
    BY <1>3, <1>4, <1>7, <1>8
  <2>2. CASE i = 1
    <3>1. g[i] = 1 /\ g[j] = f[b] + 1 /\ f[b] \in 1 .. Len(l)
      BY <1>5, <2>1, <2>2
    <3> QED BY <1>4, <3>1
  <2>3. ASSUME NEW a \in 1 .. Len(q), i = a + 1 PROVE g[i] < g[j]
    <3>1. a < b
      BY <1>4, <1>8, <2>1, <2>3
    <3>2. f[a] < f[b]
      BY <1>1, <1>4, <3>1 DEF Positions
    <3> QED BY <1>4, <1>5, <2>1, <2>3, <3>2, SMTT(30)
  <2> QED BY <1>7, <2>2, <2>3
<1>9. Matches(r, k) = {g[i] : i \in DOMAIN p}
  <2>1. ASSUME NEW m \in Matches(r, k) PROVE \E i \in DOMAIN p : m = g[i]
    <3>1. m \in 1 .. Len(l) + 1 /\ r[m].key = k
      BY <1>4 DEF Matches
    <3>2. CASE m = 1
      BY <1>3, <1>4, <1>5, <3>2, SMTT(30)
    <3>3. CASE m # 1
      <4>1. m - 1 \in 1 .. Len(l) /\ (m - 1) + 1 = m
        BY <1>4, <3>1, <3>3
      <4>2. m - 1 \in Matches(l, k)
        BY <1>2, <1>4, <3>1, <4>1 DEF Matches
      <4>3. PICK i \in 1 .. Len(q) : m - 1 = f[i]
        BY <1>1, <1>4, <4>2 DEF Positions
      <4>4. i + 1 \in DOMAIN p /\ g[i + 1] = m
        BY <1>3, <1>4, <1>5, <4>1, <4>3
      <4> QED BY <4>4
    <3> QED BY <3>2, <3>3
  <2>2. ASSUME NEW i \in DOMAIN p PROVE g[i] \in Matches(r, k)
    <3>1. CASE i = 1
      BY <1>2, <1>4, <1>5, <3>1 DEF Matches
    <3>2. ASSUME NEW a \in 1 .. Len(q), i = a + 1 PROVE g[i] \in Matches(r, k)
      <4>1. f[a] \in Matches(l, k) /\ f[a] \in 1 .. Len(l)
        BY <1>1, <1>4 DEF Positions
      <4>2. r[f[a] + 1].key = k /\ f[a] + 1 \in DOMAIN r
        BY <1>2, <1>4, <4>1 DEF Matches
      <4> QED BY <1>5, <3>2, <4>2 DEF Matches
    <3> QED BY <1>7, <3>1, <3>2
  <2> QED BY <2>1, <2>2
<1>10. ASSUME NEW i \in DOMAIN p PROVE r[g[i]].data = p[i]
  <2>1. CASE i = 1
    BY <1>2, <1>3, <1>5, <2>1
  <2>2. ASSUME NEW a \in 1 .. Len(q), i = a + 1 PROVE r[g[i]].data = p[i]
    <3>1. l[f[a]].data = q[a] /\ f[a] \in 1 .. Len(l)
      BY <1>1, <1>4 DEF Positions
    <3> QED BY <1>2, <1>3, <1>5, <2>2, <3>1
  <2> QED BY <1>7, <2>1, <2>2
<1>11. Positions(g, r, Matches(r, k), p)
  BY <1>6, <1>8, <1>9, <1>10 DEF Positions
<1> QED BY <1>11 DEF Stacked, r, p

(* An INSERT leaves the stacks of the other keys as they are. *)
LEMMA InsertKeeps ==
  ASSUME NEW l \in Seq(Node), NEW k \in Keys, NEW v \in Vals \cup {0},
         NEW h \in Keys, h # k, NEW q \in Stack, Stacked(l, h, q)
  PROVE  Stacked(list_insert(l, k, v), h, q)
<1> DEFINE r == list_insert(l, k, v)
<1>1. PICK f : Positions(f, l, Matches(l, h), q)
  BY DEF Stacked
<1>2. /\ Len(r) = Len(l) + 1 /\ r \in Seq(Node)
      /\ r[1] = [key |-> k, data |-> v]
      /\ \A i \in 1 .. Len(l) : r[i + 1] = l[i]
  BY Inserted
<1>3. /\ Len(l) \in Nat /\ DOMAIN l = 1 .. Len(l) /\ DOMAIN r = 1 .. Len(l) + 1
      /\ Len(q) \in Nat /\ DOMAIN q = 1 .. Len(q)
  BY <1>2 DEF Stack
<1> HIDE DEF r
<1> DEFINE g == [i \in DOMAIN q |-> f[i] + 1]
<1>4. \A i \in DOMAIN q : f[i] \in 1 .. Len(l) /\ g[i] = f[i] + 1 /\ g[i] \in DOMAIN r
  BY <1>1, <1>3 DEF Positions
<1>5. g \in [DOMAIN q -> DOMAIN r]
  BY <1>4
<1> HIDE DEF g
<1>6. \A i, j \in DOMAIN q : i < j => g[i] < g[j]
  BY <1>1, <1>3, <1>4 DEF Positions
<1>7. Matches(r, h) = {g[i] : i \in DOMAIN q}
  <2>1. ASSUME NEW m \in Matches(r, h) PROVE \E i \in DOMAIN q : m = g[i]
    <3>1. m \in 1 .. Len(l) + 1 /\ r[m].key = h /\ m # 1
      BY <1>2, <1>3 DEF Matches
    <3>2. m - 1 \in 1 .. Len(l) /\ (m - 1) + 1 = m
      BY <1>3, <3>1
    <3>3. m - 1 \in Matches(l, h)
      BY <1>2, <1>3, <3>1, <3>2 DEF Matches
    <3>4. PICK i \in DOMAIN q : m - 1 = f[i]
      BY <1>1, <3>3 DEF Positions
    <3> QED BY <1>4, <3>2, <3>4
  <2>2. ASSUME NEW i \in DOMAIN q PROVE g[i] \in Matches(r, h)
    <3>1. f[i] \in Matches(l, h) /\ f[i] \in 1 .. Len(l)
      BY <1>1, <1>4 DEF Positions
    <3> QED BY <1>2, <1>3, <1>4, <3>1 DEF Matches
  <2> QED BY <2>1, <2>2
<1>8. \A i \in DOMAIN q : r[g[i]].data = q[i]
  BY <1>1, <1>2, <1>4 DEF Positions
<1>9. Positions(g, r, Matches(r, h), q)
  BY <1>5, <1>6, <1>7, <1>8 DEF Positions
<1> QED BY <1>9 DEF Stacked, r

(* Where a node is after the node at m was removed. *)
Shift(i, m) == IF i < m THEN i ELSE i - 1

LEMMA RemoveShifts ==
  ASSUME NEW l \in Seq(Node), NEW m \in 1 .. Len(l), NEW M, m \notin M,
         NEW q \in Stack, NEW f, Positions(f, l, M, q)
  PROVE  \E g : Positions(g, RemoveAt(l, m), {Shift(i, m) : i \in M}, q)
<1> DEFINE r == RemoveAt(l, m)
           T == {Shift(i, m) : i \in M}
           g == [i \in DOMAIN q |-> Shift(f[i], m)]
<1>1. /\ r \in Seq(Node) /\ Len(r) = Len(l) - 1
      /\ \A j \in 1 .. Len(l) - 1 : r[j] = IF j < m THEN l[j] ELSE l[j + 1]
  BY RemoveAtIs
<1>2. /\ Len(l) \in Nat /\ DOMAIN l = 1 .. Len(l) /\ DOMAIN r = 1 .. Len(l) - 1
      /\ Len(q) \in Nat /\ DOMAIN q = 1 .. Len(q)
  BY <1>1 DEF Stack
<1> HIDE DEF r
<1>3. \A i \in DOMAIN q : f[i] \in 1 .. Len(l) /\ f[i] # m /\ f[i] \in M
  BY <1>2 DEF Positions
<1>4. ASSUME NEW i \in DOMAIN q
      PROVE  g[i] = Shift(f[i], m) /\ g[i] \in 1 .. Len(l) - 1 /\ r[g[i]] = l[f[i]]
  <2>1. g[i] = Shift(f[i], m)
    OBVIOUS
  <2> HIDE DEF g
  <2>2. f[i] \in 1 .. Len(l) /\ f[i] # m
    BY <1>3
  <2>3. CASE f[i] < m
    <3>1. g[i] = f[i] /\ f[i] \in 1 .. Len(l) - 1
      BY <1>2, <2>1, <2>2, <2>3 DEF Shift
    <3> QED BY <1>1, <2>1, <2>3, <3>1
  <2>4. CASE f[i] > m
    <3>1. g[i] = f[i] - 1 /\ f[i] - 1 \in 1 .. Len(l) - 1 /\ ~(f[i] - 1 < m)
          /\ (f[i] - 1) + 1 = f[i]
      BY <1>2, <2>1, <2>2, <2>4 DEF Shift
    <3> QED BY <1>1, <2>1, <3>1
  <2> QED BY <1>2, <2>2, <2>3, <2>4
<1>5. g \in [DOMAIN q -> DOMAIN r]
  BY <1>2, <1>4
<1> HIDE DEF g
<1>6. ASSUME NEW i \in DOMAIN q, NEW j \in DOMAIN q, i < j PROVE g[i] < g[j]
  <2>1. f[i] < f[j] /\ f[i] # m /\ f[j] # m /\ f[i] \in Nat /\ f[j] \in Nat
    <3>1. f[i] < f[j]
      BY <1>6 DEF Positions
    <3>2. f[i] \in 1 .. Len(l) /\ f[i] # m /\ f[j] \in 1 .. Len(l) /\ f[j] # m
      BY <1>3
    <3> QED BY <3>1, <3>2
  <2> QED BY <1>4, <2>1 DEF Shift
<1>7. T = {g[i] : i \in DOMAIN q}
  <2>1. M = {f[i] : i \in DOMAIN q}
    BY DEF Positions
  <2> QED BY <1>4, <2>1
<1>8. \A i \in DOMAIN q : r[g[i]].data = q[i]
  BY <1>4 DEF Positions
<1>9. Positions(g, r, T, q)
  BY <1>5, <1>6, <1>7, <1>8 DEF Positions
<1> QED BY <1>9 DEF r

(* The nodes with a key after the node at m was removed. *)
LEMMA MatchesShift ==
  ASSUME NEW l \in Seq(Node), NEW m \in 1 .. Len(l), NEW k
  PROVE  Matches(RemoveAt(l, m), k) = {Shift(i, m) : i \in Matches(l, k) \ {m}}
<1> DEFINE r == RemoveAt(l, m)
<1>1. /\ r \in Seq(Node) /\ Len(r) = Len(l) - 1
      /\ \A j \in 1 .. Len(l) - 1 : r[j] = IF j < m THEN l[j] ELSE l[j + 1]
  BY RemoveAtIs
<1>2. Len(l) \in Nat /\ DOMAIN l = 1 .. Len(l) /\ DOMAIN r = 1 .. Len(l) - 1
  BY <1>1
<1> HIDE DEF r
<1>3. ASSUME NEW j \in Matches(r, k) PROVE \E i \in Matches(l, k) \ {m} : j = Shift(i, m)
  <2>1. j \in 1 .. Len(l) - 1 /\ r[j].key = k
    BY <1>2, <1>3 DEF Matches
  <2>2. CASE j < m
    <3>1. j \in Matches(l, k) \ {m} /\ Shift(j, m) = j
      BY <1>1, <1>2, <2>1, <2>2 DEF Matches, Shift
    <3> QED BY <3>1
  <2>3. CASE ~(j < m)
    <3>1. j + 1 \in 1 .. Len(l) /\ j + 1 # m /\ ~(j + 1 < m) /\ (j + 1) - 1 = j
      BY <1>2, <2>1, <2>3
    <3>2. j + 1 \in Matches(l, k) \ {m} /\ Shift(j + 1, m) = j
      BY <1>1, <1>2, <2>1, <2>3, <3>1 DEF Matches, Shift
    <3> QED BY <3>2
  <2> QED BY <2>2, <2>3
<1>4. ASSUME NEW i \in Matches(l, k) \ {m} PROVE Shift(i, m) \in Matches(r, k)
  <2>1. i \in 1 .. Len(l) /\ l[i].key = k /\ i # m
    BY <1>2 DEF Matches
  <2>2. CASE i < m
    <3>1. i \in 1 .. Len(l) - 1 /\ r[i] = l[i] /\ Shift(i, m) = i
      BY <1>1, <1>2, <2>1, <2>2 DEF Shift
    <3> QED BY <1>2, <2>1, <3>1 DEF Matches
  <2>3. CASE i > m
    <3>1. i - 1 \in 1 .. Len(l) - 1 /\ ~(i - 1 < m) /\ (i - 1) + 1 = i /\ Shift(i, m) = i - 1
      BY <1>2, <2>1, <2>3 DEF Shift
    <3>2. r[i - 1] = l[i]
      BY <1>1, <3>1
    <3> QED BY <1>2, <2>1, <3>1, <3>2 DEF Matches
  <2> QED BY <1>2, <2>1, <2>2, <2>3
<1>5. Matches(r, k) = {Shift(i, m) : i \in Matches(l, k) \ {m}}
  BY <1>3, <1>4
<1> QED BY <1>5 DEF r

(* The first node with a key has the top of its stack. *)
LEMMA TopIsFirst ==
  ASSUME NEW l \in Seq(Node), NEW k \in Keys, NEW q \in Stack, q # <<>>,
         NEW f, Positions(f, l, Matches(l, k), q)
  PROVE  /\ Matches(l, k) # {} /\ 1 \in DOMAIN q
         /\ FirstMatch(l, k) = f[1] /\ f[1] \in 1 .. Len(l) /\ l[f[1]].data = Head(q)
<1>1. /\ Len(l) \in Nat /\ DOMAIN l = 1 .. Len(l) /\ Len(q) \in Nat /\ DOMAIN q = 1 .. Len(q)
      /\ 1 \in DOMAIN q /\ Head(q) = q[1]
  BY DEF Stack
<1>2. f[1] \in Matches(l, k) /\ f[1] \in 1 .. Len(l) /\ l[f[1]].data = q[1]
  BY <1>1 DEF Positions
<1>3. \A j \in Matches(l, k) : j \in Nat
  BY <1>1 DEF Matches
<1>4. ASSUME NEW j \in Matches(l, k) PROVE f[1] <= j
  <2>1. PICK i \in DOMAIN q : j = f[i]
    BY DEF Positions
  <2>2. i = 1 \/ 1 < i
    BY <1>1
  <2>3. 1 < i => f[1] < f[i]
    BY <1>1 DEF Positions
  <2> QED BY <1>2, <1>3, <2>1, <2>2, <2>3
<1>5. \A j \in Matches(l, k) : (\A i \in Matches(l, k) : j <= i) => j = f[1]
  BY <1>2, <1>3, <1>4
<1>6. FirstMatch(l, k) = f[1]
  BY <1>2, <1>4, <1>5 DEF FirstMatch
<1> QED BY <1>1, <1>2, <1>6

(* A key without values has no nodes. *)
LEMMA EmptyStack ==
  ASSUME NEW l, NEW k, Stacked(l, k, <<>>)
  PROVE  Matches(l, k) = {}
BY DEF Stacked, Positions

(* A GET reads the top of the stack of its key. *)
LEMMA FindTop ==
  ASSUME NEW l \in Seq(Node), NEW k \in Keys, NEW q \in Stack, Stacked(l, k, q)
  PROVE  list_find(l, k) = IF q # <<>> THEN Head(q) ELSE 0
<1>1. CASE q = <<>>
  BY <1>1, EmptyStack DEF list_find
<1>2. CASE q # <<>>
  <2>1. PICK f : Positions(f, l, Matches(l, k), q)
    BY DEF Stacked
  <2> QED BY <1>2, <2>1, TopIsFirst DEF list_find
<1> QED BY <1>1, <1>2

(* A DELETE pops the stack of its key. *)
LEMMA DeletePops ==
  ASSUME NEW l \in Seq(Node), NEW k \in Keys, NEW q \in Stack, Stacked(l, k, q), q # <<>>
  PROVE  Stacked(list_delete(l, k), k, Tail(q))
<1> DEFINE p == Tail(q)
<1>1. PICK f : Positions(f, l, Matches(l, k), q)
  BY DEF Stacked
<1> DEFINE m == f[1]
<1>2. /\ Matches(l, k) # {} /\ FirstMatch(l, k) = m /\ m \in 1 .. Len(l)
      /\ list_delete(l, k) = RemoveAt(l, m)
  BY <1>1, TopIsFirst DEF list_delete
<1>3. /\ p \in Stack /\ Len(q) \in Nat \ {0} /\ DOMAIN q = 1 .. Len(q)
      /\ DOMAIN p = 1 .. Len(q) - 1 /\ \A i \in 1 .. Len(q) - 1 : p[i] = q[i + 1]
  BY DEF Stack
<1> DEFINE g == [i \in DOMAIN p |-> f[i + 1]]
<1>4. \A i \in DOMAIN p : g[i] = f[i + 1] /\ i + 1 \in DOMAIN q /\ 1 < i + 1
  BY <1>3
<1>5. g \in [DOMAIN p -> DOMAIN l]
  BY <1>1, <1>4 DEF Positions
<1> HIDE DEF g, p
<1>6. ASSUME NEW i \in DOMAIN p, NEW j \in DOMAIN p, i < j PROVE g[i] < g[j]
  <2>1. i + 1 < j + 1
    BY <1>3, <1>6
  <2> QED BY <1>1, <1>4, <2>1 DEF Positions
<1>7. Matches(l, k) \ {m} = {g[i] : i \in DOMAIN p}
  <2>1. ASSUME NEW j \in Matches(l, k) \ {m} PROVE \E i \in DOMAIN p : j = g[i]
    <3>1. PICK i \in DOMAIN q : j = f[i]
      BY <1>1 DEF Positions
    <3>2. i - 1 \in DOMAIN p /\ (i - 1) + 1 = i
      BY <1>3, <2>1, <3>1
    <3> QED BY <1>4, <3>1, <3>2
  <2>2. ASSUME NEW i \in DOMAIN p PROVE g[i] \in Matches(l, k) \ {m}
    <3>1. f[i + 1] \in Matches(l, k) /\ f[1] < f[i + 1] /\ f[1] \in Nat
      BY <1>1, <1>2, <1>3, <1>4, SMTT(30) DEF Positions
    <3> QED BY <1>4, <3>1
  <2> QED BY <2>1, <2>2
<1>8. \A i \in DOMAIN p : l[g[i]].data = p[i]
  BY <1>1, <1>3, <1>4 DEF Positions
<1>9. Positions(g, l, Matches(l, k) \ {m}, p)
  BY <1>5, <1>6, <1>7, <1>8 DEF Positions
<1> HIDE DEF m
<1>10. \E h : Positions(h, RemoveAt(l, m), {Shift(i, m) : i \in Matches(l, k) \ {m}}, p)
  <2>1. m \notin Matches(l, k) \ {m}
    OBVIOUS
  <2> QED BY <1>2, <1>3, <1>9, <2>1, RemoveShifts
<1> QED BY <1>2, <1>10, MatchesShift DEF Stacked, p

(* A DELETE leaves the stacks of the other keys as they are. *)
LEMMA DeleteKeeps ==
  ASSUME NEW l \in Seq(Node), NEW k \in Keys, Matches(l, k) # {},
         NEW h \in Keys, h # k, NEW q \in Stack, Stacked(l, h, q)
  PROVE  Stacked(list_delete(l, k), h, q)
<1> DEFINE m == FirstMatch(l, k)
<1>1. m \in Matches(l, k)
  <2>1. Matches(l, k) \subseteq Nat
    BY DEF Matches
  <2>2. \E i \in Matches(l, k) : \A j \in Matches(l, k) : i <= j
    BY <2>1, LeastNumber
  <2> QED BY <2>2 DEF FirstMatch
<1> HIDE DEF m
<1>2. m \in 1 .. Len(l) /\ m \notin Matches(l, h)
  BY <1>1 DEF Matches
<1>3. PICK f : Positions(f, l, Matches(l, h), q)
  BY DEF Stacked
<1>4. \E g : Positions(g, RemoveAt(l, m), {Shift(i, m) : i \in Matches(l, h)}, q)
  BY <1>2, <1>3, RemoveShifts
<1>5. Matches(l, h) \ {m} = Matches(l, h)
  BY <1>2
<1>6. Matches(RemoveAt(l, m), h) = {Shift(i, m) : i \in Matches(l, h)}
  BY <1>2, <1>5, MatchesShift
<1> QED BY <1>4, <1>6 DEF Stacked, list_delete, m

-----------------------------------------------------------------------------
(* What a command does to the list, and what it answers, has the right type. *)
LEMMA ListTypes ==
  ASSUME NEW l \in Seq(Node), NEW c \in Command \cup {[op |-> "OTHER"]}
  PROVE  ListAfter(c, l) \in Seq(Node) /\ Retval(c, l) \in Vals \cup {0}
<1>1. CASE c \in Command
  <2>1. c.op \in {"INSERT", "DELETE", "GET"} /\ c.key \in Keys /\ c.val \in Vals \cup {0}
    BY <1>1 DEF Command
  <2>2. Matches(l, c.key) = {} \/ FirstMatch(l, c.key) \in 1 .. Len(l)
    <3>1. Matches(l, c.key) \subseteq 1 .. Len(l)
      BY DEF Matches
    <3>2. Matches(l, c.key) # {} =>
            \E i \in Matches(l, c.key) : \A j \in Matches(l, c.key) : i <= j
      BY <3>1, LeastNumber
    <3>3. Matches(l, c.key) # {} => FirstMatch(l, c.key) \in Matches(l, c.key)
      BY <3>2 DEF FirstMatch
    <3> QED BY <3>1, <3>3
  <2>3. list_insert(l, c.key, c.val) \in Seq(Node)
    BY <2>1, Inserted
  <2>4. list_delete(l, c.key) \in Seq(Node)
    BY <2>2, RemoveAtIs DEF list_delete
  <2>5. list_find(l, c.key) \in Vals \cup {0}
    <3>1. ASSUME NEW i \in 1 .. Len(l) PROVE l[i].data \in Vals \cup {0}
      <4>1. l[i] \in Node
        OBVIOUS
      <4> QED BY <4>1 DEF Node
    <3> QED BY <2>2, <3>1 DEF list_find
  <2> QED BY <2>1, <2>3, <2>4, <2>5 DEF ListAfter, Retval
<1>2. CASE c = [op |-> "OTHER"]
  BY <1>2 DEF ListAfter, Retval
<1> QED BY <1>1, <1>2

(* The stacks after a command. *)
Pushed(c, st) == [st EXCEPT ![c.key] =
                    CASE c.op = "INSERT" -> <<c.val>> \o st[c.key]
                      [] c.op = "DELETE" /\ st[c.key] # <<>> -> Tail(st[c.key])
                      [] OTHER -> st[c.key]]

LEMMA PushedType ==
  ASSUME NEW c \in Command, NEW st \in [Keys -> Stack]
  PROVE  Pushed(c, st) \in [Keys -> Stack]
<1>1. c.key \in Keys /\ c.val \in Vals \cup {0}
  BY DEF Command
<1>2. st[c.key] \in Stack
  BY <1>1
<1>3. <<c.val>> \o st[c.key] \in Stack /\ (st[c.key] # <<>> => Tail(st[c.key]) \in Stack)
  BY <1>1, <1>2 DEF Stack
<1> QED BY <1>1, <1>2, <1>3 DEF Pushed

LEMMA StacksAre ==
  ASSUME program \in [1..N -> Command]
  PROVE  /\ Stacks \in [0..N -> [Keys -> Stack]]
         /\ Stacks[0] = [k \in Keys |-> <<>>]
         /\ \A i \in 1..N : Stacks[i] = Pushed(program[i], Stacks[i - 1])
<1> USE ProgramsAssumption
<1> DEFINE V == [Keys -> Stack]
           a == [k \in Keys |-> <<>>]
           Go(st, n) == Pushed(program[n], st)
           F == [n \in 1 .. N |-> [st \in V |-> Go(st, n)]]
           StepTo(g, n) == IF n = 0 THEN a ELSE Go(g[n - 1], n)
           at == CHOOSE g : g = [n \in 0 .. N |-> StepTo(g, n)]
<1>0. Stacks = at
  BY DEF Stacks, Pushed
<1>1. a \in V
  BY DEF Stack
<1>2. ASSUME NEW n \in 1 .. N, NEW st \in V PROVE Go(st, n) \in V
  BY <1>2, PushedType
<1> HIDE DEF Go, a
<1>3. F \in [1 .. N -> [V -> V]]
  BY <1>2
<1>4. PICK f : Iterates(f, N, V, a, F)
  <2> HIDE DEF V, F
  <2> QED BY <1>1, <1>3, Recursion
<1>5. ASSUME NEW n \in 0 .. N PROVE f[n] = StepTo(f, n)
  <2>1. CASE n = 0
    BY <1>4, <2>1 DEF Iterates
  <2>2. CASE n # 0
    <3>1. n \in 1 .. N /\ n - 1 \in 0 .. N
      BY <2>2
    <3>2. f[n - 1] \in V
      BY <1>4, <3>1 DEF Iterates
    <3> QED BY <1>4, <2>2, <3>1, <3>2 DEF Iterates
  <2> QED BY <2>1, <2>2
<1>6. f = [n \in 0 .. N |-> StepTo(f, n)]
  BY <1>4, <1>5 DEF Iterates
<1>7. at = [n \in 0 .. N |-> StepTo(at, n)]
  BY <1>6
<1> HIDE DEF at
<1>8. at[0] = a /\ \A n \in 1 .. N : at[n] = Go(at[n - 1], n)
  BY <1>7
<1> DEFINE T == {n \in Nat : n <= N => at[n] \in V}
<1>9. 0 \in T
  BY <1>1, <1>8
<1>10. ASSUME NEW n \in Nat, n \in T PROVE n + 1 \in T
  <2> SUFFICES ASSUME n + 1 <= N PROVE at[n + 1] \in V
    OBVIOUS
  <2>1. at[n] \in V /\ n + 1 \in 1 .. N /\ (n + 1) - 1 = n
    BY <1>10
  <2> QED BY <1>2, <1>8, <2>1
<1>11. Nat \subseteq T
  <2> HIDE DEF T
  <2> QED BY <1>9, <1>10, Induction
<1>12. \A n \in 0 .. N : at[n] \in V
  BY <1>11
<1>13. at \in [0 .. N -> V]
  <2> HIDE DEF V, StepTo
  <2> QED BY <1>7, <1>12
<1> QED BY <1>0, <1>8, <1>13 DEF Go, a

(* What a list that holds the stacks of the commands before i is after command i, and
   what it answers. *)
LEMMA CommandRefines ==
  ASSUME program \in [1..N -> Command], NEW i \in 1..N, NEW l \in Seq(Node),
         \A k \in Keys : Stacked(l, k, Stacks[i - 1][k])
  PROVE  /\ \A k \in Keys : Stacked(ListAfter(program[i], l), k, Stacks[i][k])
         /\ Retval(program[i], l) = Expected(i)
<1> USE ProgramsAssumption
<1> DEFINE c == program[i]
           st == Stacks[i - 1]
<1>1. /\ c \in Command /\ st \in [Keys -> Stack] /\ Stacks[i] = Pushed(c, st)
  BY StacksAre
<1>2. /\ c.op \in {"INSERT", "DELETE", "GET"} /\ c.key \in Keys /\ c.val \in Vals \cup {0}
      /\ st[c.key] \in Stack
  BY <1>1 DEF Command
<1>3. Retval(c, l) = Expected(i)
  <2>1. list_find(l, c.key) = IF st[c.key] # <<>> THEN Head(st[c.key]) ELSE 0
    BY <1>2, FindTop
  <2> QED BY <2>1 DEF Retval, Expected
<1> HIDE DEF c, st
<1>4. ASSUME NEW k \in Keys PROVE Stacked(ListAfter(c, l), k, Pushed(c, st)[k])
  <2>0. Stacked(l, k, st[k]) /\ Stacked(l, c.key, st[c.key]) /\ st[k] \in Stack
    BY <1>1, <1>2 DEF st
  <2>1. CASE c.op = "INSERT"
    <3>1. ListAfter(c, l) = list_insert(l, c.key, c.val)
      BY <2>1 DEF ListAfter
    <3>2. CASE k = c.key
      <4>1. Pushed(c, st)[k] = <<c.val>> \o st[k]
        BY <1>1, <2>1, <3>2 DEF Pushed
      <4> QED BY <1>2, <2>0, <3>1, <3>2, <4>1, InsertPushes
    <3>3. CASE k # c.key
      <4>1. Pushed(c, st)[k] = st[k]
        BY <1>1, <2>1, <3>3 DEF Pushed
      <4> QED BY <1>2, <2>0, <3>1, <3>3, <4>1, InsertKeeps
    <3> QED BY <3>2, <3>3
  <2>2. CASE c.op = "DELETE"
    <3>1. ListAfter(c, l) = list_delete(l, c.key)
      BY <2>2 DEF ListAfter
    <3>2. CASE st[c.key] = <<>>
      <4>1. Matches(l, c.key) = {}
        BY <2>0, <3>2, EmptyStack
      <4>2. list_delete(l, c.key) = l
        BY <4>1 DEF list_delete
      <4>3. Pushed(c, st)[k] = st[k]
        BY <1>1, <1>2, <2>2, <3>2 DEF Pushed
      <4> QED BY <2>0, <3>1, <4>2, <4>3
    <3>3. CASE st[c.key] # <<>>
      <4>1. Matches(l, c.key) # {}
        BY <1>2, <2>0, <3>3, TopIsFirst DEF Stacked
      <4>2. CASE k = c.key
        <5>1. Pushed(c, st)[k] = Tail(st[k])
          BY <1>1, <2>2, <3>3, <4>2 DEF Pushed
        <5> QED BY <2>0, <3>1, <3>3, <4>2, <5>1, DeletePops
      <4>3. CASE k # c.key
        <5>1. Pushed(c, st)[k] = st[k]
          BY <1>1, <2>2, <4>3 DEF Pushed
        <5> QED BY <1>2, <2>0, <3>1, <4>1, <4>3, <5>1, DeleteKeeps
      <4> QED BY <4>2, <4>3
    <3> QED BY <3>2, <3>3
  <2>3. CASE c.op = "GET"
    <3>1. ListAfter(c, l) = l
      BY <2>3 DEF ListAfter
    <3>2. Pushed(c, st)[k] = st[k]
      BY <1>1, <1>2, <2>3 DEF Pushed
    <3> QED BY <2>0, <3>1, <3>2
  <2> QED BY <1>2, <2>1, <2>2, <2>3
<1> QED BY <1>1, <1>3, <1>4 DEF c

-----------------------------------------------------------------------------
(* The command that was received last; the servers that have it, and have not executed it
   or not found a taker for its answer; how many commands were executed, how many answers
   were taken, and how many answers the main thread was given. *)
LastReceived == IF qpaired = {} THEN sent ELSE sent + 1
HasCommand(s) == qgiven[s] # NULL \/ pc[s] = "execute"
OwesAnswer(s) == pc[s] = "answer" /\ s \notin apaired

Executed == IF \E s \in Servers : HasCommand(s) THEN LastReceived - 1 ELSE LastReceived
Taken == IF \E s \in Servers : HasCommand(s) \/ OwesAnswer(s)
           THEN LastReceived - 1 ELSE LastReceived
Given == Len(retvals[Main]) + (IF agiven[Main] # NULL THEN 1 ELSE 0)

AnswerTypes ==
  /\ program \in [1..N -> Command]
  /\ head \in Seq(Node)
  /\ retval \in [Servers -> Vals \cup {0}]
  /\ apaired \in SUBSET Servers
  /\ agiven \in [{Main} -> Vals \cup {0, NULL}]
  /\ retvals \in [{Main} -> Seq(Vals \cup {0})]

(* The list holds the stacks of the commands executed so far. *)
ListHolds == Executed < N => \A k \in Keys : Stacked(head, k, Stacks[Executed][k])

(* One answer at most waits, and it is the answer of the command received last. *)
OneAnswer ==
  /\ \/ asends = <<>>
     \/ \E s \in Servers : OwesAnswer(s) /\ asends = <<[thread |-> s, value |-> retval[s]]>>
  /\ arecvs = <<>> \/ (arecvs = <<Main>> /\ agiven[Main] = NULL)
  /\ \A s \in apaired : pc[s] = "answer"
  /\ \A s \in Servers : OwesAnswer(s) /\ LastReceived < N => retval[s] = Expected(LastReceived)

(* The answer that was taken last is on its way or collected. *)
GivenInOrder ==
  /\ Given = Taken
  /\ agiven[Main] # NULL /\ Given < N => agiven[Main] = Expected(Given)

AInv == AnswerTypes /\ ListHolds /\ OneAnswer /\ GivenInOrder /\ AnswersInOrder

(* The server that holds the list's lock is the only one that has a command or owes an
   answer. *)
LEMMA Alone ==
  ASSUME IInv, NEW s \in Servers, pc[s] \in {"receive", "execute", "answer", "unlock"}
  PROVE  \A r \in Servers : r # s => ~HasCommand(r) /\ ~OwesAnswer(r)
<1> SUFFICES ASSUME NEW r \in Servers, r # s PROVE ~HasCommand(r) /\ ~OwesAnswer(r)
  OBVIOUS
<1>1. pc[r] \notin {"receive", "execute", "answer", "unlock"}
  BY DEF IInv, Holding
<1>2. qgiven[r] = NULL
  BY <1>1 DEF IInv, Waiting
<1> QED BY <1>1, <1>2 DEF HasCommand, OwesAnswer

LEMMA ReceivedType ==
  ASSUME IInv
  PROVE  LastReceived \in 0..N /\ \A s \in Servers : HasCommand(s) => LastReceived \in 1..N
<1> USE ProgramsAssumption DEF IInv, Types
<1>1. LastReceived \in 0..N
  <2>1. qpaired # {} => sent < N
    BY DEF SenderPlace
  <2> QED BY <2>1 DEF LastReceived
<1>2. ASSUME NEW s \in Servers, HasCommand(s) PROVE LastReceived \in 1..N
  <2>1. CASE qgiven[s] # NULL
    BY <2>1 DEF Latest, IsLatest, LastReceived
  <2>2. CASE pc[s] = "execute"
    <3>1. recv_command[s] # <<>> /\ recv_command[s] \in Seq(1..N)
          /\ Last(recv_command[s]) = LastReceived
      BY <2>2 DEF Latest, IsLatest, LastReceived
    <3> QED BY <3>1 DEF Last
  <2> QED BY <1>2, <2>1, <2>2 DEF HasCommand
<1> QED BY <1>1, <1>2

(* What the commands should answer depends on the commands only. *)
LEMMA SameStacks ==
  ASSUME program' = program
  PROVE  Stacks' = Stacks /\ \A i : Expected(i)' = Expected(i)
<1>1. Stacks' = Stacks
  BY DEF Stacks
<1> QED BY <1>1 DEF Expected

(* A step that neither receives, executes nor takes an answer. *)
LEMMA Quiet ==
  ASSUME IInv, AInv, UNCHANGED <<program, head, retval, agiven, retvals, LastReceived>>,
         \A s \in Servers : HasCommand(s)' <=> HasCommand(s),
         \A s \in Servers : OwesAnswer(s)' <=> OwesAnswer(s),
         apaired' \in SUBSET Servers, \A s \in apaired' : pc'[s] = "answer",
         \/ asends' = asends
         \/ \E s \in Servers : OwesAnswer(s) /\ asends' = <<[thread |-> s, value |-> retval[s]]>>,
         arecvs' = arecvs \/ (arecvs' = <<Main>> /\ agiven[Main] = NULL)
  PROVE  AInv'
<1>1. Stacks' = Stacks /\ \A i : Expected(i)' = Expected(i)
  BY SameStacks
<1>2. Executed' = Executed /\ Taken' = Taken /\ Given' = Given
  BY DEF Executed, Taken, Given
<1>3. AnswerTypes'
  BY DEF AInv, AnswerTypes
<1>4. ListHolds'
  BY <1>1, <1>2 DEF AInv, ListHolds
<1>5. OneAnswer'
  BY <1>1 DEF AInv, OneAnswer
<1>6. GivenInOrder'
  BY <1>1, <1>2 DEF AInv, GivenInOrder
<1>7. AnswersInOrder'
  BY <1>1 DEF AInv, AnswersInOrder
<1> QED BY <1>3, <1>4, <1>5, <1>6, <1>7 DEF AInv

(* A server receives its command. *)
LEMMA CommandGiven ==
  ASSUME IInv, AInv, NEW s \in Servers, pc[s] = "receive", qgiven[s] = NULL,
         UNCHANGED <<program, head, retval, ansVars, pc>>,
         LastReceived' = LastReceived + 1, HasCommand(s)'
  PROVE  AInv'
<1> USE ProgramsAssumption
<1>1. Stacks' = Stacks /\ \A i : Expected(i)' = Expected(i)
  BY SameStacks
<1>2. ~HasCommand(s) /\ ~OwesAnswer(s)
  BY DEF HasCommand, OwesAnswer
<1>3. \A r \in Servers : ~HasCommand(r) /\ ~OwesAnswer(r)
  BY <1>2, Alone
<1>4. \A r \in Servers : ~OwesAnswer(r)'
  BY <1>3 DEF OwesAnswer, ansVars
<1>5. LastReceived \in 0..N /\ (LastReceived + 1) - 1 = LastReceived
  BY ReceivedType
<1>6. Executed = LastReceived /\ Taken = LastReceived
  BY <1>3 DEF Executed, Taken
<1>7. Executed' = LastReceived /\ Taken' = LastReceived
  BY <1>5 DEF Executed, Taken
<1>8. Given' = Given
  BY DEF Given, ansVars
<1>9. AnswerTypes'
  BY DEF AInv, AnswerTypes, ansVars
<1>10. ListHolds'
  BY <1>1, <1>6, <1>7 DEF AInv, ListHolds
<1>11. OneAnswer'
  BY <1>3, <1>4 DEF AInv, OneAnswer, ansVars
<1>12. GivenInOrder'
  BY <1>1, <1>6, <1>7, <1>8 DEF AInv, GivenInOrder, ansVars
<1>13. AnswersInOrder'
  BY <1>1 DEF AInv, AnswersInOrder, ansVars
<1> QED BY <1>9, <1>10, <1>11, <1>12, <1>13 DEF AInv

(* The main thread takes the answer of a server, or a server gives it to the main thread. *)
LEMMA AnswerTaken ==
  ASSUME IInv, AInv, NEW s \in Servers, OwesAnswer(s), agiven[Main] = NULL,
         agiven' = [agiven EXCEPT ![Main] = retval[s]],
         apaired' = apaired \cup {s}, asends' = <<>>, arecvs' = <<>>,
         UNCHANGED <<program, head, retval, retvals, pc, reqVars, sent>>
  PROVE  AInv'
<1> USE ProgramsAssumption
<1>1. Stacks' = Stacks /\ \A i : Expected(i)' = Expected(i)
  BY SameStacks
<1>2. pc[s] = "answer"
  BY DEF OwesAnswer
<1>3. qgiven[s] = NULL
  BY <1>2 DEF IInv, Waiting
<1>4. \A r \in Servers : ~HasCommand(r) /\ (r # s => ~OwesAnswer(r))
  BY <1>2, <1>3, Alone DEF HasCommand
<1>5. \A r \in Servers : ~HasCommand(r)' /\ ~OwesAnswer(r)'
  BY <1>4 DEF HasCommand, OwesAnswer, reqVars
<1>6. LastReceived \in 0..N /\ LastReceived' = LastReceived
  BY ReceivedType DEF LastReceived, reqVars
<1>7. Executed = LastReceived /\ Taken = LastReceived - 1
  BY <1>4 DEF Executed, Taken
<1>8. Executed' = LastReceived /\ Taken' = LastReceived
  BY <1>5, <1>6 DEF Executed, Taken
<1>9. retval[s] \in Vals \cup {0} /\ retval[s] # NULL /\ agiven'[Main] = retval[s]
  BY NullAssumption DEF AInv, AnswerTypes
<1>10. Len(retvals[Main]) \in Nat
  BY DEF AInv, AnswerTypes
<1>11. Given = Len(retvals[Main]) /\ Given' = Len(retvals[Main]) + 1
  <2> DEFINE n == Len(retvals[Main])
  <2>1. n \in Nat /\ n' = n
    BY <1>10
  <2>2. Given = n + (IF agiven[Main] # NULL THEN 1 ELSE 0)
        /\ Given' = n' + (IF agiven'[Main] # NULL THEN 1 ELSE 0)
    BY DEF Given
  <2>3. agiven'[Main] # NULL
    BY <1>9
  <2> HIDE DEF n
  <2>4. Given = n /\ Given' = n + 1
    BY <2>1, <2>2, <2>3
  <2> QED BY <2>4 DEF n
<1>12. Given' = LastReceived
  BY <1>6, <1>7, <1>10, <1>11 DEF AInv, GivenInOrder
<1>13. AnswerTypes'
  BY <1>9 DEF AInv, AnswerTypes
<1>14. ListHolds'
  BY <1>1, <1>7, <1>8 DEF AInv, ListHolds
<1>15. OneAnswer'
  BY <1>1, <1>2, <1>5 DEF AInv, OneAnswer
<1>16. GivenInOrder'
  <2>1. LastReceived < N => retval[s] = Expected(LastReceived)
    BY DEF AInv, OneAnswer
  <2> QED BY <1>1, <1>8, <1>9, <1>12, <2>1 DEF GivenInOrder
<1>17. AnswersInOrder'
  BY <1>1 DEF AInv, AnswersInOrder
<1> QED BY <1>13, <1>14, <1>15, <1>16, <1>17 DEF AInv

(* What is sent to the main thread, and waits, is the answer of a server that owes one. *)
LEMMA WaitingAnswer ==
  ASSUME AInv, asends # <<>>
  PROVE  \E s \in Servers : /\ OwesAnswer(s) /\ Head(asends).thread = s
                            /\ Head(asends).value = retval[s] /\ Tail(asends) = <<>>
<1>1. PICK s \in Servers : OwesAnswer(s) /\ asends = <<[thread |-> s, value |-> retval[s]]>>
  BY DEF AInv, OneAnswer
<1>2. Head(asends) = [thread |-> s, value |-> retval[s]] /\ Tail(asends) = <<>>
  BY <1>1
<1>3. Head(asends).thread = s /\ Head(asends).value = retval[s]
  BY <1>2
<1> QED BY <1>1, <1>2, <1>3

(* The main thread has the answer it was given. *)
LEMMA CollectedInv ==
  ASSUME IInv, AInv, Collected
  PROVE  AInv'
<1> USE ProgramsAssumption
<1>1. /\ agiven[Main] # NULL /\ UNCHANGED <<asends, arecvs, apaired>>
      /\ retvals' = [retvals EXCEPT ![Main] = Append(@, agiven[Main])]
      /\ agiven' = [agiven EXCEPT ![Main] = NULL]
      /\ UNCHANGED <<program, head, retval, reqVars, sent>>
  BY DEF Collected, Ans!RecvReturn
<1>2. \A s \in Servers : pc'[s] = pc[s]
  BY ThreadsAssumption DEF Collected, AdvanceIf, Advance, IInv, Types, Threads
<1>3. Stacks' = Stacks /\ \A i : Expected(i)' = Expected(i)
  BY <1>1, SameStacks
<1>4. \A s \in Servers : (HasCommand(s)' <=> HasCommand(s)) /\ (OwesAnswer(s)' <=> OwesAnswer(s))
  BY <1>1, <1>2 DEF HasCommand, OwesAnswer, reqVars
<1>5. LastReceived' = LastReceived
  BY <1>1 DEF LastReceived, reqVars
<1>6. Executed' = Executed /\ Taken' = Taken
  BY <1>4, <1>5 DEF Executed, Taken
<1>7. agiven[Main] \in Vals \cup {0} /\ agiven'[Main] = NULL /\ arecvs = <<>>
  BY <1>1 DEF AInv, AnswerTypes, OneAnswer
<1> DEFINE p == retvals[Main]
           v == agiven[Main]
<1>8. /\ p \in Seq(Vals \cup {0}) /\ retvals'[Main] = Append(p, v)
      /\ Append(p, v) \in Seq(Vals \cup {0}) /\ Len(p) \in Nat
      /\ Len(Append(p, v)) = Len(p) + 1 /\ DOMAIN Append(p, v) = 1 .. Len(p) + 1
      /\ DOMAIN p = 1 .. Len(p)
      /\ \A i \in 1 .. Len(p) : Append(p, v)[i] = p[i]
      /\ Append(p, v)[Len(p) + 1] = v
  BY <1>1, <1>7 DEF AInv, AnswerTypes
<1>9. Given = Len(p) + 1
  BY <1>1 DEF Given
<1>10. Given' = Len(p) + 1
  BY <1>7, <1>8 DEF Given
<1>11. AnswerTypes'
  BY <1>1, <1>7, <1>8 DEF AInv, AnswerTypes
<1>12. ListHolds'
  BY <1>1, <1>3, <1>6 DEF AInv, ListHolds
<1>13. OneAnswer'
  <2>1. \/ asends = <<>>
        \/ \E s \in Servers : OwesAnswer(s)' /\ asends = <<[thread |-> s, value |-> retval[s]]>>
    BY <1>4 DEF AInv, OneAnswer
  <2>2. \A s \in apaired : pc'[s] = "answer"
    BY <1>2 DEF AInv, OneAnswer, AnswerTypes
  <2>3. \A s \in Servers : OwesAnswer(s)' /\ LastReceived < N => retval[s] = Expected(LastReceived)
    BY <1>4 DEF AInv, OneAnswer
  <2> QED BY <1>1, <1>3, <1>5, <1>7, <2>1, <2>2, <2>3 DEF OneAnswer
<1>14. GivenInOrder'
  BY <1>6, <1>7, <1>9, <1>10 DEF AInv, GivenInOrder
<1>15. AnswersInOrder'
  <2>1. Len(p) + 1 < N => v = Expected(Len(p) + 1)
    BY <1>1, <1>9 DEF AInv, GivenInOrder
  <2>2. \A i \in 1 .. Len(p) : i < N => p[i] = Expected(i)
    BY <1>8 DEF AInv, AnswersInOrder
  <2> HIDE DEF p, v
  <2>3. ASSUME NEW i \in 1 .. Len(p) + 1, i < N PROVE Append(p, v)[i] = Expected(i)
    <3>1. i \in 1 .. Len(p) \/ i = Len(p) + 1
      BY <1>8
    <3> QED BY <1>8, <2>1, <2>2, <2>3, <3>1
  <2> QED BY <1>3, <1>8, <2>3 DEF AnswersInOrder
<1> QED BY <1>11, <1>12, <1>13, <1>14, <1>15 DEF AInv

(* A server executes its command on the list that the commands before it left. *)
LEMMA ExecuteInv ==
  ASSUME IInv, AInv, NEW s \in Servers, Execute(s)
  PROVE  AInv'
<1> USE ProgramsAssumption
<1>1. pc[s] = "execute" /\ UNCHANGED <<program, reqVars, ansVars, sent>>
  BY DEF Execute
<1>2. pc'[s] = "answer" /\ \A r \in Servers : r # s => pc'[r] = pc[r]
  BY ThreadsAssumption DEF Execute, Advance, After, ServerOrder, IInv, Types, Threads
<1>3. Stacks' = Stacks /\ \A i : Expected(i)' = Expected(i)
  BY <1>1, SameStacks
<1>4. PICK c \in Pointee(Last(recv_command[s])) :
        head' = ListAfter(c, head) /\ retval' = [retval EXCEPT ![s] = Retval(c, head)]
  BY DEF Execute
<1>5. Last(recv_command[s]) = LastReceived /\ HasCommand(s)
  BY <1>1 DEF IInv, Latest, IsLatest, LastReceived, HasCommand
<1>6. LastReceived \in 1..N /\ LastReceived' = LastReceived
  BY <1>1, <1>5, ReceivedType DEF LastReceived, reqVars
<1>7. qgiven[s] = NULL /\ s \notin apaired
  BY <1>1 DEF IInv, Waiting, AInv, OneAnswer
<1>8. \A r \in Servers : r # s => ~HasCommand(r) /\ ~OwesAnswer(r)
  BY <1>1, Alone
<1>9. /\ \A r \in Servers : ~HasCommand(r)'
      /\ OwesAnswer(s)' /\ \A r \in Servers : r # s => ~OwesAnswer(r)'
  BY <1>1, <1>2, <1>7, <1>8 DEF HasCommand, OwesAnswer, reqVars, ansVars
<1>10. Executed = LastReceived - 1 /\ Taken = LastReceived - 1
  BY <1>5 DEF Executed, Taken
<1>11. Executed' = LastReceived /\ Taken' = LastReceived - 1
  BY <1>6, <1>9 DEF Executed, Taken
<1>12. c \in Command \cup {[op |-> "OTHER"]} /\ head \in Seq(Node)
  <2>1. program[LastReceived] \in Command
    BY <1>6 DEF AInv, AnswerTypes
  <2> QED BY <1>4, <1>5, <2>1 DEF Pointee, AInv, AnswerTypes
<1>13. head' \in Seq(Node) /\ Retval(c, head) \in Vals \cup {0}
  BY <1>4, <1>12, ListTypes
<1>14. LastReceived < N => c = program[LastReceived]
  <2> SUFFICES ASSUME LastReceived < N PROVE c = program[LastReceived]
    OBVIOUS
  <2>1. pc[Sender] = "send"
    BY <1>6 DEF IInv, SenderPlace, Types, LastReceived
  <2> QED BY <1>4, <1>5, <2>1 DEF Pointee
<1>15. ASSUME LastReceived < N
       PROVE  /\ \A k \in Keys : Stacked(ListAfter(c, head), k, Stacks[LastReceived][k])
              /\ Retval(c, head) = Expected(LastReceived)
  <2>1. \A k \in Keys : Stacked(head, k, Stacks[LastReceived - 1][k])
    BY <1>6, <1>10, <1>15 DEF AInv, ListHolds
  <2> QED BY <1>6, <1>12, <1>14, <1>15, <2>1, CommandRefines DEF AInv, AnswerTypes
<1>16. retval'[s] = Retval(c, head) /\ retval' \in [Servers -> Vals \cup {0}]
  BY <1>4, <1>13 DEF AInv, AnswerTypes
<1>17. AnswerTypes'
  BY <1>1, <1>13, <1>16 DEF AInv, AnswerTypes, ansVars
<1>18. ListHolds'
  BY <1>3, <1>4, <1>11, <1>15 DEF ListHolds
<1>19. OneAnswer'
  <2>1. asends = <<>>
    BY <1>1, <1>8 DEF AInv, OneAnswer, OwesAnswer
  <2>2. arecvs = <<>> \/ (arecvs = <<Main>> /\ agiven[Main] = NULL)
    BY DEF AInv, OneAnswer
  <2>3. \A r \in apaired : pc[r] = "answer" /\ r # s
    BY <1>7 DEF AInv, OneAnswer
  <2>4. \A r \in apaired : pc'[r] = "answer"
    BY <1>2, <2>3 DEF AInv, AnswerTypes
  <2>5. ASSUME NEW r \in Servers, OwesAnswer(r)', LastReceived < N
        PROVE  retval'[r] = Expected(LastReceived)
    BY <1>9, <1>15, <1>16, <2>5
  <2> QED BY <1>1, <1>3, <1>6, <2>1, <2>2, <2>4, <2>5 DEF OneAnswer, ansVars
<1>20. GivenInOrder'
  BY <1>1, <1>3, <1>10, <1>11 DEF AInv, GivenInOrder, Given, ansVars
<1>21. AnswersInOrder'
  BY <1>1, <1>3 DEF AInv, AnswersInOrder, ansVars
<1> QED BY <1>17, <1>18, <1>19, <1>20, <1>21 DEF AInv

LEMMA InitAInv == Init => AInv
<1> SUFFICES ASSUME Init PROVE AInv
  OBVIOUS
<1> USE ProgramsAssumption, ThreadsAssumption, NullAssumption DEF Init, Req!Init, Ans!Init
<1>1. \A s \in Servers : ~HasCommand(s) /\ ~OwesAnswer(s)
  BY DEF HasCommand, OwesAnswer, Threads
<1>2. LastReceived = 0 /\ Executed = 0 /\ Taken = 0
  BY <1>1 DEF LastReceived, Executed, Taken
<1>3. AnswerTypes
  BY DEF AnswerTypes
<1>4. ListHolds
  <2>1. ASSUME NEW k \in Keys PROVE Stacked(<<>>, k, <<>>)
    <3>1. Positions(<<>>, <<>>, {}, <<>>)
      BY DEF Positions
    <3>2. Matches(<<>>, k) = {}
      BY DEF Matches
    <3> QED BY <3>1, <3>2 DEF Stacked
  <2>2. \A k \in Keys : Stacks[0][k] = <<>>
    BY StacksAre
  <2> QED BY <1>2, <2>1, <2>2 DEF ListHolds
<1>5. OneAnswer
  BY <1>1 DEF OneAnswer
<1>6. GivenInOrder
  BY <1>2 DEF GivenInOrder, Given
<1>7. AnswersInOrder
  BY DEF AnswersInOrder
<1> QED BY <1>3, <1>4, <1>5, <1>6, <1>7 DEF AInv

(* A step that changes none of what the answers depend on. *)
LEMMA Unaffected ==
  ASSUME IInv, AInv, UNCHANGED <<program, head, retval, ansVars, qgiven, LastReceived>>,
         \A s \in Servers : pc'[s] = pc[s] \/ {pc[s], pc'[s]} \cap {"execute", "answer"} = {}
  PROVE  AInv'
<1>1. \A s \in Servers : (HasCommand(s)' <=> HasCommand(s)) /\ (OwesAnswer(s)' <=> OwesAnswer(s))
  BY DEF HasCommand, OwesAnswer, ansVars
<1>2. apaired' \in SUBSET Servers /\ \A s \in apaired' : pc'[s] = "answer"
  BY DEF AInv, AnswerTypes, OneAnswer, ansVars
<1> QED BY <1>1, <1>2, Quiet DEF ansVars

LEMMA MainAInv ==
  ASSUME IInv, AInv, MainStep
  PROVE  AInv'
<1> USE ThreadsAssumption
<1>1. CASE CreateSender \/ CreateServer \/ JoinServer \/ JoinSender
  <2>1. UNCHANGED <<program, head, retval, ansVars, qgiven, LastReceived>>
    BY <1>1 DEF CreateSender, CreateServer, JoinServer, JoinSender, reqVars, LastReceived
  <2>2. ASSUME NEW s \in Servers
        PROVE  pc'[s] = pc[s] \/ {pc[s], pc'[s]} \cap {"execute", "answer"} = {}
    <3>1. CASE CreateSender \/ JoinServer \/ JoinSender
      BY <3>1 DEF CreateSender, JoinServer, JoinSender, AdvanceIf, Advance, IInv, Types, Threads
    <3>2. CASE CreateServer
      <4> DEFINE u == CHOOSE x \in Uncreated : \A v \in Uncreated : x <= v
      <4>1. /\ pc[Main] = "create"
            /\ pc' = [pc EXCEPT ![u] = "lock",
                                ![Main] = IF Uncreated = {u} THEN After(Main) ELSE @]
        BY <3>2 DEF CreateServer
      <4>2. u \in Servers /\ pc[u] = "uncreated"
        BY <4>1, CreatesOne
      <4> HIDE DEF u
      <4>3. s = u => pc'[s] = "lock"
        BY <4>1, <4>2 DEF IInv, Types, Threads
      <4>4. s # u => pc'[s] = pc[s]
        BY <4>1, <4>2 DEF IInv, Types, Threads
      <4> QED BY <4>2, <4>3, <4>4
    <3> QED BY <1>1, <3>1, <3>2
  <2> QED BY <2>1, <2>2, Unaffected
<1>2. CASE Collect
  <2>1. UNCHANGED <<program, head, retval, reqVars, pc, sent>>
    BY <1>2 DEF Collect
  <2>2. agiven[Main] = NULL /\ arecvs = <<>>
    <3>1. Ans!NotReceiving(Main)
      BY <1>2 DEF Collect, Ans!RecvPair, Ans!RecvWait
    <3> QED BY <3>1 DEF Ans!NotReceiving, AInv, OneAnswer
  <2>3. CASE Ans!RecvPair(Main)
    <3>1. /\ asends # <<>> /\ agiven' = [agiven EXCEPT ![Main] = Head(asends).value]
          /\ apaired' = apaired \cup {Head(asends).thread}
          /\ asends' = Tail(asends) /\ UNCHANGED <<arecvs, retvals>>
      BY <2>3 DEF Ans!RecvPair
    <3>2. PICK s \in Servers : /\ OwesAnswer(s) /\ Head(asends).thread = s
                               /\ Head(asends).value = retval[s] /\ Tail(asends) = <<>>
      BY <3>1, WaitingAnswer
    <3> QED BY <2>1, <2>2, <3>1, <3>2, AnswerTaken
  <2>4. CASE Ans!RecvWait(Main)
    <3>1. arecvs' = <<Main>> /\ UNCHANGED <<asends, apaired, agiven, retvals>>
      BY <2>2, <2>4 DEF Ans!RecvWait
    <3>2. \A s \in Servers : /\ HasCommand(s)' <=> HasCommand(s)
                             /\ OwesAnswer(s)' <=> OwesAnswer(s)
      BY <2>1, <3>1 DEF HasCommand, OwesAnswer, reqVars
    <3>3. apaired' \in SUBSET Servers /\ \A s \in apaired' : pc'[s] = "answer"
      BY <2>1, <3>1 DEF AInv, AnswerTypes, OneAnswer
    <3>4. LastReceived' = LastReceived
      BY <2>1 DEF LastReceived, reqVars
    <3> QED BY <2>1, <2>2, <3>1, <3>2, <3>3, <3>4, Quiet
  <2> QED BY <1>2, <2>3, <2>4 DEF Collect
<1>3. CASE Collected
  BY <1>3, CollectedInv
<1> QED BY <1>1, <1>2, <1>3 DEF MainStep

LEMMA SenderAInv ==
  ASSUME IInv, AInv, SenderStep
  PROVE  AInv'
<1> USE ProgramsAssumption, ThreadsAssumption
<1>1. CASE Send
  <2>1. /\ UNCHANGED <<program, head, ansVars, retval, pc, sent>>
        /\ Sender \notin qpaired /\ qpaired = {} /\ sent \in 0..N
    BY <1>1 DEF Send, Req!SendPair, Req!SendWait, Req!NotSending, IInv, Types
  <2>2. CASE Req!SendPair(Sender, sent + 1)
    <3>1. PICK r \in Servers : qrecvs = <<r>> /\ pc[r] = "receive" /\ qgiven[r] = NULL
      BY <2>2 DEF Req!SendPair, IInv, Waiting
    <3>2. qgiven' = [qgiven EXCEPT ![r] = sent + 1] /\ qpaired' = {Sender}
      BY <2>1, <2>2, <3>1 DEF Req!SendPair
    <3>3. LastReceived' = LastReceived + 1
      BY <2>1, <3>2 DEF LastReceived
    <3>4. sent + 1 # NULL
      <4>1. pc[Sender] = "send"
        BY <1>1 DEF Send
      <4>2. sent + 1 \in Servers
        BY <2>1, <4>1 DEF IInv, SenderPlace, Servers
      <4> QED BY <4>2
    <3>5. HasCommand(r)'
      BY <3>2, <3>4 DEF HasCommand, IInv, Types
    <3> QED BY <2>1, <3>1, <3>3, <3>5, CommandGiven
  <2>3. CASE Req!SendWait(Sender, sent + 1)
    <3>1. UNCHANGED <<qpaired, qgiven>>
      BY <2>3 DEF Req!SendWait
    <3>2. LastReceived' = LastReceived
      BY <2>1, <3>1 DEF LastReceived
    <3> QED BY <2>1, <3>1, <3>2, Unaffected
  <2> QED BY <1>1, <2>2, <2>3 DEF Send
<1>2. CASE Sent
  <2>1. /\ UNCHANGED <<program, head, ansVars, retval, qgiven>>
        /\ qpaired = {Sender} /\ qpaired' = {} /\ sent' = sent + 1
    BY <1>2 DEF Sent, Req!SendReturn, IInv, Types
  <2>2. LastReceived' = LastReceived
    BY <2>1 DEF LastReceived
  <2>3. \A s \in Servers : pc'[s] = pc[s]
    BY <1>2 DEF Sent, AdvanceIf, Advance, IInv, Types, Threads
  <2> QED BY <2>1, <2>2, <2>3, Unaffected
<1> QED BY <1>1, <1>2 DEF SenderStep

LEMMA ServerAInv ==
  ASSUME IInv, AInv, NEW s \in Servers, ServerStep(s)
  PROVE  AInv'
<1> USE ProgramsAssumption, ThreadsAssumption
<1>a. \A r \in Servers : r # s => pc'[r] = pc[r]
  BY DEF ServerStep, LockList, Locked, Receive, Received, Execute, Answer, Answered, Unlock,
         Advance, IInv, Types, Threads
<1>b. pc' = [pc EXCEPT ![s] = After(s)] /\ s \in Threads /\ s # Main /\ s # Sender
      => pc'[s] = ServerOrder[pc[s]]
  BY DEF After, IInv, Types
<1>c. s \in Threads /\ s # Main /\ s # Sender
  BY DEF Threads
<1>1. CASE LockList(s) \/ Locked(s) \/ Unlock(s)
  <2>1. UNCHANGED <<program, head, retval, ansVars, qgiven, LastReceived>>
    BY <1>1 DEF LockList, Locked, Unlock, reqVars, LastReceived
  <2>2. pc'[s] = pc[s] \/ {pc[s], pc'[s]} \cap {"execute", "answer"} = {}
    BY <1>1, <1>b, <1>c DEF LockList, Locked, Unlock, Advance, ServerOrder
  <2> QED BY <1>a, <2>1, <2>2, Unaffected
<1>2. CASE Receive(s)
  <2>1. /\ pc[s] = "receive" /\ UNCHANGED <<program, head, ansVars, retval, pc, sent>>
        /\ qgiven[s] = NULL
    BY <1>2 DEF Receive, Req!RecvPair, Req!RecvWait, Req!NotReceiving
  <2>2. CASE Req!RecvPair(s)
    <3>1. qpaired = {} /\ qsends = <<[thread |-> Sender, value |-> sent + 1]>>
      BY <2>2 DEF Req!RecvPair, IInv, Waiting
    <3>2. qgiven' = [qgiven EXCEPT ![s] = sent + 1] /\ qpaired' = {Sender}
      <4>1. Head(qsends) = [thread |-> Sender, value |-> sent + 1]
        BY <3>1
      <4>2. Head(qsends).thread = Sender /\ Head(qsends).value = sent + 1
        BY <4>1
      <4> QED BY <2>2, <3>1, <4>2 DEF Req!RecvPair
    <3>3. LastReceived' = LastReceived + 1
      BY <2>1, <3>1, <3>2 DEF LastReceived
    <3>4. sent + 1 # NULL
      <4>1. pc[Sender] = "send"
        BY <3>1 DEF IInv, SenderPlace
      <4>2. sent + 1 \in Servers
        BY <4>1 DEF IInv, Types, SenderPlace, Servers
      <4> QED BY <4>2
    <3>5. HasCommand(s)'
      BY <3>2, <3>4 DEF HasCommand, IInv, Types
    <3> QED BY <2>1, <3>3, <3>5, CommandGiven
  <2>3. CASE Req!RecvWait(s)
    <3>1. UNCHANGED <<qpaired, qgiven>>
      BY <2>3 DEF Req!RecvWait
    <3>2. LastReceived' = LastReceived
      BY <2>1, <3>1 DEF LastReceived
    <3> QED BY <2>1, <3>1, <3>2, Unaffected
  <2> QED BY <1>2, <2>2, <2>3 DEF Receive
<1>3. CASE Received(s)
  <2>1. /\ pc[s] = "receive" /\ pc'[s] = "execute" /\ qgiven[s] # NULL
        /\ qgiven' = [qgiven EXCEPT ![s] = NULL]
        /\ UNCHANGED <<program, head, retval, ansVars, qpaired, sent>>
    BY <1>3, <1>b, <1>c DEF Received, Req!RecvReturn, Advance, ServerOrder
  <2>2. LastReceived' = LastReceived
    BY <2>1 DEF LastReceived
  <2>3. ASSUME NEW r \in Servers
        PROVE  (HasCommand(r)' <=> HasCommand(r)) /\ (OwesAnswer(r)' <=> OwesAnswer(r))
    <3>1. CASE r = s
      BY <2>1, <3>1 DEF HasCommand, OwesAnswer
    <3>2. CASE r # s
      BY <1>a, <2>1, <3>2 DEF HasCommand, OwesAnswer, ansVars, IInv, Types
    <3> QED BY <3>1, <3>2
  <2>4. apaired' \in SUBSET Servers /\ \A r \in apaired' : pc'[r] = "answer"
    BY <1>a, <2>1 DEF AInv, AnswerTypes, OneAnswer, ansVars
  <2> QED BY <2>1, <2>2, <2>3, <2>4, Quiet DEF ansVars
<1>4. CASE Execute(s)
  BY <1>4, ExecuteInv
<1>5. CASE Answer(s)
  <2>1. /\ pc[s] = "answer" /\ UNCHANGED <<program, head, reqVars, retval, pc, sent>>
        /\ OwesAnswer(s) /\ \A i \in DOMAIN asends : asends[i].thread # s
    BY <1>5 DEF Answer, Ans!SendPair, Ans!SendWait, Ans!NotSending, OwesAnswer
  <2>2. asends = <<>>
    <3>1. \A r \in Servers : r # s => ~OwesAnswer(r)
      BY <2>1, Alone
    <3>2. ASSUME asends = <<[thread |-> s, value |-> retval[s]]>> PROVE FALSE
      <4>1. 1 \in DOMAIN asends /\ asends[1].thread = s
        BY <3>2
      <4> QED BY <2>1, <4>1
    <3> QED BY <3>1, <3>2 DEF AInv, OneAnswer
  <2>3. CASE Ans!SendPair(s, retval[s])
    <3>1. arecvs = <<Main>> /\ agiven[Main] = NULL
      BY <2>3 DEF Ans!SendPair, AInv, OneAnswer
    <3>2. /\ agiven' = [agiven EXCEPT ![Main] = retval[s]] /\ arecvs' = <<>>
          /\ apaired' = apaired \cup {s} /\ asends' = <<>> /\ retvals' = retvals
      BY <2>2, <2>3, <3>1 DEF Ans!SendPair
    <3> QED BY <2>1, <3>1, <3>2, AnswerTaken
  <2>4. CASE Ans!SendWait(s, retval[s])
    <3>1. /\ asends' = <<[thread |-> s, value |-> retval[s]]>>
          /\ UNCHANGED <<arecvs, apaired, agiven, retvals>>
      BY <2>2, <2>4 DEF Ans!SendWait
    <3>2. \A r \in Servers : /\ HasCommand(r)' <=> HasCommand(r)
                             /\ OwesAnswer(r)' <=> OwesAnswer(r)
      BY <2>1, <3>1 DEF HasCommand, OwesAnswer, reqVars
    <3>3. apaired' \in SUBSET Servers /\ \A r \in apaired' : pc'[r] = "answer"
      BY <2>1, <3>1 DEF AInv, AnswerTypes, OneAnswer
    <3>4. LastReceived' = LastReceived
      BY <2>1 DEF LastReceived, reqVars
    <3> QED BY <2>1, <3>1, <3>2, <3>3, <3>4, Quiet
  <2> QED BY <1>5, <2>3, <2>4 DEF Answer
<1>6. CASE Answered(s)
  <2>1. /\ pc[s] = "answer" /\ pc'[s] = "unlock" /\ s \in apaired /\ apaired' = apaired \ {s}
        /\ UNCHANGED <<program, head, retval, reqVars, sent, asends, arecvs, agiven, retvals>>
    BY <1>6, <1>b, <1>c DEF Answered, Ans!SendReturn, Advance, ServerOrder
  <2>2. LastReceived' = LastReceived
    BY <2>1 DEF LastReceived, reqVars
  <2>3. ASSUME NEW r \in Servers
        PROVE  (HasCommand(r)' <=> HasCommand(r)) /\ (OwesAnswer(r)' <=> OwesAnswer(r))
    <3>1. CASE r = s
      BY <2>1, <3>1 DEF HasCommand, OwesAnswer, reqVars
    <3>2. CASE r # s
      BY <1>a, <2>1, <3>2 DEF HasCommand, OwesAnswer, reqVars
    <3> QED BY <3>1, <3>2
  <2>4. apaired' \in SUBSET Servers /\ \A r \in apaired' : pc'[r] = "answer"
    BY <1>a, <2>1 DEF AInv, AnswerTypes, OneAnswer
  <2> QED BY <2>1, <2>2, <2>3, <2>4, Quiet
<1> QED BY <1>1, <1>2, <1>3, <1>4, <1>5, <1>6 DEF ServerStep

(* The answers arrive in the order of the commands and are the results of the commands one
   after the other, for any number of commands and servers, any program, and whichever
   server takes which command; the last command is excepted, whose frame may be gone. *)
THEOREM AnswersArriveInOrder == Spec => []AnswersInOrder
<1> DEFINE Both == IInv /\ AInv
<1>1. Spec => Init /\ [][Next]_vars
  BY DEF Spec
<1>2. Init => Both
  BY InitIInv, InitAInv
<1>3. Both /\ [Next]_vars => Both'
  <2> SUFFICES ASSUME IInv, AInv, [Next]_vars PROVE IInv' /\ AInv'
    OBVIOUS
  <2>1. CASE MainStep
    BY <2>1, MainInv, MainAInv
  <2>2. CASE SenderStep
    BY <2>2, SenderInv, SenderAInv
  <2>3. ASSUME NEW s \in Servers, ServerStep(s) PROVE IInv' /\ AInv'
    BY <2>3, ServerInv, ServerAInv
  <2>4. CASE UNCHANGED vars
    <3>1. IInv'
      BY <2>4 DEF vars, lockVars, reqVars, IInv, Types, MainPlace, SenderPlace, ServerPlace,
                  Holding, Waiting, Latest, IsLatest
    <3>2. UNCHANGED <<program, head, retval, ansVars, qgiven, LastReceived, pc>>
      BY <2>4 DEF vars, reqVars, LastReceived
    <3> QED BY <3>1, <3>2, Unaffected
  <2> QED BY <2>1, <2>2, <2>3, <2>4 DEF Next
<1>4. Both => AnswersInOrder
  BY DEF AInv
<1> HIDE DEF Both
<1> QED BY <1>1, <1>2, <1>3, <1>4, PTL
-----------------------------------------------------------------------------
(* ForkTree, for every tree, number of threads and failing fork. *)
ForkPlaces == {"call", "join", "fork", "wait", "verify", "return", "caller", "exited", "reaped"}

Processes == [node : Int, pc : ForkPlaces, threads : Nat, parent : Nat]

ForkTypes == procs \in Seq(Processes)

Unreaped(p) == procs[p].pc # "reaped"

(* Threads are left only where they are joined. *)
Joined == \A p \in DOMAIN procs : procs[p].threads > 0 => procs[p].pc = "join"

(* Of the processes that are not reaped, all but the newest wait ... *)
OthersWait ==
  \A p, q \in DOMAIN procs : p < q /\ Unreaped(p) /\ Unreaped(q) => procs[p].pc = "wait"

(* ... and each is a child of the one before it. *)
InChain ==
  \A q \in DOMAIN procs : Unreaped(q) /\ q > 1 =>
    /\ procs[q].parent < q
    /\ \A r \in DOMAIN procs : procs[q].parent < r /\ r < q => ~Unreaped(r)

ForkIInv == ForkTypes /\ Joined /\ OthersWait /\ InChain

-----------------------------------------------------------------------------
(* Sequences and their elements. *)
LEMMA SeqFacts ==
  ASSUME NEW S, NEW seq \in Seq(S)
  PROVE  /\ Len(seq) \in Nat /\ DOMAIN seq = 1..Len(seq) /\ DOMAIN seq \subseteq Nat
         /\ \A i \in DOMAIN seq : seq[i] \in S
         /\ \A i \in DOMAIN seq, e \in S :
              /\ [seq EXCEPT ![i] = e] \in Seq(S)
              /\ Len([seq EXCEPT ![i] = e]) = Len(seq)
              /\ \A j \in DOMAIN seq : [seq EXCEPT ![i] = e][j] = IF j = i THEN e ELSE seq[j]
OBVIOUS

(* There is one process. *)
LEMMA InitForkIInv == ForkInit => ForkIInv
<1> SUFFICES ASSUME ForkInit PROVE ForkIInv
  OBVIOUS
<1> DEFINE node == IF function = "bork" THEN Cardinality(tree) ELSE 0
<1>1. node \in Int
  <2>1. CASE function = "bork"
    <3>1. PICK n \in 0..MaxBork : tree = 1..n
      BY <2>1 DEF ForkInit
    <3>2. n \in Int /\ MaxBork \in Nat
      BY ForkAssumption
    <3>3. Cardinality(tree) \in Nat
      BY <3>1, <3>2, FS_Interval, FS_CardinalityType
    <3> QED BY <2>1, <3>3
  <2> QED BY <2>1
<1>2. procs = <<[node |-> node, pc |-> "call", threads |-> 0, parent |-> 0]>>
  BY DEF ForkInit, Process
<1> HIDE DEF node
<1>3. ForkTypes /\ DOMAIN procs = {1} /\ procs[1].pc = "call" /\ procs[1].threads = 0
  BY <1>1, <1>2 DEF ForkTypes, Processes, ForkPlaces
<1> QED BY <1>3 DEF ForkIInv, Joined, OthersWait, InChain

(* A process that does not wait, and goes on to a place where it does not either. *)
LEMMA GoesOn ==
  ASSUME ForkIInv, NEW p \in DOMAIN procs, procs[p].pc \notin {"wait", "reaped"},
         ForkTypes', DOMAIN procs' = DOMAIN procs, procs'[p].pc # "reaped",
         procs'[p].threads > 0 => procs'[p].pc = "join", procs'[p].parent = procs[p].parent,
         \A q \in DOMAIN procs \ {p} : procs'[q] = procs[q]
  PROVE  ForkIInv'
<1>a. DOMAIN procs \subseteq Nat
  BY SeqFacts DEF ForkIInv, ForkTypes
<1>1. \A q \in DOMAIN procs : Unreaped(q)' <=> Unreaped(q)
  BY DEF Unreaped
<1>2. \A q \in DOMAIN procs : p < q => ~Unreaped(q)
  BY DEF ForkIInv, OthersWait, Unreaped
<1>3. Joined'
  BY DEF ForkIInv, Joined
<1>4. OthersWait'
  BY <1>1, <1>2 DEF ForkIInv, OthersWait
<1>5. InChain'
  <2>1. \A q \in DOMAIN procs : procs'[q].parent = procs[q].parent
    OBVIOUS
  <2> QED BY <1>1, <2>1 DEF ForkIInv, InChain
<1> QED BY <1>3, <1>4, <1>5 DEF ForkIInv

(* The process that forks is the newest, and its child is newer. *)
LEMMA ForkInv ==
  ASSUME ForkIInv, NEW p \in DOMAIN procs, Fork(p)
  PROVE  ForkIInv'
<1> DEFINE c == Len(procs) + 1
           new == [node |-> Left(procs[p].node), pc |-> "verify", threads |-> 0, parent |-> p]
           waits == [procs[p] EXCEPT !.pc = "wait"]
           old == [procs EXCEPT ![p] = waits]
<1>1. /\ procs \in Seq(Processes)
      /\ procs[p].pc = "fork" /\ procs' = Append(old, new)
  BY DEF ForkIInv, ForkTypes, Fork, At, Process
<1>2. /\ p \in 1..Len(procs) /\ Len(procs) \in Nat /\ DOMAIN procs = 1..Len(procs)
      /\ procs[p] \in Processes /\ p \in DOMAIN procs
  BY <1>1, SeqFacts
<1>w. /\ waits \in Processes /\ waits.pc = "wait" /\ waits.threads = procs[p].threads
      /\ waits.parent = procs[p].parent
  BY <1>2 DEF Processes, ForkPlaces
<1> HIDE DEF waits
<1>3. /\ old \in Seq(Processes)
      /\ Len(old) = Len(procs)
      /\ \A q \in 1..Len(procs) : old[q] = IF q = p THEN waits ELSE procs[q]
  BY <1>1, <1>2, <1>w, SeqFacts
<1>4. new \in Processes
  BY <1>2 DEF Left, Processes, ForkPlaces
<1> HIDE DEF new, old
<1>6. /\ ForkTypes' /\ DOMAIN procs' = 1..c /\ procs'[c] = new
      /\ \A q \in 1..Len(procs) : procs'[q] = old[q]
  BY <1>1, <1>2, <1>3, <1>4 DEF ForkTypes
<1>7. /\ procs'[c].pc = "verify" /\ procs'[c].threads = 0 /\ procs'[c].parent = p
      /\ procs'[p].pc = "wait" /\ procs'[p].threads = procs[p].threads
      /\ procs'[p].parent = procs[p].parent
      /\ \A q \in (1..Len(procs)) \ {p} : procs'[q] = procs[q]
  BY <1>2, <1>3, <1>w, <1>6 DEF new
<1> HIDE DEF c
<1>8. c = Len(procs) + 1 /\ \A q \in 1..c : q = c \/ q = p \/ q \in (1..Len(procs)) \ {p}
  BY <1>2 DEF c
<1>9. procs[p].threads = 0
  BY <1>1, <1>2, SMTT(30) DEF ForkIInv, Joined, Processes
<1>10. \A q \in 1..Len(procs) : p < q => ~Unreaped(q)
  BY <1>1, <1>2 DEF ForkIInv, OthersWait, Unreaped
<1>11. Joined'
  BY <1>2, <1>6, <1>7, <1>8, <1>9 DEF ForkIInv, Joined
<1>12. OthersWait'
  <2> SUFFICES ASSUME NEW q \in 1..c, NEW r \in 1..c, q < r, Unreaped(q)', Unreaped(r)'
               PROVE  procs'[q].pc = "wait"
    BY <1>6 DEF OthersWait
  <2>1. CASE q = p
    BY <2>1, <1>7
  <2>2. CASE q # p
    <3>1. q \in (1..Len(procs)) \ {p} /\ Unreaped(q) /\ procs'[q] = procs[q]
      BY <2>2, <1>2, <1>7, <1>8 DEF Unreaped
    <3>2. q < p /\ Unreaped(p)
      BY <3>1, <1>1, <1>2, <1>10 DEF Unreaped
    <3> QED BY <3>1, <3>2, <1>2 DEF ForkIInv, OthersWait
  <2> QED BY <2>1, <2>2
<1>13. InChain'
  <2> SUFFICES ASSUME NEW q \in 1..c, Unreaped(q)', q > 1
               PROVE  /\ procs'[q].parent < q
                      /\ \A r \in 1..c : procs'[q].parent < r /\ r < q => ~Unreaped(r)'
    BY <1>6 DEF InChain
  <2>1. CASE q = c
    BY <2>1, <1>2, <1>7, <1>8, <1>10 DEF Unreaped
  <2>2. CASE q \in 1..Len(procs)
    <3>1. Unreaped(q) /\ procs'[q].parent = procs[q].parent
      BY <2>2, <1>1, <1>2, <1>7 DEF Unreaped
    <3>2. /\ procs[q].parent < q
          /\ \A r \in 1..Len(procs) : procs[q].parent < r /\ r < q => ~Unreaped(r)
      BY <2>2, <3>1, <1>2 DEF ForkIInv, InChain
    <3>3. \A r \in 1..Len(procs) : Unreaped(r)' <=> Unreaped(r)
      <4>1. Unreaped(p)' /\ Unreaped(p)
        BY <1>1, <1>7 DEF Unreaped
      <4>2. \A r \in (1..Len(procs)) \ {p} : Unreaped(r)' <=> Unreaped(r)
        BY <1>7 DEF Unreaped
      <4> QED BY <4>1, <4>2
    <3> QED BY <2>2, <3>1, <3>2, <3>3, <1>2, <1>8
  <2> QED BY <2>1, <2>2, <1>2, <1>8
<1> QED BY <1>6, <1>11, <1>12, <1>13 DEF ForkIInv

(* The child that is reaped is the newest, its parent the one before. *)
LEMMA WaitInv ==
  ASSUME ForkIInv, NEW p \in DOMAIN procs, Wait(p)
  PROVE  ForkIInv'
<1>1. PICK c \in DOMAIN procs :
        /\ procs[p].pc = "wait" /\ procs[c].parent = p /\ procs[c].pc = "exited"
        /\ procs' = [procs EXCEPT ![c].pc = "reaped", ![p].pc = "call",
                                  ![p].node = Right(procs[p].node)]
  BY DEF Wait, At
<1>2. /\ procs \in Seq(Processes)
      /\ DOMAIN procs = 1..Len(procs) /\ Len(procs) \in Nat /\ p # c
      /\ procs[p] \in Processes /\ procs[c] \in Processes
  BY <1>1, SeqFacts DEF ForkIInv, ForkTypes
<1> DEFINE reaped == [procs[c] EXCEPT !.pc = "reaped"]
           goes == [procs[p] EXCEPT !.pc = "call", !.node = Right(procs[p].node)]
           proc1 == [procs EXCEPT ![c] = reaped]
<1>3. /\ reaped \in Processes /\ reaped.pc = "reaped"
      /\ reaped.threads = procs[c].threads /\ reaped.parent = procs[c].parent
      /\ goes \in Processes /\ goes.pc = "call"
      /\ goes.threads = procs[p].threads /\ goes.parent = procs[p].parent
  <2>1. Right(procs[p].node) \in Int
    <3>1. procs[p].node \in Int
      BY <1>2 DEF Processes
    <3> QED BY <3>1 DEF Right
  <2> QED BY <1>2, <2>1 DEF Processes, ForkPlaces
<1>4. /\ DOMAIN procs' = DOMAIN procs /\ ForkTypes'
      /\ procs'[c] = reaped /\ procs'[p] = goes
      /\ \A q \in DOMAIN procs \ {p, c} : procs'[q] = procs[q]
  <2>1. procs' = [proc1 EXCEPT ![p] = goes]
    BY <1>1, <1>2
  <2> HIDE DEF reaped, goes
  <2>2. /\ proc1 \in Seq(Processes) /\ DOMAIN proc1 = DOMAIN procs
        /\ \A q \in DOMAIN procs : proc1[q] = IF q = c THEN reaped ELSE procs[q]
    BY <1>2, <1>3, SeqFacts
  <2> HIDE DEF proc1
  <2>3. /\ procs' \in Seq(Processes) /\ DOMAIN procs' = DOMAIN procs
        /\ \A q \in DOMAIN procs : procs'[q] = IF q = p THEN goes ELSE proc1[q]
    BY <1>3, <2>1, <2>2, SeqFacts
  <2> QED BY <1>2, <2>2, <2>3 DEF ForkTypes
<1> HIDE DEF reaped, goes, proc1
<1>5. /\ procs'[c].pc = "reaped" /\ procs'[c].threads = procs[c].threads
      /\ procs'[p].pc = "call" /\ procs'[p].threads = procs[p].threads
      /\ \A q \in DOMAIN procs : procs'[q].parent = procs[q].parent
  BY <1>2, <1>3, <1>4
<1>6. c > 1 /\ p < c
  <2>1. p \in 1..Len(procs) /\ c \in 1..Len(procs)
    BY <1>2
  <2>2. CASE c > 1
    BY <1>1, <2>1, <2>2 DEF ForkIInv, InChain, Unreaped
  <2>3. CASE c = 1
    <3>1. c < p
      BY <2>1, <2>3, <1>2
    <3> QED BY <1>1, <3>1 DEF ForkIInv, OthersWait, Unreaped
  <2> QED BY <2>1, <2>2, <2>3
<1>7. \A q \in DOMAIN procs : Unreaped(q)' <=> Unreaped(q) /\ q # c
  BY <1>1, <1>2, <1>4, <1>5 DEF Unreaped
<1>8. \A q \in DOMAIN procs : p < q => ~Unreaped(q)'
  <2> SUFFICES ASSUME NEW q \in DOMAIN procs, p < q, Unreaped(q), q # c PROVE FALSE
    BY <1>7
  <2>1. CASE q < c
    BY <2>1, <1>1, <1>6 DEF ForkIInv, InChain, Unreaped
  <2>2. CASE c < q
    BY <2>2, <1>1 DEF ForkIInv, OthersWait, Unreaped
  <2> QED BY <2>1, <2>2, <1>2
<1>9. Joined'
  BY <1>1, <1>4, <1>5 DEF ForkIInv, Joined
<1>10. OthersWait'
  <2> SUFFICES ASSUME NEW q \in DOMAIN procs, NEW r \in DOMAIN procs, q < r,
                      Unreaped(q)', Unreaped(r)'
               PROVE  procs'[q].pc = "wait"
    BY <1>4 DEF OthersWait
  <2>1. q # p /\ q # c /\ Unreaped(q) /\ Unreaped(r)
    BY <1>7, <1>8
  <2> QED BY <2>1, <1>4 DEF ForkIInv, OthersWait
<1>11. InChain'
  BY <1>4, <1>5, <1>7 DEF ForkIInv, InChain
<1> QED BY <1>4, <1>9, <1>10, <1>11 DEF ForkIInv

(* Every other step is of the process that does not wait. *)
LEMMA ForkStepInv ==
  ASSUME ForkIInv, NEW p \in DOMAIN procs,
         \/ Leaf(p) \/ Spawn(p) \/ ThreadEnds(p) \/ Join(p) \/ ForkFails(p)
         \/ Verify(p) \/ Return(p) \/ CallerEnds(p)
  PROVE  ForkIInv'
<1>1. /\ procs \in Seq(Processes)
      /\ procs[p] \in Processes
  BY SeqFacts DEF ForkIInv, ForkTypes
<1>2. procs[p].threads > 0 => procs[p].pc = "join"
  BY DEF ForkIInv, Joined
<1>3. PICK place \in ForkPlaces \ {"reaped"}, n \in Nat :
        /\ procs' = [procs EXCEPT ![p].pc = place, ![p].threads = n]
        /\ n > 0 => place = "join"
        /\ procs[p].pc \notin {"wait", "reaped"}
  <2>1. CASE Leaf(p) \/ Join(p) \/ ForkFails(p) \/ Verify(p) \/ Return(p) \/ CallerEnds(p)
    <3>1. PICK place \in ForkPlaces \ {"reaped"} : procs' = [procs EXCEPT ![p].pc = place]
      BY <2>1 DEF Leaf, Join, ForkFails, Verify, Return, CallerEnds, Continue, ForkPlaces
    <3>2. procs[p].threads = 0 /\ procs[p].pc \notin {"wait", "reaped"}
      BY <2>1, <1>1, <1>2, SMTT(30) DEF Leaf, Join, ForkFails, Verify, Return, CallerEnds, At, Processes
    <3>3. procs' = [procs EXCEPT ![p].pc = place, ![p].threads = 0]
      BY <1>1, <3>1, <3>2
    <3>4. place \in ForkPlaces \ {"reaped"} /\ 0 \in Nat /\ ~(0 > 0)
      BY <3>1
    <3> QED BY <3>2, <3>3, <3>4, Zenon
  <2>2. CASE Spawn(p)
    <3>1. PICK n \in IF function = "clone" THEN ThreadCounts ELSE {0} :
            procs' = [procs EXCEPT ![p].pc = "join", ![p].threads = n]
      BY <2>2 DEF Spawn
    <3>2. n \in Nat
      BY ForkAssumption
    <3> QED BY <2>2, <3>1, <3>2 DEF Spawn, At, ForkPlaces
  <2>3. CASE ThreadEnds(p)
    <3>1. procs[p].pc = "join" /\ procs[p].threads - 1 \in Nat
      BY <2>3, <1>1, <1>2 DEF ThreadEnds, Processes
    <3>2. procs' = [procs EXCEPT ![p].pc = "join", ![p].threads = procs[p].threads - 1]
      BY <2>3, <1>1, <3>1 DEF ThreadEnds
    <3> QED BY <3>1, <3>2 DEF ForkPlaces
  <2> QED BY <2>1, <2>2, <2>3
<1> DEFINE goes == [procs[p] EXCEPT !.pc = place, !.threads = n]
<1>4. goes \in Processes /\ goes.pc = place /\ goes.threads = n /\ goes.parent = procs[p].parent
  BY <1>1, <1>3 DEF Processes
<1>5. procs' = [procs EXCEPT ![p] = goes]
  BY <1>1, <1>3
<1> HIDE DEF goes
<1>6. /\ ForkTypes' /\ DOMAIN procs' = DOMAIN procs /\ procs'[p] = goes
      /\ \A q \in DOMAIN procs \ {p} : procs'[q] = procs[q]
  BY <1>1, <1>4, <1>5, SeqFacts DEF ForkTypes
<1> QED BY <1>3, <1>4, <1>6, GoesOn

-----------------------------------------------------------------------------
(* All processes but the newest wait. *)
LEMMA RunsAlone == ForkIInv => OneProcessRuns
<1> SUFFICES ASSUME ForkIInv, NEW p \in DOMAIN procs, NEW q \in DOMAIN procs,
                    procs[p].threads > 0 \/ procs[p].pc \notin {"wait", "exited", "reaped"},
                    procs[q].threads > 0 \/ procs[q].pc \notin {"wait", "exited", "reaped"}
             PROVE  p = q
  BY DEF OneProcessRuns
<1>1. /\ procs[p].pc \notin {"wait", "reaped"} /\ procs[q].pc \notin {"wait", "reaped"}
      /\ p \in Nat /\ q \in Nat
  BY DEF ForkIInv, Joined, ForkTypes
<1> QED BY <1>1 DEF ForkIInv, OthersWait, Unreaped
-----------------------------------------------------------------------------
(* Policies, for any number of threads, levels and ticks, and any lengths  *)
(* of slices.  Lists of threads, each once, and what comes before what.    *)
Line(q) == q \in Seq(PolicyThreads) /\ \A i, j \in 1 .. Len(q) : q[i] = q[j] => i = j

Precedes(q, t, u) == \E i, j \in 1 .. Len(q) : i < j /\ q[i] = t /\ q[j] = u

LEMMA RangeIs ==
  ASSUME NEW S, NEW q \in Seq(S)
  PROVE  /\ Len(q) \in Nat /\ DOMAIN q = 1 .. Len(q) /\ Range(q) \subseteq S
         /\ \A i \in 1 .. Len(q) : q[i] \in Range(q)
         /\ \A t \in Range(q) : \E i \in 1 .. Len(q) : q[i] = t
<1>1. Len(q) \in Nat /\ DOMAIN q = 1 .. Len(q) /\ \A i \in 1 .. Len(q) : q[i] \in S
  OBVIOUS
<1> QED BY <1>1 DEF Range

LEMMA PrecedesOnce ==
  ASSUME NEW q, Line(q), NEW t, NEW u, Precedes(q, t, u)
  PROVE  t # u /\ ~Precedes(q, u, t)
<1>1. Len(q) \in Nat
  BY DEF Line
<1> QED BY <1>1 DEF Line, Precedes

LEMMA RemovedIs ==
  ASSUME NEW q, Line(q), NEW k \in 1 .. Len(q)
  PROVE  LET r == Removed(q, q[k])
         IN  /\ r \in Seq(PolicyThreads) /\ Len(r) = Len(q) - 1
             /\ \A j \in 1 .. Len(q) - 1 : r[j] = IF j < k THEN q[j] ELSE q[j + 1]
<1> DEFINE T == PolicyThreads
           n == Len(q)
           at == CHOOSE i \in DOMAIN q : q[i] = q[k]
           a == SubSeq(q, 1, k - 1)
           b == SubSeq(q, k + 1, n)
<1>1. q \in Seq(T) /\ n \in Nat /\ DOMAIN q = 1 .. n
  BY DEF Line
<1>2. at = k
  BY <1>1 DEF Line
<1>3. Removed(q, q[k]) = a \o b
  BY <1>1, <1>2 DEF Removed, RemoveAt
<1> HIDE DEF T, at
<1>4. a \in Seq(T) /\ Len(a) = k - 1 /\ \A j \in 1 .. k - 1 : a[j] = q[j]
  BY <1>1
<1>5. b \in Seq(T) /\ Len(b) = n - k
  <2>1. k + 1 \in Nat /\ k + 1 >= 1 /\ n <= Len(q)
    BY <1>1
  <2>2. \A i \in k + 1 .. n : q[i] \in T
    BY <1>1
  <2>3. Len(b) = IF k + 1 <= n THEN n - (k + 1) + 1 ELSE 0
    BY <1>1, <2>1
  <2>4. b \in Seq(T)
    BY <1>1, <2>1, <2>2
  <2> HIDE DEF b, n
  <2>5. Len(b) = n - k
    BY <1>1, <2>3
  <2> QED BY <2>4, <2>5
<1>6. ASSUME NEW j \in 1 .. n - k PROVE b[j] = q[j + k]
  <2>1. b[j] = q[k + 1 + j - 1]
    BY <1>1
  <2>2. k + 1 + j - 1 = j + k
    BY <1>1
  <2> QED BY <2>1, <2>2
<1> HIDE DEF a, b
<1>7. a \o b \in Seq(T) /\ Len(a \o b) = n - 1
  <2>1. Len(a) + Len(b) = n - 1
    BY <1>1, <1>4, <1>5
  <2>2. a \o b \in Seq(T) /\ Len(a \o b) = Len(a) + Len(b)
    BY <1>4, <1>5, Appended
  <2> QED BY <2>1, <2>2
<1>8. ASSUME NEW j \in 1 .. n - 1 PROVE (a \o b)[j] = IF j < k THEN q[j] ELSE q[j + 1]
  <2>1. CASE j < k
    <3>1. j \in 1 .. Len(a) /\ j \in 1 .. k - 1
      BY <1>1, <1>4, <2>1
    <3>2. (a \o b)[j] = a[j]
      BY <1>4, <1>5, <3>1, Appended
    <3>3. a[j] = q[j]
      BY <1>4, <3>1
    <3> QED BY <2>1, <3>2, <3>3
  <2>2. CASE ~(j < k)
    <3> DEFINE m == j + 1 - k
    <3>1. m \in 1 .. n - k /\ m \in 1 .. Len(b) /\ Len(a) + m = j /\ m + k = j + 1
      BY <1>1, <1>4, <1>5, <2>2
    <3> HIDE DEF m
    <3>2. (a \o b)[Len(a) + m] = b[m]
      BY <1>4, <1>5, <3>1, Appended
    <3>3. b[m] = q[m + k]
      BY <1>6, <3>1
    <3>4. (a \o b)[j] = q[j + 1]
      BY <3>1, <3>2, <3>3
    <3> QED BY <2>2, <3>4
  <2> QED BY <2>1, <2>2
<1> QED BY <1>3, <1>7, <1>8 DEF T

LEMMA RemovedLine ==
  ASSUME NEW q, Line(q), NEW x \in Range(q)
  PROVE  /\ Line(Removed(q, x)) /\ Range(Removed(q, x)) = Range(q) \ {x}
         /\ \A t, u \in Range(q) \ {x} : Precedes(q, t, u) => Precedes(Removed(q, x), t, u)
<1> DEFINE n == Len(q)
           r == Removed(q, x)
<1>1. q \in Seq(PolicyThreads) /\ \A i, j \in 1 .. n : q[i] = q[j] => i = j
  BY DEF Line
<1>2. PICK k \in 1 .. n : q[k] = x
  BY <1>1, RangeIs
<1>3. n \in Nat
  BY <1>1
<1>4. /\ r \in Seq(PolicyThreads) /\ Len(r) = n - 1
      /\ \A j \in 1 .. n - 1 : r[j] = IF j < k THEN q[j] ELSE q[j + 1]
  BY <1>2, RemovedIs
<1> HIDE DEF n, r
<1> DEFINE from(j) == IF j < k THEN j ELSE j + 1
           to(i) == IF i < k THEN i ELSE i - 1
<1>5. \A j \in 1 .. n - 1 : from(j) \in 1 .. n /\ from(j) # k /\ r[j] = q[from(j)]
  BY <1>3, <1>4
<1>6. \A i \in 1 .. n : i # k => to(i) \in 1 .. n - 1 /\ from(to(i)) = i
  BY <1>3
<1>7. \A i, j \in 1 .. n : i # k /\ j # k /\ i < j => to(i) < to(j)
  BY <1>3
<1>8. \A i, j \in 1 .. n - 1 : from(i) = from(j) => i = j
  BY <1>3
<1> HIDE DEF from, to
<1>9. Line(r)
  <2>1. \A i, j \in 1 .. n - 1 : r[i] = r[j] => i = j
    BY <1>1, <1>5, <1>8
  <2> QED BY <1>4, <2>1 DEF Line
<1>10. \A i \in 1 .. n : i # k => r[to(i)] = q[i]
  BY <1>5, <1>6
<1>11. Range(r) = Range(q) \ {x}
  <2>1. ASSUME NEW t \in Range(r) PROVE t \in Range(q) \ {x}
    <3>1. PICK j \in 1 .. n - 1 : r[j] = t
      BY <1>4, RangeIs
    <3>2. t = q[from(j)] /\ from(j) \in 1 .. n /\ from(j) # k
      BY <1>5, <3>1
    <3>3. t \in Range(q)
      BY <1>1, <3>2, RangeIs DEF n
    <3> QED BY <1>1, <1>2, <3>2, <3>3
  <2>2. ASSUME NEW t \in Range(q), t # x PROVE t \in Range(r)
    <3>1. PICK i \in 1 .. n : q[i] = t
      BY <1>1, RangeIs DEF n
    <3>2. to(i) \in 1 .. n - 1 /\ r[to(i)] = t
      BY <1>2, <1>6, <1>10, <2>2, <3>1
    <3> QED BY <1>4, <3>2, RangeIs
  <2> QED BY <2>1, <2>2
<1>12. ASSUME NEW t \in Range(q) \ {x}, NEW u \in Range(q) \ {x}, Precedes(q, t, u)
       PROVE  Precedes(r, t, u)
  <2>1. PICK i \in 1 .. n, j \in 1 .. n : i < j /\ q[i] = t /\ q[j] = u
    BY <1>12 DEF Precedes, n
  <2>2. i # k /\ j # k
    BY <1>2, <2>1
  <2>3. /\ to(i) \in 1 .. n - 1 /\ to(j) \in 1 .. n - 1 /\ to(i) < to(j)
        /\ r[to(i)] = t /\ r[to(j)] = u
    BY <1>6, <1>7, <1>10, <2>1, <2>2
  <2> QED BY <1>4, <2>3 DEF Precedes
<1> QED BY <1>9, <1>11, <1>12 DEF r

(* One list after another. *)
LEMMA JoinedLine ==
  ASSUME NEW p, Line(p), NEW q, Line(q), Range(p) \cap Range(q) = {}
  PROVE  /\ Line(p \o q) /\ Range(p \o q) = Range(p) \cup Range(q)
         /\ \A t, u : Precedes(p, t, u) \/ Precedes(q, t, u) => Precedes(p \o q, t, u)
         /\ \A t \in Range(p), u \in Range(q) : Precedes(p \o q, t, u)
<1> DEFINE m == Len(p)
           n == Len(q)
           r == p \o q
           T == PolicyThreads
<1>1. /\ p \in Seq(T) /\ q \in Seq(T) /\ m \in Nat /\ n \in Nat
      /\ \A i, j \in 1 .. m : p[i] = p[j] => i = j
      /\ \A i, j \in 1 .. n : q[i] = q[j] => i = j
  BY DEF Line
<1> HIDE DEF T
<1>2. /\ r \in Seq(T) /\ Len(r) = m + n
      /\ \A i \in 1 .. m : r[i] = p[i]
      /\ \A i \in 1 .. n : r[m + i] = q[i]
  BY <1>1, Appended
<1> HIDE DEF r
<1>3. /\ \A i \in 1 .. m : p[i] \in Range(p)
      /\ \A t \in Range(p) : \E i \in 1 .. m : p[i] = t
  BY <1>1, RangeIs
<1>4. /\ \A i \in 1 .. n : q[i] \in Range(q)
      /\ \A t \in Range(q) : \E i \in 1 .. n : q[i] = t
  BY <1>1, RangeIs
<1>5. /\ \A i \in 1 .. m + n : r[i] \in Range(r)
      /\ \A t \in Range(r) : \E i \in 1 .. m + n : r[i] = t
  BY <1>2, RangeIs
<1> HIDE DEF m, n
<1>6. \A i \in 1 .. m + n : i > m => i - m \in 1 .. n /\ r[i] = q[i - m]
  <2> SUFFICES ASSUME NEW i \in 1 .. m + n, i > m PROVE i - m \in 1 .. n /\ r[i] = q[i - m]
    OBVIOUS
  <2> DEFINE k == i - m
  <2>1. k \in 1 .. n /\ m + k = i
    BY <1>1
  <2> HIDE DEF k
  <2>2. r[m + k] = q[k]
    BY <1>2, <2>1
  <2> QED BY <2>1, <2>2 DEF k
<1>7. \A i \in 1 .. m : i \in 1 .. m + n
  BY <1>1
<1>8. \A i \in 1 .. n : m + i \in 1 .. m + n
  BY <1>1
<1>9. \A i, j \in 1 .. m + n : r[i] = r[j] => i = j
  <2> SUFFICES ASSUME NEW i \in 1 .. m + n, NEW j \in 1 .. m + n, r[i] = r[j] PROVE i = j
    OBVIOUS
  <2>1. CASE i <= m /\ j <= m
    <3>1. i \in 1 .. m /\ j \in 1 .. m
      BY <1>1, <2>1
    <3> QED BY <1>1, <1>2, <3>1
  <2>2. CASE i > m /\ j > m
    <3>1. i - m = j - m
      BY <1>1, <1>6, <2>2
    <3> QED BY <1>1, <3>1
  <2>3. CASE i <= m /\ j > m
    <3>1. i \in 1 .. m
      BY <1>1, <2>3
    <3>2. r[i] \in Range(p) /\ r[j] \in Range(q)
      BY <1>2, <1>3, <1>4, <1>6, <2>3, <3>1
    <3> QED BY <3>2
  <2>4. CASE i > m /\ j <= m
    <3>1. j \in 1 .. m
      BY <1>1, <2>4
    <3>2. r[j] \in Range(p) /\ r[i] \in Range(q)
      BY <1>2, <1>3, <1>4, <1>6, <2>4, <3>1
    <3> QED BY <3>2
  <2> QED BY <1>1, <2>1, <2>2, <2>3, <2>4
<1>10. Line(r)
  BY <1>2, <1>9 DEF Line, T
<1>11. Range(r) = Range(p) \cup Range(q)
  <2>1. ASSUME NEW t \in Range(r) PROVE t \in Range(p) \cup Range(q)
    <3>1. PICK i \in 1 .. m + n : r[i] = t
      BY <1>5
    <3>2. i \in 1 .. m \/ i > m
      BY <1>1
    <3> QED BY <1>2, <1>3, <1>4, <1>6, <3>1, <3>2
  <2>2. ASSUME NEW t \in Range(p) PROVE t \in Range(r)
    BY <1>2, <1>3, <1>5, <1>7
  <2>3. ASSUME NEW t \in Range(q) PROVE t \in Range(r)
    BY <1>2, <1>4, <1>5, <1>8
  <2> QED BY <2>1, <2>2, <2>3
<1>12. ASSUME NEW t, NEW u, Precedes(p, t, u) PROVE Precedes(r, t, u)
  BY <1>2, <1>7, <1>12 DEF Precedes, m
<1>13. ASSUME NEW t, NEW u, Precedes(q, t, u) PROVE Precedes(r, t, u)
  <2>1. PICK i \in 1 .. n, j \in 1 .. n : i < j /\ q[i] = t /\ q[j] = u
    BY <1>13 DEF Precedes, n
  <2>2. m + i \in 1 .. m + n /\ m + j \in 1 .. m + n /\ m + i < m + j
    BY <1>1, <2>1
  <2>3. r[m + i] = t /\ r[m + j] = u
    BY <1>2, <2>1
  <2> QED BY <1>2, <2>2, <2>3 DEF Precedes
<1>14. ASSUME NEW t \in Range(p), NEW u \in Range(q) PROVE Precedes(r, t, u)
  <2>1. PICK i \in 1 .. m : p[i] = t
    BY <1>3
  <2>2. PICK j \in 1 .. n : q[j] = u
    BY <1>4
  <2>3. i \in 1 .. m + n /\ m + j \in 1 .. m + n /\ i < m + j
    BY <1>1
  <2> QED BY <1>2, <2>1, <2>2, <2>3 DEF Precedes
<1> QED BY <1>10, <1>11, <1>12, <1>13, <1>14 DEF r

(* A list of one thread. *)
LEMMA LineOfOne ==
  ASSUME NEW t \in PolicyThreads
  PROVE  Line(<<t>>) /\ Range(<<t>>) = {t}
<1>1. <<t>> \in Seq(PolicyThreads) /\ Len(<<t>>) = 1 /\ <<t>>[1] = t
  OBVIOUS
<1>2. Range(<<t>>) = {t}
  <2>1. Range(<<t>>) = {<<t>>[i] : i \in {1}}
    BY DEF Range
  <2> QED BY <1>1, <2>1
<1> QED BY <1>1, <1>2 DEF Line

(* The three lists that schedule() hands to the policy. *)
LEMMA TailedLine ==
  ASSUME NEW q, Line(q), q # <<>>
  PROVE  /\ q[1] \in Range(q) /\ Line(Tail(q)) /\ Range(Tail(q)) = Range(q) \ {q[1]}
         /\ \A t, u \in Range(q) \ {q[1]} : Precedes(q, t, u) => Precedes(Tail(q), t, u)
<1>1. q \in Seq(PolicyThreads) /\ Len(q) \in Nat /\ 1 \in 1 .. Len(q)
  BY DEF Line
<1>2. /\ Tail(q) \in Seq(PolicyThreads) /\ Len(Tail(q)) = Len(q) - 1
      /\ \A i \in 1 .. Len(q) - 1 : Tail(q)[i] = q[i + 1]
  BY <1>1, HeadTailProperties
<1>3. /\ Removed(q, q[1]) \in Seq(PolicyThreads) /\ Len(Removed(q, q[1])) = Len(q) - 1
      /\ \A j \in 1 .. Len(q) - 1 : Removed(q, q[1])[j] = IF j < 1 THEN q[j] ELSE q[j + 1]
  BY <1>1, RemovedIs
<1>4. \A j \in 1 .. Len(q) - 1 : Removed(q, q[1])[j] = Tail(q)[j]
  <2> SUFFICES ASSUME NEW j \in 1 .. Len(q) - 1 PROVE Removed(q, q[1])[j] = Tail(q)[j]
    OBVIOUS
  <2>1. ~(j < 1)
    BY <1>1
  <2> QED BY <1>2, <1>3, <2>1
<1>5. Tail(q) = Removed(q, q[1])
  BY <1>1, <1>2, <1>3, <1>4, SeqEqual
<1>6. q[1] \in Range(q)
  BY <1>1, RangeIs
<1>7. /\ Line(Removed(q, q[1])) /\ Range(Removed(q, q[1])) = Range(q) \ {q[1]}
      /\ \A t, u \in Range(q) \ {q[1]} : Precedes(q, t, u) => Precedes(Removed(q, q[1]), t, u)
  BY <1>6, RemovedLine
<1> QED BY <1>5, <1>6, <1>7

LEMMA TurnedLine ==
  ASSUME NEW q, Line(q), NEW x \in Range(q)
  PROVE  /\ Line(ToTail(q, x)) /\ Range(ToTail(q, x)) = Range(q)
         /\ \A t, u \in Range(q) \ {x} : Precedes(q, t, u) => Precedes(ToTail(q, x), t, u)
         /\ \A t \in Range(q) \ {x} : Precedes(ToTail(q, x), t, x)
<1>1. x \in PolicyThreads
  BY RangeIs DEF Line
<1>2. /\ Line(Removed(q, x)) /\ Range(Removed(q, x)) = Range(q) \ {x}
      /\ \A t, u \in Range(q) \ {x} : Precedes(q, t, u) => Precedes(Removed(q, x), t, u)
  BY RemovedLine
<1>3. Line(<<x>>) /\ Range(<<x>>) = {x}
  BY <1>1, LineOfOne
<1>4. ToTail(q, x) = Removed(q, x) \o <<x>>
  BY <1>1, <1>2, AppendIsConcat DEF ToTail, Line
<1>5. Range(Removed(q, x)) \cap Range(<<x>>) = {}
  BY <1>2, <1>3
<1>6. /\ Line(ToTail(q, x))
      /\ Range(ToTail(q, x)) = Range(Removed(q, x)) \cup Range(<<x>>)
      /\ \A t, u : Precedes(Removed(q, x), t, u) => Precedes(ToTail(q, x), t, u)
      /\ \A t \in Range(Removed(q, x)), u \in Range(<<x>>) : Precedes(ToTail(q, x), t, u)
  BY <1>2, <1>3, <1>4, <1>5, JoinedLine
<1> QED BY <1>2, <1>3, <1>6

LEMMA JoinersLine ==
  ASSUME NEW W, W \subseteq PolicyThreads, NEW joiners \in SetToSeqs(W)
  PROVE  Line(joiners)
<1>1. IsFiniteSet(PolicyThreads)
  BY PolicyAssumption, FS_Interval DEF PolicyThreads
<1>2. IsFiniteSet(W)
  BY <1>1, FS_Subset
<1>3. Cardinality(W) \in Nat
  BY <1>2, FS_CardinalityType
<1>4. /\ joiners \in [1 .. Cardinality(W) -> W]
      /\ \A i, j \in 1 .. Cardinality(W) : i # j => joiners[i] # joiners[j]
  BY DEF SetToSeqs
<1>5. joiners \in Seq(PolicyThreads) /\ Len(joiners) = Cardinality(W)
  BY <1>3, <1>4
<1> QED BY <1>4, <1>5 DEF Line

(* The first of the best is one of them, and no other one is before it. *)
LEMMA FirstInIs ==
  ASSUME NEW list, Line(list), NEW best, NEW x \in Range(list), x \in best
  PROVE  /\ FirstIn(list, best) \in Range(list) \cap best
         /\ \A t \in best : ~Precedes(list, t, FirstIn(list, best))
<1> DEFINE n == Len(list)
           T == {i \in 1 .. n : list[i] \in best}
           P(i) == list[i] \in best /\ \A j \in 1 .. i - 1 : list[j] \notin best
           at == CHOOSE i \in DOMAIN list : P(i)
<1>1. /\ n \in Nat /\ DOMAIN list = 1 .. n
      /\ \A i, j \in 1 .. n : list[i] = list[j] => i = j
      /\ \A i \in 1 .. n : list[i] \in Range(list)
      /\ \E i \in 1 .. n : list[i] = x
  BY RangeIs DEF Line
<1>2. T \subseteq Nat /\ T # {}
  BY <1>1
<1>3. PICK k \in T : \A m \in T : k <= m
  BY <1>2, LeastNumber
<1>4. \A j \in 1 .. k - 1 : j \in 1 .. n /\ ~(k <= j)
  BY <1>1, <1>3
<1>5. P(k) /\ k \in DOMAIN list
  BY <1>1, <1>3, <1>4
<1>6. at \in 1 .. n /\ P(at)
  BY <1>1, <1>5
<1>7. FirstIn(list, best) = list[at]
  BY DEF FirstIn
<1> HIDE DEF at
<1>8. ASSUME NEW t \in best, Precedes(list, t, list[at]) PROVE FALSE
  <2>1. PICK i \in 1 .. n, j \in 1 .. n : i < j /\ list[i] = t /\ list[j] = list[at]
    BY <1>8 DEF Precedes
  <2>2. j = at
    BY <1>1, <1>6, <2>1
  <2>3. i \in 1 .. at - 1
    BY <1>1, <1>6, <2>1, <2>2
  <2> QED BY <1>6, <2>1, <2>3
<1> QED BY <1>1, <1>6, <1>7, <1>8

LEMMA LeastOf ==
  ASSUME NEW R, R # {}, NEW f, \A t \in R : f[t] \in Nat
  PROVE  \E t \in R : \A u \in R : f[t] <= f[u]
<1> DEFINE T == {f[t] : t \in R}
<1>1. PICK n \in T : \A m \in T : n <= m
  <2>1. T \subseteq Nat /\ T # {}
    OBVIOUS
  <2> QED BY <2>1, LeastNumber
<1>2. PICK t \in R : n = f[t]
  BY <1>1
<1> QED BY <1>1, <1>2

LEMMA MostOf ==
  ASSUME NEW R, R # {}, NEW f, \A t \in R : f[t] \in 0 .. TOP_PRIORITY
  PROVE  \E t \in R : \A u \in R : f[u] <= f[t]
<1> DEFINE g == [t \in R |-> TOP_PRIORITY - f[t]]
<1>1. \A t \in R : g[t] \in Nat
  BY PolicyAssumption
<1>2. PICK t \in R : \A u \in R : g[t] <= g[u]
  <2> HIDE DEF g
  <2> QED BY <1>1, LeastOf
<1>3. \A u \in R : f[u] <= f[t]
  BY <1>2, PolicyAssumption
<1> QED BY <1>3

-----------------------------------------------------------------------------
(* The invariant.  The lists: the running thread is the head of RUNNABLE. *)
PolicyState ==
  /\ select_next \in {"round_robin", "smallest_cycles", "mlfq"}
  /\ created \in PolicyThreads /\ running \in {0} \cup PolicyThreads
  /\ priority_level \in [PolicyThreads -> 0 .. TOP_PRIORITY]
  /\ got_scheduled \in [PolicyThreads -> Nat] /\ total_time \in [PolicyThreads -> Nat]
  /\ sched_ticks \in 0 .. SCHED_PERIOD - 1
  /\ since \in [PolicyThreads -> SUBSET PolicyThreads] /\ idle \in [PolicyThreads -> Nat]
  /\ steady \in [PolicyThreads -> BOOLEAN]

PolicyLists ==
  /\ Line(runnable) /\ runnable # <<>> /\ Range(runnable) \subseteq 1 .. created
  /\ blocked \subseteq 1 .. created /\ blocked \cap Range(runnable) = {}
  /\ running # 0 => runnable[1] = running

(* Who was scheduled while a thread waits, and waits too, waits behind it. *)
WaitsInOrder ==
  \A t \in PolicyThreads : \A u \in since[t] :
    /\ t \in Range(runnable) /\ t # running /\ u # t
    /\ u \in Range(runnable) /\ u # running => Precedes(runnable, t, u)

NotOvertaken == select_next \in {"round_robin", "mlfq"} => ~overtaken

SteadyRun == \A t \in PolicyThreads : steady[t] => t \notin blocked /\ t <= created

(* The steady threads among list are within one slice of each other in total. *)
Within(list, total) ==
  \A t, u \in Range(list) :
    steady[t] /\ steady[u] => \E most \in Durations : total[t] <= total[u] + most

Fewest(t, list, total) ==
  steady[t] => \A u \in Range(list) : steady[u] => total[t] <= total[u]

FewestRuns ==
  select_next = "smallest_cycles" =>
    /\ Within(runnable, total_time)
    /\ running # 0 => Fewest(running, runnable, total_time)

(* By the next tick 0, when it is boosted, a waiting thread has been idle for
   SCHED_PERIOD calls per level, and at most. *)
IdleAt(ticks) == IF ticks = 0 THEN SCHED_PERIOD - 1 ELSE ticks - 1

IdleBounded ==
  select_next = "mlfq" =>
    \A t \in PolicyThreads :
      got_scheduled[t] = 0 /\ t # running =>
        \/ priority_level[t] = TOP_PRIORITY
        \/ idle[t] <= priority_level[t] * SCHED_PERIOD + IdleAt(sched_ticks)

PolicyInv ==
  /\ PolicyState /\ PolicyLists /\ WaitsInOrder /\ NotOvertaken
  /\ SteadyRun /\ FewestRuns /\ IdleBounded

(* What schedule() hands to the policy: the running thread, if it is still in the
   list, is behind every thread that has waited while it was scheduled. *)
Arranged(list) ==
  /\ Line(list) /\ list # <<>>
  /\ \A t \in PolicyThreads : \A u \in since[t] :
       /\ t \in Range(list) /\ t # running /\ u # t
       /\ u \in Range(list) => Precedes(list, t, u)

-----------------------------------------------------------------------------
(* What the policies keep of the types. *)
LEMMA DispatchLevels ==
  ASSUME PolicyState, NEW list, NEW target, NEW slice, NEW total, Dispatch(list, target, slice, total)
  PROVE  priority_level' \in [PolicyThreads -> 0 .. TOP_PRIORITY]
<1>1. CASE select_next # "mlfq"
  BY <1>1 DEF Dispatch, PolicyState
<1>2. CASE select_next = "mlfq"
  <2>1. priority_level' = [t \in PolicyThreads |->
          IF Demoted(list, t, slice, total) THEN l1_priority_decrease(Level(list, t))
                                            ELSE Level(list, t)]
    BY <1>2 DEF Dispatch, l1_mlfq_policy
  <2>2. \A t \in PolicyThreads : Level(list, t) \in 0 .. TOP_PRIORITY
    BY PolicyAssumption DEF Level, l1_priority_increase, PolicyState
  <2>3. \A n \in 0 .. TOP_PRIORITY : l1_priority_decrease(n) \in 0 .. TOP_PRIORITY
    BY PolicyAssumption DEF l1_priority_decrease
  <2> QED BY <2>1, <2>2, <2>3
<1> QED BY <1>1, <1>2

LEMMA DispatchTypes ==
  ASSUME PolicyState, NEW list, Arranged(list), NEW target \in {0} \cup Range(list),
         NEW slice \in Nat, NEW total \in [PolicyThreads -> Nat],
         Dispatch(list, target, slice, total), running' \in PolicyThreads
  PROVE  /\ priority_level' \in [PolicyThreads -> 0 .. TOP_PRIORITY]
         /\ got_scheduled' \in [PolicyThreads -> Nat]
         /\ total_time' \in [PolicyThreads -> Nat]
         /\ sched_ticks' \in 0 .. SCHED_PERIOD - 1
         /\ since' \in [PolicyThreads -> SUBSET PolicyThreads]
         /\ idle' \in [PolicyThreads -> Nat]
<1>1. priority_level' \in [PolicyThreads -> 0 .. TOP_PRIORITY]
  BY DispatchLevels
<1>2. total_time' \in [PolicyThreads -> Nat]
  <2>1. CASE select_next # "mlfq"
    BY <2>1 DEF Dispatch
  <2>2. CASE select_next = "mlfq"
    BY <2>2 DEF Dispatch, l1_mlfq_policy
  <2> QED BY <2>1, <2>2
<1>3. got_scheduled' \in [PolicyThreads -> Nat]
  <2>1. sched_ticks \in Nat /\ \A t \in PolicyThreads : got_scheduled[t] \in Nat
    BY PolicyAssumption DEF PolicyState
  <2>2. got_scheduled' = [t \in PolicyThreads |->
          CASE t = running' -> sched_ticks
            [] t # running' /\ select_next = "mlfq" /\ Demoted(list, t, slice, total) -> 0
            [] OTHER -> got_scheduled[t]]
    BY DEF Dispatch
  <2> QED BY <2>1, <2>2
<1>4. sched_ticks' \in 0 .. SCHED_PERIOD - 1
  <2>1. sched_ticks' = (sched_ticks + 1) % SCHED_PERIOD
    BY DEF Dispatch
  <2>2. sched_ticks + 1 \in Nat
    BY PolicyAssumption DEF PolicyState
  <2> QED BY <2>1, <2>2, PolicyAssumption, DivModNat
<1>5. since' \in [PolicyThreads -> SUBSET PolicyThreads]
  <2>1. \A t \in PolicyThreads : since[t] \subseteq PolicyThreads
    BY DEF PolicyState
  <2>2. since' = [t \in PolicyThreads |->
          CASE t \in Range(list) \ {running', running} -> since[t] \cup {running'}
            [] t = running /\ t # running' /\ t \in Range(list) -> {running'}
            [] OTHER -> {}]
    BY DEF Dispatch, History
  <2> QED BY <2>1, <2>2
<1>6. idle' \in [PolicyThreads -> Nat]
  <2>1. MaxIdle \in Nat /\ \A t \in PolicyThreads : idle[t] \in Nat /\ idle[t] + 1 \in Nat
    BY PolicyAssumption DEF PolicyState, MaxIdle
  <2>2. idle' = [t \in PolicyThreads |->
          IF t \notin Range(list) \ {running', running} THEN 0
          ELSE IF idle[t] = MaxIdle THEN MaxIdle ELSE idle[t] + 1]
    BY DEF Dispatch, History
  <2> QED BY <2>1, <2>2
<1> QED BY <1>1, <1>2, <1>3, <1>4, <1>5, <1>6

(* What the policies select. *)
LEMMA DispatchSelects ==
  ASSUME PolicyState, NEW list, Arranged(list), NEW target \in {0} \cup Range(list),
         NEW slice \in Nat, NEW total \in [PolicyThreads -> Nat],
         Dispatch(list, target, slice, total)
  PROVE  /\ running' \in Range(list)
         /\ select_next = "round_robin" => running' = IF target # 0 THEN target ELSE list[1]
         /\ select_next = "smallest_cycles" =>
              IF target # 0 THEN running' = target
              ELSE \A u \in Range(list) : total[running'] <= total[u]
         /\ select_next = "mlfq" =>
              /\ \A u \in Range(list) : priority_level'[u] <= priority_level'[running']
              /\ \A t \in Range(list) : priority_level'[t] >= priority_level'[running'] =>
                                          ~Precedes(list, t, running')
<1>1. /\ list \in Seq(PolicyThreads) /\ list # <<>> /\ Line(list)
      /\ list[1] \in Range(list) /\ Head(list) = list[1]
  <2>1. list \in Seq(PolicyThreads) /\ list # <<>> /\ Line(list)
    BY DEF Arranged, Line
  <2>2. 1 \in 1 .. Len(list) /\ Head(list) = list[1]
    BY <2>1
  <2> QED BY <2>1, <2>2, RangeIs
<1>2. Range(list) \subseteq PolicyThreads /\ Range(list) # {}
  BY <1>1, RangeIs
<1>3. CASE select_next = "round_robin"
  <2>1. running' = IF target # 0 THEN target ELSE list[1]
    BY <1>1, <1>3 DEF Dispatch, l1_round_robin_policy
  <2> QED BY <1>1, <1>3, <2>1
<1>4. CASE select_next = "smallest_cycles"
  <2> DEFINE best == {t \in Range(list) : \A u \in Range(list) : total[t] <= total[u]}
  <2>1. running' = IF target # 0 THEN target ELSE FirstIn(list, best)
    BY <1>4 DEF Dispatch, l1_smallest_cycles_policy
  <2>2. PICK x \in Range(list) : \A u \in Range(list) : total[x] <= total[u]
    <3>1. \A t \in Range(list) : total[t] \in Nat
      BY <1>2
    <3> QED BY <1>2, <3>1, LeastOf
  <2>3. x \in best
    BY <2>2
  <2> HIDE DEF best
  <2>4. FirstIn(list, best) \in Range(list) \cap best
    BY <1>1, <2>3, FirstInIs
  <2>5. \A u \in Range(list) : total[FirstIn(list, best)] <= total[u]
    BY <2>4 DEF best
  <2> QED BY <1>4, <2>1, <2>4, <2>5
<1>5. CASE select_next = "mlfq"
  <2> DEFINE level == priority_level'
             best == {t \in Range(list) : \A u \in Range(list) : level[u] <= level[t]}
  <2>1. running' = FirstIn(list, best)
    BY <1>5 DEF Dispatch, mlfq_next_thread
  <2>2. \A t \in Range(list) : level[t] \in 0 .. TOP_PRIORITY
    BY <1>2, DispatchLevels
  <2> HIDE DEF level
  <2>3. PICK x \in Range(list) : \A u \in Range(list) : level[u] <= level[x]
    BY <1>2, <2>2, MostOf
  <2>4. x \in best
    BY <2>3
  <2> HIDE DEF best
  <2>5. /\ FirstIn(list, best) \in Range(list) \cap best
        /\ \A t \in best : ~Precedes(list, t, FirstIn(list, best))
    BY <1>1, <2>4, FirstInIs
  <2>6. running' \in Range(list) /\ \A u \in Range(list) : level[u] <= level[running']
    BY <2>1, <2>5 DEF best
  <2>7. ASSUME NEW t \in Range(list), level[t] >= level[running']
        PROVE  ~Precedes(list, t, running')
    <3>1. \A u \in Range(list) : level[u] <= level[t]
      BY <2>2, <2>6, <2>7
    <3>2. t \in best
      BY <3>1 DEF best
    <3> QED BY <2>1, <2>5, <3>2
  <2> QED BY <1>5, <2>6, <2>7 DEF level
<1> QED BY <1>3, <1>4, <1>5 DEF PolicyState

(* The selected thread is the new head; the others keep their order. *)
LEMMA DispatchOrder ==
  ASSUME PolicyState, NEW list, Arranged(list), NEW target \in {0} \cup Range(list),
         NEW slice \in Nat, NEW total \in [PolicyThreads -> Nat],
         Dispatch(list, target, slice, total), UNCHANGED select_next
  PROVE  /\ Line(runnable') /\ runnable' # <<>> /\ runnable'[1] = running'
         /\ Range(runnable') = Range(list) /\ running' \in PolicyThreads
         /\ WaitsInOrder' /\ NotOvertaken'
<1> DEFINE chosen == running'
           rest == Removed(list, chosen)
<1>1. Line(list) /\ list \in Seq(PolicyThreads) /\ list # <<>>
  BY DEF Arranged, Line
<1>2. chosen \in Range(list) /\ chosen \in PolicyThreads
  <2>1. chosen \in Range(list)
    BY DispatchSelects
  <2> QED BY <1>1, <2>1, RangeIs
<1>3. runnable' = <<chosen>> \o rest
  BY DEF Dispatch
<1>4. since' = [t \in PolicyThreads |->
        CASE t \in Range(list) \ {chosen, running} -> since[t] \cup {chosen}
          [] t = running /\ t # chosen /\ t \in Range(list) -> {chosen}
          [] OTHER -> {}]
  BY DEF Dispatch, History
<1> HIDE DEF chosen
<1>5. /\ Line(rest) /\ Range(rest) = Range(list) \ {chosen}
      /\ \A t, u \in Range(list) \ {chosen} : Precedes(list, t, u) => Precedes(rest, t, u)
  BY <1>1, <1>2, RemovedLine
<1>6. Line(<<chosen>>) /\ Range(<<chosen>>) = {chosen}
  BY <1>2, LineOfOne
<1> HIDE DEF rest
<1>7. /\ Line(runnable') /\ Range(runnable') = {chosen} \cup Range(rest)
      /\ \A t, u : Precedes(rest, t, u) => Precedes(runnable', t, u)
  <2>1. Range(<<chosen>>) \cap Range(rest) = {}
    BY <1>5, <1>6
  <2> QED BY <1>3, <1>5, <1>6, <2>1, JoinedLine
<1>8. Range(runnable') = Range(list)
  BY <1>2, <1>5, <1>7
<1>9. runnable' # <<>> /\ runnable'[1] = chosen
  <2>1. rest \in Seq(PolicyThreads) /\ <<chosen>> \in Seq(PolicyThreads)
    BY <1>5, <1>6 DEF Line
  <2>2. Len(<<chosen>>) = 1 /\ <<chosen>>[1] = chosen /\ Len(rest) \in Nat /\ 1 \in 1 .. 1
    BY <2>1
  <2>3. Len(runnable') = 1 + Len(rest) /\ runnable'[1] = chosen
    BY <1>3, <2>1, <2>2, Appended
  <2>4. Len(<<>>) = 0
    OBVIOUS
  <2> QED BY <2>2, <2>3, <2>4
<1>10. ASSUME NEW t \in PolicyThreads, NEW u \in since'[t]
       PROVE  /\ t \in Range(list) /\ t # chosen /\ u # t
              /\ u \in Range(list) /\ u # chosen => Precedes(runnable', t, u)
  <2>1. CASE t \in Range(list) \ {chosen, running}
    <3>1. u \in since[t] \cup {chosen}
      BY <1>4, <1>10, <2>1
    <3>2. CASE u = chosen
      BY <2>1, <3>2
    <3>3. CASE u \in since[t] /\ u # chosen
      <4>1. u # t /\ (u \in Range(list) => Precedes(list, t, u))
        BY <3>3 DEF Arranged
      <4> QED BY <1>5, <1>7, <2>1, <3>3, <4>1
    <3> QED BY <3>1, <3>2, <3>3
  <2>2. CASE t = running /\ t # chosen /\ t \in Range(list)
    <3>1. u = chosen
      BY <1>4, <1>10, <2>2
    <3> QED BY <2>2, <3>1
  <2>3. CASE t \notin Range(list) \/ t = chosen
    BY <1>4, <1>10, <2>3
  <2> QED BY <2>1, <2>2, <2>3
<1>11. WaitsInOrder'
  BY <1>8, <1>10 DEF WaitsInOrder, chosen
<1>12. NotOvertaken'
  <2>1. SUFFICES ASSUME select_next \in {"round_robin", "mlfq"}, overtaken' PROVE FALSE
    BY DEF NotOvertaken
  <2>2. chosen # target /\ \E t \in Range(list) \ {chosen, running} :
          chosen \in since[t] /\ priority_level'[t] >= priority_level'[chosen]
    BY <2>1 DEF Dispatch, History, chosen
  <2>3. PICK t \in Range(list) \ {chosen, running} :
          chosen \in since[t] /\ priority_level'[t] >= priority_level'[chosen]
    BY <2>2
  <2>4. t \in PolicyThreads
    BY <1>1, RangeIs
  <2>5. Precedes(list, t, chosen)
    BY <1>2, <2>3, <2>4 DEF Arranged
  <2>6. CASE select_next = "round_robin"
    <3>1. chosen = list[1]
      BY <2>2, <2>6, DispatchSelects DEF chosen
    <3>2. PICK i \in 1 .. Len(list), j \in 1 .. Len(list) :
            i < j /\ list[i] = t /\ list[j] = list[1]
      BY <2>5, <3>1 DEF Precedes
    <3>3. 1 \in 1 .. Len(list) /\ j # 1
      BY <1>1, <3>2
    <3> QED BY <1>1, <3>2, <3>3 DEF Line
  <2>7. CASE select_next = "mlfq"
    <3>1. ~Precedes(list, t, chosen)
      BY <2>3, <2>7, DispatchSelects DEF chosen
    <3> QED BY <2>5, <3>1
  <2> QED BY <2>1, <2>6, <2>7
<1> QED BY <1>2, <1>7, <1>8, <1>9, <1>11, <1>12 DEF chosen

(* With fewest cycles, the thread selected has the least. *)
LEMMA DispatchShares ==
  ASSUME PolicyState, NEW list, Arranged(list), NEW target \in {0} \cup Range(list),
         NEW slice \in Nat, NEW total \in [PolicyThreads -> Nat],
         Dispatch(list, target, slice, total), UNCHANGED select_next,
         steady' \in [PolicyThreads -> BOOLEAN],
         \A t \in PolicyThreads : steady'[t] => steady[t] /\ t # target,
         select_next = "smallest_cycles" => Within(list, total)
  PROVE  FewestRuns'
<1> SUFFICES ASSUME select_next = "smallest_cycles"
             PROVE  /\ Within(runnable, total_time)'
                    /\ Fewest(running, runnable, total_time)'
  BY DEF FewestRuns
<1>1. Range(runnable') = Range(list) /\ Range(list) \subseteq PolicyThreads
  <2>1. Range(runnable') = Range(list)
    BY DispatchOrder
  <2> QED BY <2>1, RangeIs DEF Arranged, Line
<1>2. total_time' = total
  BY DEF Dispatch
<1>3. Within(runnable, total_time)'
  BY <1>1, <1>2 DEF Within
<1>4. Fewest(running, runnable, total_time)'
  <2>1. CASE target = 0
    <3>1. \A u \in Range(list) : total[running'] <= total[u]
      BY <2>1, DispatchSelects
    <3> QED BY <1>1, <1>2, <3>1 DEF Fewest
  <2>2. CASE target # 0
    <3>1. running' = target /\ target \in PolicyThreads
      BY <1>1, <2>2, DispatchSelects
    <3>2. ~steady'[running']
      BY <3>1
    <3> QED BY <3>2 DEF Fewest
  <2> QED BY <2>1, <2>2
<1> QED BY <1>3, <1>4

(* A waiting thread is boosted at tick 0, and idle for one more call. *)
LEMMA DispatchBoosts ==
  ASSUME PolicyState, IdleBounded, NEW list, Arranged(list),
         NEW target \in {0} \cup Range(list),
         NEW slice \in Nat, NEW total \in [PolicyThreads -> Nat],
         Dispatch(list, target, slice, total), UNCHANGED select_next
  PROVE  IdleBounded'
<1> DEFINE SP == SCHED_PERIOD
           Good(level, n, tick) == level = TOP_PRIORITY \/ n <= level * SP + IdleAt(tick)
<1> SUFFICES ASSUME select_next = "mlfq", NEW t \in PolicyThreads,
                    got_scheduled'[t] = 0, t # running'
             PROVE  Good(priority_level'[t], idle'[t], sched_ticks')
  BY DEF IdleBounded
<1> DEFINE waits == t \in Range(list) /\ t # running
           tick == sched_ticks
<1>1. running' \in PolicyThreads /\ running' \in Range(list)
  BY DispatchSelects, DispatchOrder
<1>2. /\ SP \in Nat \ {0} /\ tick \in 0 .. SP - 1 /\ TOP_PRIORITY \in Nat
      /\ priority_level[t] \in 0 .. TOP_PRIORITY /\ idle[t] \in Nat
  BY PolicyAssumption DEF PolicyState
<1>3. priority_level'[t] \in 0 .. TOP_PRIORITY /\ sched_ticks' \in 0 .. SP - 1
  BY <1>1, DispatchTypes
<1>4. \A n \in 0 .. SP - 1 : IdleAt(n) \in 0 .. SP - 1
  BY <1>2 DEF IdleAt
<1>5. CASE ~waits
  <2>1. idle'[t] = 0
    BY <1>5 DEF Dispatch, History
  <2>2. \A m \in Nat : m * SP \in Nat
    BY <1>2
  <2> QED BY <1>2, <1>3, <1>4, <2>1, <2>2
<1>6. CASE waits
  <2>1. idle'[t] = IF idle[t] = MaxIdle THEN MaxIdle ELSE idle[t] + 1
    BY <1>6 DEF Dispatch, History
  <2>2. idle'[t] \in Nat /\ idle'[t] <= idle[t] + 1
    BY <1>2, <2>1
  <2>3. ~Demoted(list, t, slice, total)
    BY <1>6 DEF Demoted
  <2>4. priority_level'[t] = Level(list, t)
    BY <2>3 DEF Dispatch, l1_mlfq_policy
  <2>5. got_scheduled[t] = 0
    BY <2>3 DEF Dispatch
  <2>6. Good(priority_level[t], idle[t], tick)
    BY <1>6, <2>5 DEF IdleBounded, PolicyState
  <2>7. sched_ticks' = (tick + 1) % SP
    BY DEF Dispatch
  <2>8. CASE tick = 0
    <3>1. Level(list, t) = IF priority_level[t] = TOP_PRIORITY THEN TOP_PRIORITY
                                                              ELSE priority_level[t] + 1
      BY <1>6, <2>5, <2>8 DEF Level, Boosted, mlfq_boost, l1_priority_increase
    <3>2. CASE priority_level[t] = TOP_PRIORITY
      BY <2>4, <3>1, <3>2
    <3>3. CASE priority_level[t] # TOP_PRIORITY
      <4> DEFINE m == priority_level[t]
      <4>1. m \in Nat /\ priority_level'[t] = m + 1
        BY <1>2, <2>4, <3>1, <3>3
      <4>2. idle[t] <= m * SP + (SP - 1)
        BY <2>6, <2>8, <3>3 DEF IdleAt
      <4>3. (m + 1) * SP = m * SP + SP /\ m * SP \in Nat
        BY <1>2, <4>1
      <4>4. IdleAt(sched_ticks') \in Nat
        BY <1>2, <1>3, <1>4
      <4> DEFINE k == m * SP
      <4> HIDE DEF k
      <4>5. idle'[t] <= k + SP + IdleAt(sched_ticks')
        BY <1>2, <2>2, <4>2, <4>3, <4>4 DEF k
      <4> QED BY <4>1, <4>3, <4>5 DEF k
    <3> QED BY <3>2, <3>3
  <2>9. CASE tick # 0
    <3>1. Level(list, t) = priority_level[t]
      BY <2>9 DEF Level, Boosted
    <3>2. IdleAt(sched_ticks') = tick /\ IdleAt(tick) = tick - 1
      <4>1. CASE tick + 1 = SP
        <5>1. (1 * SP + 0) % SP = 0
          BY <1>2, DivMod
        <5>2. 1 * SP + 0 = tick + 1
          BY <1>2, <4>1
        <5> QED BY <1>2, <2>7, <2>9, <4>1, <5>1, <5>2 DEF IdleAt
      <4>2. CASE tick + 1 # SP
        <5>1. tick + 1 \in 0 .. SP - 1
          BY <1>2, <4>2
        <5>2. (0 * SP + (tick + 1)) % SP = tick + 1
          <6> DEFINE r == tick + 1
          <6> HIDE DEF r
          <6>1. r \in 0 .. SP - 1 /\ 0 \in Nat
            BY <5>1 DEF r
          <6>2. (0 * SP + r) % SP = r
            BY <1>2, <6>1, DivMod
          <6> QED BY <6>2 DEF r
        <5>3. 0 * SP + (tick + 1) = tick + 1
          BY <1>2
        <5> QED BY <1>2, <2>7, <2>9, <5>2, <5>3 DEF IdleAt
      <4> QED BY <4>1, <4>2
    <3>3. priority_level'[t] = priority_level[t]
      BY <2>4, <3>1
    <3>4. priority_level[t] * SP \in Nat
      BY <1>2
    <3> DEFINE k == priority_level[t] * SP
    <3> HIDE DEF k
    <3>5. priority_level[t] = TOP_PRIORITY \/ idle[t] <= k + (tick - 1)
      BY <2>6, <3>2 DEF k
    <3>6. priority_level[t] = TOP_PRIORITY \/ idle'[t] <= k + tick
      BY <1>2, <2>2, <3>4, <3>5 DEF k
    <3> QED BY <3>2, <3>3, <3>6 DEF k
  <2> QED BY <2>8, <2>9
<1> QED BY <1>5, <1>6

(* A call of schedule() keeps the invariant when what it is handed is in order. *)
HandedOver(list, target, slice, total) ==
  /\ Arranged(list) /\ Range(list) \subseteq 1 .. created
  /\ target \in {0} \cup Range(list) /\ slice \in Nat
  /\ total \in [PolicyThreads -> Nat]
  /\ select_next = "smallest_cycles" => Within(list, total)
  /\ UNCHANGED <<select_next, created>>
  /\ blocked' \subseteq 1 .. created /\ blocked' \cap Range(list) = {}
  /\ steady' \in [PolicyThreads -> BOOLEAN]
  /\ \A t \in PolicyThreads : steady'[t] => steady[t] /\ t # target /\ t \notin blocked'

LEMMA DispatchKeeps ==
  ASSUME PolicyInv, NEW list, NEW target, NEW slice, NEW total,
         HandedOver(list, target, slice, total), Dispatch(list, target, slice, total)
  PROVE  PolicyInv'
<1> USE DEF HandedOver
<1>1. PolicyState /\ IdleBounded /\ SteadyRun
  BY DEF PolicyInv
<1>2. /\ Line(runnable') /\ runnable' # <<>> /\ runnable'[1] = running'
      /\ Range(runnable') = Range(list) /\ running' \in PolicyThreads
      /\ WaitsInOrder' /\ NotOvertaken'
  BY <1>1, DispatchOrder
<1>3. PolicyState'
  <2>1. /\ priority_level' \in [PolicyThreads -> 0 .. TOP_PRIORITY]
        /\ got_scheduled' \in [PolicyThreads -> Nat]
        /\ total_time' \in [PolicyThreads -> Nat]
        /\ sched_ticks' \in 0 .. SCHED_PERIOD - 1
        /\ since' \in [PolicyThreads -> SUBSET PolicyThreads]
        /\ idle' \in [PolicyThreads -> Nat]
    BY <1>1, <1>2, DispatchTypes
  <2>2. /\ select_next' \in {"round_robin", "smallest_cycles", "mlfq"}
        /\ created' \in PolicyThreads
    BY <1>1 DEF PolicyState
  <2> QED BY <1>2, <2>1, <2>2 DEF PolicyState
<1>4. PolicyLists'
  BY <1>2 DEF PolicyLists
<1>5. SteadyRun'
  BY <1>1 DEF SteadyRun
<1>6. FewestRuns'
  BY <1>1, DispatchShares
<1>7. IdleBounded'
  BY <1>1, DispatchBoosts
<1> QED BY <1>2, <1>3, <1>4, <1>5, <1>6, <1>7 DEF PolicyInv

(* The running thread has the fewest cycles, and one slice more leaves it within one. *)
LEMMA RanWithin ==
  ASSUME PolicyInv, running # 0, select_next = "smallest_cycles", NEW slice \in Durations,
         NEW list, Range(list) \subseteq PolicyThreads,
         \A t \in Range(list) : steady[t] => t \in Range(runnable)
  PROVE  Within(list, Ran(slice))
<1>1. /\ running \in PolicyThreads /\ total_time \in [PolicyThreads -> Nat]
      /\ running \in Range(runnable) /\ slice \in Nat /\ Durations \subseteq Nat
  <2>1. running \in PolicyThreads /\ total_time \in [PolicyThreads -> Nat]
    BY DEF PolicyInv, PolicyState
  <2>2. runnable \in Seq(PolicyThreads) /\ 1 \in 1 .. Len(runnable) /\ running = runnable[1]
    BY DEF PolicyInv, PolicyLists, Line
  <2>3. running \in Range(runnable)
    BY <2>2, RangeIs
  <2> QED BY <2>1, <2>3, PolicyAssumption
<1>2. Within(runnable, total_time) /\ Fewest(running, runnable, total_time)
  BY DEF PolicyInv, FewestRuns
<1>3. \A t \in PolicyThreads :
        Ran(slice)[t] = IF t = running THEN total_time[t] + slice ELSE total_time[t]
  BY <1>1 DEF Ran
<1> SUFFICES ASSUME NEW t \in Range(list), NEW u \in Range(list), steady[t], steady[u]
             PROVE  \E most \in Durations : Ran(slice)[t] <= Ran(slice)[u] + most
  BY DEF Within
<1>4. /\ t \in Range(runnable) /\ u \in Range(runnable) /\ t \in PolicyThreads
      /\ u \in PolicyThreads /\ total_time[t] \in Nat /\ total_time[u] \in Nat
  BY <1>1
<1>5. CASE t = running
  <2>1. total_time[t] <= total_time[u]
    BY <1>2, <1>4, <1>5 DEF Fewest
  <2>2. Ran(slice)[t] <= Ran(slice)[u] + slice
    BY <1>1, <1>3, <1>4, <1>5, <2>1
  <2> QED BY <2>2
<1>6. CASE t # running
  <2>1. PICK most \in Durations : total_time[t] <= total_time[u] + most
    BY <1>2, <1>4 DEF Within
  <2>2. most \in Nat /\ Ran(slice)[t] <= Ran(slice)[u] + most
    BY <1>1, <1>3, <1>4, <1>6, <2>1
  <2> QED BY <2>2
<1> QED BY <1>5, <1>6

(* The steps.  A slice ends in a yield, a join or an exit. *)
LEMMA SliceFacts ==
  ASSUME PolicyInv, NEW slice \in Durations, running # 0
  PROVE  /\ slice \in Nat /\ Ran(slice) \in [PolicyThreads -> Nat]
         /\ running \in PolicyThreads /\ running \in Range(runnable)
         /\ runnable[1] = running /\ runnable # <<>> /\ Line(runnable)
         /\ Range(runnable) \subseteq 1 .. created /\ 1 .. created \subseteq PolicyThreads
         /\ 0 \notin PolicyThreads
<1>1. /\ running \in PolicyThreads /\ total_time \in [PolicyThreads -> Nat]
      /\ created \in PolicyThreads
  BY DEF PolicyInv, PolicyState
<1>2. /\ runnable[1] = running /\ runnable # <<>> /\ Line(runnable)
      /\ Range(runnable) \subseteq 1 .. created
  BY DEF PolicyInv, PolicyLists
<1>3. runnable \in Seq(PolicyThreads) /\ 1 \in 1 .. Len(runnable)
  BY <1>2 DEF Line
<1>4. running \in Range(runnable)
  BY <1>2, <1>3, RangeIs
<1>5. 1 .. created \subseteq PolicyThreads /\ 0 \notin PolicyThreads
  BY <1>1, PolicyAssumption DEF PolicyThreads
<1>6. slice \in Nat /\ Ran(slice) \in [PolicyThreads -> Nat]
  BY <1>1, PolicyAssumption DEF Ran
<1> QED BY <1>1, <1>2, <1>4, <1>5, <1>6

LEMMA YieldKeeps ==
  ASSUME PolicyInv, NEW slice \in Durations, NEW target \in {0} \cup 1 .. created,
         PolicyYield(slice, target)
  PROVE  PolicyInv'
<1> DEFINE list == ToTail(runnable, running)
           to == IF target \in Range(runnable) THEN target ELSE 0
<1>1. running # 0 /\ Dispatch(list, to, slice, Ran(slice)) /\ UNCHANGED <<select_next, blocked, created>>
  BY DEF PolicyYield, Slice
<1>2. /\ Line(list) /\ Range(list) = Range(runnable)
      /\ \A t, u \in Range(runnable) \ {running} :
           Precedes(runnable, t, u) => Precedes(list, t, u)
      /\ \A t \in Range(runnable) \ {running} : Precedes(list, t, running)
  BY <1>1, SliceFacts, TurnedLine
<1>3. steady' = IF target = 0 THEN steady ELSE [steady EXCEPT ![target] = FALSE]
  BY DEF PolicyYield
<1> HIDE DEF list
<1>4. Arranged(list)
  <2>1. list # <<>>
    <3>1. list \in Seq(PolicyThreads) /\ running \in Range(list)
      BY <1>1, <1>2, SliceFacts DEF Line
    <3>2. PICK i \in 1 .. Len(list) : list[i] = running
      BY <3>1, RangeIs
    <3> QED BY <3>1, <3>2
  <2>2. ASSUME NEW t \in PolicyThreads, NEW u \in since[t]
        PROVE  /\ t \in Range(list) /\ t # running /\ u # t
               /\ u \in Range(list) => Precedes(list, t, u)
    <3>1. /\ t \in Range(runnable) /\ t # running /\ u # t
          /\ u \in Range(runnable) /\ u # running => Precedes(runnable, t, u)
      BY DEF PolicyInv, WaitsInOrder
    <3> QED BY <1>2, <3>1
  <2> QED BY <1>2, <2>1, <2>2 DEF Arranged
<1>5. select_next = "smallest_cycles" => Within(list, Ran(slice))
  <2>1. Range(list) \subseteq PolicyThreads
    BY <1>1, <1>2, SliceFacts
  <2> QED BY <1>1, <1>2, <2>1, RanWithin
<1>6. /\ steady' \in [PolicyThreads -> BOOLEAN]
      /\ \A t \in PolicyThreads : steady'[t] => steady[t] /\ t # to /\ t \notin blocked'
  <2>1. steady \in [PolicyThreads -> BOOLEAN] /\ \A t \in PolicyThreads : steady[t] => t \notin blocked
    BY DEF PolicyInv, PolicyState, SteadyRun
  <2>2. 0 \notin PolicyThreads
    BY <1>1, SliceFacts
  <2>3. steady' \in [PolicyThreads -> BOOLEAN]
    BY <1>3, <2>1
  <2>4. \A t \in PolicyThreads : steady'[t] => steady[t] /\ (target # 0 => t # target)
    BY <1>3, <2>1
  <2> QED BY <1>1, <2>1, <2>2, <2>3, <2>4
<1>7. HandedOver(list, to, slice, Ran(slice))
  <2>1. /\ Range(list) \subseteq 1 .. created /\ slice \in Nat
        /\ Ran(slice) \in [PolicyThreads -> Nat] /\ to \in {0} \cup Range(list)
    BY <1>1, <1>2, SliceFacts
  <2>2. blocked' \subseteq 1 .. created /\ blocked' \cap Range(list) = {}
    BY <1>1, <1>2 DEF PolicyInv, PolicyLists
  <2> HIDE DEF to
  <2> QED BY <1>1, <1>4, <1>5, <1>6, <2>1, <2>2 DEF HandedOver
<1> HIDE DEF to
<1> QED BY <1>1, <1>7, DispatchKeeps

(* Without the running thread, and with any joiners behind it, the list is in order. *)
LEMMA TailArranged ==
  ASSUME PolicyInv, running # 0, NEW joiners, Line(joiners),
         Range(joiners) \subseteq blocked, Tail(runnable) \o joiners # <<>>
  PROVE  /\ Arranged(Tail(runnable) \o joiners)
         /\ Range(Tail(runnable) \o joiners) = (Range(runnable) \ {running}) \cup Range(joiners)
<1> DEFINE rest == Tail(runnable)
           list == rest \o joiners
<1>1. /\ Line(runnable) /\ runnable # <<>> /\ runnable[1] = running
      /\ blocked \cap Range(runnable) = {}
  BY DEF PolicyInv, PolicyLists
<1>2. /\ Line(rest) /\ Range(rest) = Range(runnable) \ {running}
      /\ \A t, u \in Range(runnable) \ {running} :
           Precedes(runnable, t, u) => Precedes(rest, t, u)
  BY <1>1, TailedLine
<1> HIDE DEF rest
<1>3. Range(rest) \cap Range(joiners) = {}
  BY <1>1, <1>2
<1>4. /\ Line(list) /\ Range(list) = Range(rest) \cup Range(joiners)
      /\ \A t, u : Precedes(rest, t, u) => Precedes(list, t, u)
      /\ \A t \in Range(rest), u \in Range(joiners) : Precedes(list, t, u)
  BY <1>2, <1>3, JoinedLine
<1>5. list # <<>>
  BY DEF rest
<1> HIDE DEF list
<1>6. ASSUME NEW t \in PolicyThreads, NEW u \in since[t]
      PROVE  /\ t \in Range(list) /\ t # running /\ u # t
             /\ u \in Range(list) => Precedes(list, t, u)
  <2>1. /\ t \in Range(runnable) /\ t # running /\ u # t
        /\ u \in Range(runnable) /\ u # running => Precedes(runnable, t, u)
    BY DEF PolicyInv, WaitsInOrder
  <2> QED BY <1>2, <1>4, <2>1
<1>7. Arranged(list)
  BY <1>4, <1>5, <1>6 DEF Arranged
<1> QED BY <1>2, <1>4, <1>7 DEF list, rest

LEMMA BlockKeeps ==
  ASSUME PolicyInv, NEW slice \in Durations, PolicyBlock(slice)
  PROVE  PolicyInv'
<1> DEFINE list == Tail(runnable)
<1>1. /\ running # 0 /\ Dispatch(list, 0, slice, Ran(slice)) /\ UNCHANGED <<select_next, created>>
      /\ blocked' = blocked \cup {running} /\ list # <<>>
      /\ steady' = [steady EXCEPT ![running] = FALSE]
  BY DEF PolicyBlock, Slice
<1>2. /\ running \in Range(runnable) /\ running \in PolicyThreads /\ slice \in Nat
      /\ Ran(slice) \in [PolicyThreads -> Nat] /\ Range(runnable) \subseteq 1 .. created
      /\ 1 .. created \subseteq PolicyThreads /\ 0 \notin PolicyThreads
      /\ runnable \in Seq(PolicyThreads) /\ runnable # <<>>
  BY <1>1, SliceFacts DEF Line
<1>3. Arranged(list) /\ Range(list) = Range(runnable) \ {running}
  <2>1. Line(<<>>) /\ Range(<<>>) = {}
    BY DEF Line, Range
  <2>2. list \o <<>> = list
    <3>1. list \in Seq(PolicyThreads)
      BY <1>2
    <3> HIDE DEF list
    <3> QED BY <3>1
  <2> HIDE DEF list
  <2>3. Range(<<>>) \subseteq blocked /\ Tail(runnable) \o <<>> # <<>>
    BY <1>1, <2>1, <2>2 DEF list
  <2>4. /\ Arranged(Tail(runnable) \o <<>>)
        /\ Range(Tail(runnable) \o <<>>) = (Range(runnable) \ {running}) \cup Range(<<>>)
    BY <1>1, <2>1, <2>3, TailArranged
  <2> QED BY <2>1, <2>2, <2>4 DEF list
<1> HIDE DEF list
<1>4. HandedOver(list, 0, slice, Ran(slice))
  <2>1. select_next = "smallest_cycles" => Within(list, Ran(slice))
    BY <1>1, <1>2, <1>3, RanWithin
  <2>2. blocked' \subseteq 1 .. created /\ blocked' \cap Range(list) = {}
    BY <1>1, <1>2, <1>3 DEF PolicyInv, PolicyLists
  <2>3. /\ steady \in [PolicyThreads -> BOOLEAN]
        /\ \A t \in PolicyThreads : steady[t] => t \notin blocked
    BY DEF PolicyInv, PolicyState, SteadyRun
  <2>4. /\ steady' \in [PolicyThreads -> BOOLEAN]
        /\ \A t \in PolicyThreads : steady'[t] => steady[t] /\ t # 0 /\ t \notin blocked'
    BY <1>1, <1>2, <2>3
  <2> QED BY <1>1, <1>2, <1>3, <2>1, <2>2, <2>4 DEF HandedOver
<1> QED BY <1>1, <1>4, DispatchKeeps

LEMMA ExitKeeps ==
  ASSUME PolicyInv, NEW slice \in Durations, NEW W \in SUBSET blocked,
         NEW joiners \in SetToSeqs(W), PolicyExit(slice, joiners)
  PROVE  PolicyInv'
<1> DEFINE list == Tail(runnable) \o joiners
<1>1. /\ running # 0 /\ Dispatch(list, 0, slice, Ran(slice))
      /\ UNCHANGED <<select_next, created, steady>>
      /\ Range(joiners) \subseteq blocked /\ list # <<>>
      /\ blocked' = blocked \ Range(joiners)
  BY DEF PolicyExit, Slice
<1>2. /\ running \in Range(runnable) /\ running \in PolicyThreads /\ slice \in Nat
      /\ Ran(slice) \in [PolicyThreads -> Nat] /\ Range(runnable) \subseteq 1 .. created
      /\ 1 .. created \subseteq PolicyThreads /\ 0 \notin PolicyThreads
  BY <1>1, SliceFacts
<1>3. blocked \subseteq 1 .. created /\ blocked \cap Range(runnable) = {}
  BY DEF PolicyInv, PolicyLists
<1>4. Line(joiners)
  BY <1>2, <1>3, JoinersLine
<1>5. Arranged(list) /\ Range(list) = (Range(runnable) \ {running}) \cup Range(joiners)
  BY <1>1, <1>4, TailArranged
<1> HIDE DEF list
<1>6. HandedOver(list, 0, slice, Ran(slice))
  <2>1. /\ steady \in [PolicyThreads -> BOOLEAN]
        /\ \A t \in PolicyThreads : steady[t] => t \notin blocked
    BY DEF PolicyInv, PolicyState, SteadyRun
  <2>2. select_next = "smallest_cycles" => Within(list, Ran(slice))
    <3>1. Range(list) \subseteq PolicyThreads
      BY <1>1, <1>2, <1>3, <1>5
    <3>2. \A t \in Range(list) : steady[t] => t \in Range(runnable)
      BY <1>1, <1>5, <2>1, <3>1
    <3> QED BY <1>1, <3>1, <3>2, RanWithin
  <2>3. /\ Range(list) \subseteq 1 .. created
        /\ blocked' \subseteq 1 .. created /\ blocked' \cap Range(list) = {}
    BY <1>1, <1>2, <1>3, <1>5
  <2>4. /\ steady' \in [PolicyThreads -> BOOLEAN]
        /\ \A t \in PolicyThreads : steady'[t] => steady[t] /\ t # 0 /\ t \notin blocked'
    BY <1>1, <1>2, <2>1
  <2> QED BY <1>1, <1>2, <1>5, <2>2, <2>3, <2>4 DEF HandedOver
<1> QED BY <1>1, <1>6, DispatchKeeps

LEMMA FirstKeeps ==
  ASSUME PolicyInv, FirstSlice
  PROVE  PolicyInv'
<1>1. /\ running = 0 /\ Dispatch(runnable, 0, 0, total_time)
      /\ UNCHANGED <<select_next, blocked, created, steady>>
  BY DEF FirstSlice
<1>2. 0 \notin PolicyThreads
  BY PolicyAssumption DEF PolicyThreads
<1>3. Arranged(runnable)
  <2>1. Line(runnable) /\ runnable # <<>>
    BY DEF PolicyInv, PolicyLists
  <2>2. Range(runnable) \subseteq PolicyThreads
    BY <2>1, RangeIs DEF Line
  <2>3. ASSUME NEW t \in PolicyThreads, NEW u \in since[t]
        PROVE  /\ t \in Range(runnable) /\ t # running /\ u # t
               /\ u \in Range(runnable) => Precedes(runnable, t, u)
    <3>1. /\ t \in Range(runnable) /\ t # running /\ u # t
          /\ u \in Range(runnable) /\ u # running => Precedes(runnable, t, u)
      BY DEF PolicyInv, WaitsInOrder
    <3> QED BY <1>1, <1>2, <2>2, <3>1
  <2> QED BY <2>1, <2>3 DEF Arranged
<1>4. HandedOver(runnable, 0, 0, total_time)
  <2>1. /\ steady \in [PolicyThreads -> BOOLEAN] /\ total_time \in [PolicyThreads -> Nat]
        /\ \A t \in PolicyThreads : steady[t] => t \notin blocked
    BY DEF PolicyInv, PolicyState, SteadyRun
  <2>2. /\ Range(runnable) \subseteq 1 .. created
        /\ blocked \subseteq 1 .. created /\ blocked \cap Range(runnable) = {}
    BY DEF PolicyInv, PolicyLists
  <2>3. select_next = "smallest_cycles" => Within(runnable, total_time)
    BY DEF PolicyInv, FewestRuns
  <2> QED BY <1>1, <1>2, <1>3, <2>1, <2>2, <2>3 DEF HandedOver
<1> QED BY <1>1, <1>4, DispatchKeeps

(* A new thread goes to the end of RUNNABLE, and is not a steady one. *)
LEMMA CreateKeeps ==
  ASSUME PolicyInv, PolicyCreate
  PROVE  PolicyInv'
<1> DEFINE x == created + 1
<1>1. /\ running # 0 /\ x \in PolicyThreads /\ created' = x /\ runnable' = Append(runnable, x)
      /\ UNCHANGED <<select_next, blocked, running, priority_level, got_scheduled,
                     total_time, sched_ticks, since, idle, steady, overtaken>>
  BY DEF PolicyCreate
<1>2. /\ Line(runnable) /\ runnable # <<>> /\ Range(runnable) \subseteq 1 .. created
      /\ blocked \subseteq 1 .. created /\ blocked \cap Range(runnable) = {}
      /\ runnable[1] = running
  BY <1>1 DEF PolicyInv, PolicyLists
<1>3. created \in Nat
  BY PolicyAssumption DEF PolicyInv, PolicyState, PolicyThreads
<1>4. 1 .. x = 1 .. created \cup {x} /\ x \notin 1 .. created
  BY <1>3
<1>5. Line(<<x>>) /\ Range(<<x>>) = {x} /\ Append(runnable, x) = runnable \o <<x>>
  BY <1>1, <1>2, LineOfOne, AppendIsConcat DEF Line
<1> HIDE DEF x
<1>6. /\ Line(runnable') /\ Range(runnable') = Range(runnable) \cup {x}
      /\ \A t, u : Precedes(runnable, t, u) => Precedes(runnable', t, u)
      /\ \A t \in Range(runnable) : Precedes(runnable', t, x)
  <2>1. Range(runnable) \cap Range(<<x>>) = {}
    BY <1>2, <1>4, <1>5
  <2> QED BY <1>1, <1>2, <1>5, <2>1, JoinedLine
<1>7. runnable'[1] = running /\ runnable' # <<>>
  <2>1. runnable \in Seq(PolicyThreads) /\ 1 \in 1 .. Len(runnable)
    BY <1>2 DEF Line
  <2> QED BY <1>1, <1>2, <2>1, AppendProperties
<1>8. PolicyState'
  <2>1. PolicyState
    BY DEF PolicyInv
  <2> QED BY <1>1, <2>1 DEF PolicyState
<1>9. PolicyLists'
  BY <1>1, <1>2, <1>4, <1>6, <1>7 DEF PolicyLists
<1>10. WaitsInOrder'
  <2> SUFFICES ASSUME NEW t \in PolicyThreads, NEW u \in since[t]
               PROVE  /\ t \in Range(runnable') /\ t # running /\ u # t
                      /\ u \in Range(runnable') /\ u # running => Precedes(runnable', t, u)
    BY <1>1 DEF WaitsInOrder
  <2>1. /\ t \in Range(runnable) /\ t # running /\ u # t
        /\ u \in Range(runnable) /\ u # running => Precedes(runnable, t, u)
    BY DEF PolicyInv, WaitsInOrder
  <2> QED BY <1>6, <2>1
<1>11. NotOvertaken'
  BY <1>1 DEF PolicyInv, NotOvertaken
<1>12. SteadyRun'
  <2>1. \A t \in PolicyThreads : steady[t] => t \notin blocked /\ t <= created
    BY DEF PolicyInv, SteadyRun
  <2>2. \A t \in PolicyThreads : t <= created => t <= x
    BY <1>3, PolicyAssumption DEF PolicyThreads, x
  <2> QED BY <1>1, <2>1, <2>2 DEF SteadyRun
<1>13. FewestRuns'
  <2>1. SUFFICES ASSUME select_next = "smallest_cycles"
                 PROVE  Within(runnable', total_time) /\ Fewest(running, runnable', total_time)
    BY <1>1 DEF FewestRuns, Within, Fewest
  <2>2. Within(runnable, total_time) /\ Fewest(running, runnable, total_time)
    BY <1>1, <2>1 DEF PolicyInv, FewestRuns
  <2>3. ~steady[x]
    BY <1>1, <1>3 DEF PolicyInv, SteadyRun, x
  <2>4. \A t \in Range(runnable') : steady[t] => t \in Range(runnable)
    BY <1>6, <2>3
  <2> QED BY <2>2, <2>4 DEF Within, Fewest
<1>14. IdleBounded'
  BY <1>1 DEF PolicyInv, IdleBounded
<1> QED BY <1>8, <1>9, <1>10, <1>11, <1>12, <1>13, <1>14 DEF PolicyInv

LEMMA PolicyBegins ==
  ASSUME NEW policies, policies \subseteq {"round_robin", "smallest_cycles", "mlfq"},
         PolicyInit(policies)
  PROVE  PolicyInv
<1> USE DEF PolicyInit
<1>1. created \in PolicyThreads /\ created \in Nat /\ created >= 1 /\ NThreads \in Nat
  BY PolicyAssumption DEF PolicyThreads
<1>2. 1 .. created \subseteq PolicyThreads /\ 0 \notin PolicyThreads
  BY <1>1 DEF PolicyThreads
<1>3. PolicyState
  <2>1. sched_ticks \in 0 .. SCHED_PERIOD - 1 /\ TOP_PRIORITY \in 0 .. TOP_PRIORITY
    BY PolicyAssumption
  <2>2. \A t \in PolicyThreads : (t <= created) \in BOOLEAN
    OBVIOUS
  <2>3. steady \in [PolicyThreads -> BOOLEAN]
    BY <2>2
  <2> QED BY <2>1, <2>3 DEF PolicyState
<1>4. PolicyLists
  <2>1. runnable \in Seq(PolicyThreads) /\ Len(runnable) = created
    BY <1>1, <1>2
  <2>2. Line(runnable)
    BY <1>1, <2>1 DEF Line
  <2>3. Range(runnable) = 1 .. created
    BY DEF Range
  <2>4. runnable # <<>>
    BY <1>1, <2>1
  <2> QED BY <2>2, <2>3, <2>4 DEF PolicyLists
<1>5. WaitsInOrder
  BY DEF WaitsInOrder
<1>6. NotOvertaken
  BY DEF NotOvertaken
<1>7. SteadyRun
  BY DEF SteadyRun
<1>8. FewestRuns
  <2>1. Range(runnable) \subseteq PolicyThreads
    <3>1. Line(runnable)
      BY <1>4 DEF PolicyLists
    <3>2. runnable \in Seq(PolicyThreads)
      BY <3>1 DEF Line
    <3> QED BY <3>2, RangeIs
  <2>2. PICK most \in Durations : most \in Nat
    BY PolicyAssumption
  <2>3. \A t \in PolicyThreads : total_time[t] = 0
    OBVIOUS
  <2>4. Within(runnable, total_time)
    BY <2>1, <2>2, <2>3 DEF Within
  <2> QED BY <2>4 DEF FewestRuns
<1>9. IdleBounded
  BY DEF IdleBounded
<1> QED BY <1>3, <1>4, <1>5, <1>6, <1>7, <1>8, <1>9 DEF PolicyInv

LEMMA PolicyInvFair ==
  ASSUME PolicyInv
  PROVE  PoliciesFair
<1>1. /\ created \in PolicyThreads /\ 1 .. created \subseteq PolicyThreads
      /\ priority_level \in [PolicyThreads -> 0 .. TOP_PRIORITY]
      /\ idle \in [PolicyThreads -> Nat] /\ sched_ticks \in 0 .. SCHED_PERIOD - 1
  <2>1. created \in PolicyThreads
    BY DEF PolicyInv, PolicyState
  <2>2. 1 .. created \subseteq PolicyThreads
    BY <2>1, PolicyAssumption DEF PolicyThreads
  <2> QED BY <2>1, <2>2 DEF PolicyInv, PolicyState
<1>2. FairShare
  BY DEF PolicyInv, NotOvertaken, FewestRuns, Within, FairShare
<1>3. WaitersBoosted
  <2> SUFFICES ASSUME select_next = "mlfq", NEW t \in 1 .. created, got_scheduled[t] = 0,
                      t # running, priority_level[t] # TOP_PRIORITY
               PROVE  priority_level[t] >= idle[t] \div SCHED_PERIOD
    BY DEF WaitersBoosted
  <2> DEFINE SP == SCHED_PERIOD
             q == idle[t] \div SP
             p == priority_level[t]
  <2>1. SP \in Nat \ {0} /\ idle[t] \in Nat /\ p \in Nat
    BY <1>1, PolicyAssumption
  <2>2. idle[t] <= p * SP + IdleAt(sched_ticks)
    BY <1>1 DEF PolicyInv, IdleBounded
  <2>3. IdleAt(sched_ticks) \in 0 .. SP - 1
    BY <1>1, <2>1 DEF IdleAt
  <2>4. q \in Nat /\ q * SP <= idle[t]
    <3>1. q \in Nat /\ idle[t] % SP \in 0 .. SP - 1 /\ idle[t] = q * SP + (idle[t] % SP)
      BY <2>1, DivModNat
    <3> DEFINE r == idle[t] % SP
               k == q * SP
    <3>2. k \in Nat
      BY <2>1, <3>1
    <3> HIDE DEF r, k, q
    <3>3. idle[t] = k + r /\ r \in Nat
      BY <2>1, <3>1 DEF r, k
    <3>4. k <= idle[t]
      BY <3>2, <3>3
    <3> QED BY <3>1, <3>4 DEF k
  <2> HIDE DEF q, p
  <2>5. q * SP < (p + 1) * SP
    <3> DEFINE k == p * SP
    <3>1. k \in Nat /\ (p + 1) * SP = k + SP /\ q * SP \in Nat
      BY <2>1, <2>4
    <3> QED BY <2>1, <2>2, <2>3, <2>4, <3>1
  <2>6. q < p + 1
    BY <2>1, <2>4, <2>5, FewerBlocks
  <2> QED BY <2>1, <2>4, <2>6 DEF p, q
<1> QED BY <1>2, <1>3 DEF PoliciesFair

(* Every policy shares out the processor, and a waiting thread is boosted. *)
THEOREM PolicyShares ==
  ASSUME NEW policies, policies \subseteq {"round_robin", "smallest_cycles", "mlfq"}
  PROVE  PolicyInit(policies) /\ [][PolicyNext]_policyVars => []PoliciesFair
<1>1. PolicyInit(policies) => PolicyInv
  BY PolicyBegins
<1>2. ASSUME PolicyInv, [PolicyNext]_policyVars PROVE PolicyInv'
  <2>1. CASE UNCHANGED policyVars
    <3>1. /\ UNCHANGED <<select_next, runnable, blocked, created, running, priority_level>>
          /\ UNCHANGED <<got_scheduled, total_time, sched_ticks, since, idle, steady, overtaken>>
      BY <2>1 DEF policyVars
    <3>2. PolicyState' /\ PolicyLists' /\ WaitsInOrder'
      BY <1>2, <3>1 DEF PolicyInv, PolicyState, PolicyLists, WaitsInOrder
    <3>3. NotOvertaken' /\ SteadyRun'
      BY <1>2, <3>1 DEF PolicyInv, NotOvertaken, SteadyRun
    <3>4. FewestRuns'
      BY <1>2, <3>1 DEF PolicyInv, FewestRuns, Within, Fewest
    <3>5. IdleBounded'
      BY <1>2, <3>1 DEF PolicyInv, IdleBounded
    <3> QED BY <3>2, <3>3, <3>4, <3>5 DEF PolicyInv
  <2>2. CASE PolicyCreate
    BY <1>2, <2>2, CreateKeeps
  <2>3. CASE FirstSlice
    BY <1>2, <2>3, FirstKeeps
  <2>4. ASSUME NEW slice \in Durations, NEW target \in {0} \cup 1 .. created,
               PolicyYield(slice, target)
        PROVE  PolicyInv'
    BY <1>2, <2>4, YieldKeeps
  <2>5. ASSUME NEW slice \in Durations, PolicyBlock(slice) PROVE PolicyInv'
    BY <1>2, <2>5, BlockKeeps
  <2>6. ASSUME NEW slice \in Durations, NEW W \in SUBSET blocked,
               NEW joiners \in SetToSeqs(W), PolicyExit(slice, joiners)
        PROVE  PolicyInv'
    BY <1>2, <2>6, ExitKeeps
  <2> QED BY <1>2, <2>1, <2>2, <2>3, <2>4, <2>5, <2>6 DEF PolicyNext
<1>3. PolicyInv => PoliciesFair
  BY PolicyInvFair
<1> QED BY <1>1, <1>2, <1>3, PTL

-----------------------------------------------------------------------------
(* Shell, for any lines and bounds.                                        *)

(* The commands of the history.  NewOf has the places of q where the entry is not a
   repetition, and LaterOf counts those behind a place. *)
IsSequence(q) == \E S : q \in Seq(S)

NewOf(q) == {i \in DOMAIN q : i = 1 \/ q[i] # q[i - 1]}

LaterOf(q, i) == Cardinality({j \in NewOf(q) : j > i})

(* LaterOf numbers the new entries from the latest, 0, to the first. *)
Numbered(q) ==
  /\ IsFiniteSet(NewOf(q))
  /\ \A i \in NewOf(q) : LaterOf(q, i) \in 0 .. Cardinality(NewOf(q)) - 1
  /\ \A i, j \in NewOf(q) : LaterOf(q, i) = LaterOf(q, j) => i = j
  /\ \A k \in 0 .. Cardinality(NewOf(q)) - 1 : \E i \in NewOf(q) : LaterOf(q, i) = k

(* hist has the latest entries of q that are new, at most MAX_CMD_HISTORY. *)
Records(hist, q) ==
  /\ hist # <<>> => q # <<>> /\ Head(hist) = q[Len(q)]
  /\ q # <<>> => hist # <<>>
  /\ Len(hist) = IF Cardinality(NewOf(q)) < MAX_CMD_HISTORY THEN Cardinality(NewOf(q))
                                                            ELSE MAX_CMD_HISTORY
  /\ \A i \in NewOf(q) : LaterOf(q, i) < MAX_CMD_HISTORY => hist[LaterOf(q, i) + 1] = q[i]

HistoryInv ==
  /\ IsSequence(commands) /\ IsSequence(entered)
  /\ Numbered(entered) /\ Records(commands, entered)

LEMMA AppendAny ==
  ASSUME NEW q, IsSequence(q), NEW x
  PROVE  /\ IsSequence(Append(q, x)) /\ Len(q) \in Nat /\ Len(Append(q, x)) = Len(q) + 1
         /\ DOMAIN q = 1 .. Len(q) /\ DOMAIN Append(q, x) = 1 .. Len(q) + 1
         /\ \A i \in 1 .. Len(q) : Append(q, x)[i] = q[i]
         /\ Append(q, x)[Len(q) + 1] = x
<1>1. PICK S : q \in Seq(S)
  BY DEF IsSequence
<1> DEFINE T == S \cup {x}
<1>2. q \in Seq(T) /\ x \in T
  BY <1>1
<1> HIDE DEF T
<1>3. Append(q, x) \in Seq(T) /\ Len(Append(q, x)) = Len(q) + 1
  BY <1>2, AppendProperties
<1> QED BY <1>2, <1>3, AppendProperties DEF IsSequence

(* A new entry is the latest one; a repeated one is not new. *)
LEMMA NewAppended ==
  ASSUME NEW q, IsSequence(q), NEW x
  PROVE  NewOf(Append(q, x)) = IF Len(q) = 0 \/ x # q[Len(q)] THEN NewOf(q) \cup {Len(q) + 1}
                                                             ELSE NewOf(q)
<1> DEFINE n == Len(q)
           r == Append(q, x)
<1>1. /\ n \in Nat /\ DOMAIN q = 1 .. n /\ DOMAIN r = 1 .. n + 1
      /\ \A i \in 1 .. n : r[i] = q[i]
      /\ r[n + 1] = x
  BY AppendAny
<1> HIDE DEF n, r
<1>2. \A i \in 1 .. n : i \in NewOf(r) <=> i \in NewOf(q)
  <2> SUFFICES ASSUME NEW i \in 1 .. n PROVE i \in NewOf(r) <=> i \in NewOf(q)
    OBVIOUS
  <2>1. i # 1 => i - 1 \in 1 .. n
    BY <1>1
  <2>2. i \in 1 .. n + 1
    BY <1>1
  <2> QED BY <1>1, <2>1, <2>2 DEF NewOf
<1>3. n + 1 \in NewOf(r) <=> (n = 0 \/ x # q[n])
  <2>1. n + 1 - 1 = n /\ n + 1 \in 1 .. n + 1 /\ (n + 1 = 1 <=> n = 0) /\ (n # 0 => n \in 1 .. n)
    BY <1>1
  <2> QED BY <1>1, <2>1 DEF NewOf
<1>4. NewOf(q) \subseteq 1 .. n /\ NewOf(r) \subseteq 1 .. n \cup {n + 1} /\ n + 1 \notin 1 .. n
  BY <1>1 DEF NewOf
<1>5. CASE n = 0 \/ x # q[n]
  <2>1. NewOf(r) = NewOf(q) \cup {n + 1}
    BY <1>2, <1>3, <1>4, <1>5
  <2> QED BY <1>5, <2>1 DEF n, r
<1>6. CASE ~(n = 0 \/ x # q[n])
  <2>1. NewOf(r) = NewOf(q)
    BY <1>2, <1>3, <1>4, <1>6
  <2> QED BY <1>6, <2>1 DEF n, r
<1> QED BY <1>5, <1>6

LEMMA NumberedAppended ==
  ASSUME NEW q, IsSequence(q), NEW x, Numbered(q)
  PROVE  LET r == Append(q, x)
             n == Len(q)
         IN  /\ Numbered(r)
             /\ n + 1 \in NewOf(r) =>
                  /\ NewOf(r) = NewOf(q) \cup {n + 1} /\ n + 1 \notin NewOf(q)
                  /\ Cardinality(NewOf(r)) = Cardinality(NewOf(q)) + 1
                  /\ LaterOf(r, n + 1) = 0
                  /\ \A i \in NewOf(q) : LaterOf(r, i) = LaterOf(q, i) + 1
             /\ n + 1 \notin NewOf(r) =>
                  /\ NewOf(r) = NewOf(q)
                  /\ \A i : LaterOf(r, i) = LaterOf(q, i)
<1> DEFINE r == Append(q, x)
           n == Len(q)
<1>1. /\ n \in Nat /\ NewOf(q) \subseteq 1 .. n /\ n + 1 \notin 1 .. n
      /\ NewOf(r) = NewOf(q) \/ NewOf(r) = NewOf(q) \cup {n + 1}
  BY AppendAny, NewAppended DEF NewOf
<1> HIDE DEF r, n
<1>2. CASE n + 1 \notin NewOf(r)
  <2>1. NewOf(r) = NewOf(q)
    BY <1>1, <1>2
  <2>2. \A i : LaterOf(r, i) = LaterOf(q, i)
    BY <2>1 DEF LaterOf
  <2>3. Numbered(r)
    BY <2>1, <2>2 DEF Numbered
  <2> QED BY <1>2, <2>1, <2>2, <2>3 DEF r, n
<1>3. CASE n + 1 \in NewOf(r)
  <2> DEFINE c == Cardinality(NewOf(q))
  <2>1. NewOf(r) = NewOf(q) \cup {n + 1} /\ n + 1 \notin NewOf(q)
    BY <1>1, <1>3
  <2>2. IsFiniteSet(NewOf(q)) /\ c \in Nat
    BY FS_CardinalityType DEF Numbered
  <2>3. IsFiniteSet(NewOf(r)) /\ Cardinality(NewOf(r)) = c + 1
    BY <2>1, <2>2, FS_AddElement
  <2>4. LaterOf(r, n + 1) = 0
    <3>1. {j \in NewOf(r) : j > n + 1} = {}
      BY <1>1, <2>1
    <3> QED BY <3>1, FS_EmptySet DEF LaterOf
  <2>5. ASSUME NEW i \in NewOf(q) PROVE LaterOf(r, i) = LaterOf(q, i) + 1
    <3> DEFINE B == {j \in NewOf(q) : j > i}
    <3>1. {j \in NewOf(r) : j > i} = B \cup {n + 1} /\ n + 1 \notin B
      BY <1>1, <2>1
    <3>2. IsFiniteSet(B)
      BY <2>2, FS_Subset
    <3>3. Cardinality(B \cup {n + 1}) = Cardinality(B) + 1
      BY <3>1, <3>2, FS_AddElement
    <3> QED BY <3>1, <3>3 DEF LaterOf
  <2> HIDE DEF c
  <2>6. /\ \A i \in NewOf(q) : LaterOf(q, i) \in 0 .. c - 1
        /\ \A i, j \in NewOf(q) : LaterOf(q, i) = LaterOf(q, j) => i = j
        /\ \A k \in 0 .. c - 1 : \E i \in NewOf(q) : LaterOf(q, i) = k
    BY DEF Numbered, c
  <2>7. \A i \in NewOf(r) : LaterOf(r, i) \in 0 .. c
    BY <2>1, <2>2, <2>4, <2>5, <2>6
  <2>8. \A i, j \in NewOf(r) : LaterOf(r, i) = LaterOf(r, j) => i = j
    <3>1. \A i \in NewOf(q) : LaterOf(r, i) # 0
      BY <2>2, <2>5, <2>6
    <3>2. \A i, j \in NewOf(q) : LaterOf(r, i) = LaterOf(r, j) => i = j
      BY <2>2, <2>5, <2>6
    <3> QED BY <2>1, <2>4, <3>1, <3>2
  <2>9. ASSUME NEW k \in 0 .. c PROVE \E i \in NewOf(r) : LaterOf(r, i) = k
    <3>1. CASE k = 0
      BY <2>1, <2>4, <3>1
    <3>2. CASE k # 0
      <4> DEFINE m == k - 1
      <4>1. m \in 0 .. c - 1 /\ m + 1 = k
        BY <2>2, <3>2
      <4> HIDE DEF m
      <4>2. PICK i \in NewOf(q) : LaterOf(q, i) = m
        BY <2>6, <4>1
      <4> QED BY <2>1, <2>5, <4>1, <4>2
    <3> QED BY <3>1, <3>2
  <2>10. Cardinality(NewOf(r)) - 1 = c
    BY <2>2, <2>3
  <2>11. Numbered(r)
    BY <2>3, <2>7, <2>8, <2>9, <2>10 DEF Numbered
  <2> QED BY <1>3, <2>1, <2>3, <2>4, <2>5, <2>11 DEF r, n, c
<1> QED BY <1>2, <1>3

(* As many entries are kept as there are numbers for them. *)
LEMMA KeptCount ==
  ASSUME NEW q, Numbered(q)
  PROVE  Cardinality({i \in NewOf(q) : LaterOf(q, i) < MAX_CMD_HISTORY})
           = IF Cardinality(NewOf(q)) < MAX_CMD_HISTORY THEN Cardinality(NewOf(q))
                                                        ELSE MAX_CMD_HISTORY
<1> DEFINE c == Cardinality(NewOf(q))
           m == IF c < MAX_CMD_HISTORY THEN c ELSE MAX_CMD_HISTORY
           K == {i \in NewOf(q) : LaterOf(q, i) < MAX_CMD_HISTORY}
           f == [i \in K |-> LaterOf(q, i)]
<1>1. c \in Nat /\ m \in Nat /\ IsFiniteSet(0 .. m - 1) /\ Cardinality(0 .. m - 1) = m
  <2>1. c \in Nat
    BY FS_CardinalityType DEF Numbered
  <2>2. m \in Nat
    BY <2>1, ShellAssumption
  <2> HIDE DEF m
  <2>3. 0 \in Int /\ m - 1 \in Int
    BY <2>2
  <2>4. IsFiniteSet(0 .. m - 1) /\ Cardinality(0 .. m - 1) = IF 0 > m - 1 THEN 0 ELSE m - 1 - 0 + 1
    BY <2>3, FS_Interval
  <2> QED BY <2>1, <2>2, <2>4
<1>2. /\ \A i \in NewOf(q) : LaterOf(q, i) \in 0 .. c - 1
      /\ \A i, j \in NewOf(q) : LaterOf(q, i) = LaterOf(q, j) => i = j
      /\ \A k \in 0 .. c - 1 : \E i \in NewOf(q) : LaterOf(q, i) = k
  BY DEF Numbered
<1> HIDE DEF c
<1>3. \A i \in K : LaterOf(q, i) \in 0 .. m - 1
  BY <1>1, <1>2, ShellAssumption
<1>4. \A k \in 0 .. m - 1 : \E i \in K : LaterOf(q, i) = k
  BY <1>1, <1>2, ShellAssumption
<1>5. \A i, j \in K : LaterOf(q, i) = LaterOf(q, j) => i = j
  BY <1>2
<1> HIDE DEF m, K
<1>6. f \in Injection(K, 0 .. m - 1)
  BY <1>3, <1>5 DEF Injection, IsInjective
<1>7. f \in Surjection(K, 0 .. m - 1)
  BY <1>3, <1>4 DEF Surjection
<1>8. Cardinality(K) = Cardinality(0 .. m - 1)
  <2> HIDE DEF f
  <2> QED BY <1>1, <1>6, <1>7, FS_Injection
<1> QED BY <1>1, <1>8 DEF m, K, c

LEMMA FrontAny ==
  ASSUME NEW q, IsSequence(q), q # <<>>
  PROVE  /\ IsSequence(Front(q)) /\ Len(q) \in Nat \ {0} /\ Len(Front(q)) = Len(q) - 1
         /\ \A i \in 1 .. Len(q) - 1 : Front(q)[i] = q[i]
<1>1. PICK S : q \in Seq(S)
  BY DEF IsSequence
<1>2. Len(q) \in Nat \ {0}
  BY <1>1
<1> DEFINE n == Len(q) - 1
<1>3. n \in Nat /\ n <= Len(q) /\ Front(q) = SubSeq(q, 1, n)
  BY <1>2 DEF Front
<1>4. \A i \in 1 .. n : q[i] \in S
  BY <1>1, <1>2
<1> HIDE DEF n
<1>5. SubSeq(q, 1, n) \in Seq(S) /\ Len(SubSeq(q, 1, n)) = n
  BY <1>1, <1>3, <1>4
<1>6. \A i \in 1 .. n : SubSeq(q, 1, n)[i] = q[i]
  BY <1>1, <1>3
<1> QED BY <1>2, <1>3, <1>5, <1>6 DEF n, IsSequence

LEMMA PrependAny ==
  ASSUME NEW q, IsSequence(q), NEW x
  PROVE  /\ IsSequence(<<x>> \o q) /\ <<x>> \o q # <<>> /\ Len(q) \in Nat
         /\ Len(<<x>> \o q) = Len(q) + 1 /\ Head(<<x>> \o q) = x
         /\ (<<x>> \o q)[1] = x
         /\ \A k \in 1 .. Len(q) : (<<x>> \o q)[k + 1] = q[k]
<1>1. PICK S : q \in Seq(S)
  BY DEF IsSequence
<1> DEFINE T == S \cup {x}
           p == <<x>>
           r == p \o q
<1>2. q \in Seq(T) /\ p \in Seq(T) /\ Len(p) = 1 /\ p[1] = x /\ Len(q) \in Nat
  BY <1>1
<1> HIDE DEF T, p
<1>3. /\ r \in Seq(T) /\ Len(r) = Len(p) + Len(q)
      /\ \A k \in 1 .. Len(p) : r[k] = p[k]
      /\ \A k \in 1 .. Len(q) : r[Len(p) + k] = q[k]
  BY <1>2, Appended
<1> HIDE DEF r
<1>4. Len(r) = Len(q) + 1 /\ r[1] = x /\ \A k \in 1 .. Len(q) : r[k + 1] = q[k]
  <2>1. \A k \in 1 .. Len(q) : 1 + k = k + 1
    BY <1>2
  <2> QED BY <1>2, <1>3, <2>1
<1>5. r # <<>> /\ Head(r) = r[1]
  BY <1>2, <1>3, <1>4
<1> QED BY <1>2, <1>3, <1>4, <1>5 DEF IsSequence, r, p

LEMMA RecordsPrepended ==
  ASSUME NEW hist, IsSequence(hist), NEW q, IsSequence(q), Numbered(q), Records(hist, q), NEW cmd
  PROVE  IsSequence(prepend_history(hist, cmd)) /\ Records(prepend_history(hist, cmd), Append(q, cmd))
<1> DEFINE n == Len(q)
           c == Cardinality(NewOf(q))
           r == Append(q, cmd)
           M == MAX_CMD_HISTORY
<1>1. /\ IsSequence(r) /\ n \in Nat /\ Len(r) = n + 1 /\ r[n + 1] = cmd /\ r # <<>>
      /\ \A i \in 1 .. n : r[i] = q[i]
      /\ NewOf(q) \subseteq 1 .. n
  <2>1. /\ IsSequence(r) /\ n \in Nat /\ Len(r) = n + 1 /\ r[n + 1] = cmd
        /\ \A i \in 1 .. n : r[i] = q[i]
        /\ DOMAIN q = 1 .. n
    BY AppendAny
  <2> HIDE DEF r, n
  <2>2. Len(<<>>) = 0
    OBVIOUS
  <2>3. r # <<>>
    BY <2>1, <2>2
  <2>4. NewOf(q) \subseteq DOMAIN q
    BY DEF NewOf
  <2> QED BY <2>1, <2>3, <2>4
<1>2. n = 0 <=> q = <<>>
  BY DEF IsSequence
<1>3. /\ Numbered(r)
      /\ n + 1 \in NewOf(r) =>
           /\ NewOf(r) = NewOf(q) \cup {n + 1}
           /\ Cardinality(NewOf(r)) = c + 1
           /\ LaterOf(r, n + 1) = 0
           /\ \A i \in NewOf(q) : LaterOf(r, i) = LaterOf(q, i) + 1
      /\ n + 1 \notin NewOf(r) =>
           NewOf(r) = NewOf(q) /\ \A i : LaterOf(r, i) = LaterOf(q, i)
  BY NumberedAppended
<1>4. n + 1 \in NewOf(r) <=> n = 0 \/ cmd # q[n]
  BY <1>1, NewAppended
<1>5. /\ c \in Nat /\ M \in Nat \ {0}
      /\ \A i \in NewOf(q) : LaterOf(q, i) \in 0 .. c - 1
  BY ShellAssumption, FS_CardinalityType DEF Numbered
<1>6. /\ hist # <<>> => q # <<>> /\ Head(hist) = q[n]
      /\ q # <<>> => hist # <<>>
      /\ Len(hist) = IF c < M THEN c ELSE M
      /\ \A i \in NewOf(q) : LaterOf(q, i) < M => hist[LaterOf(q, i) + 1] = q[i]
  BY DEF Records
<1> HIDE DEF c, r, n, M
<1>7. CASE hist # <<>> /\ Head(hist) = cmd
  <2>1. prepend_history(hist, cmd) = hist
    BY <1>7 DEF prepend_history
  <2>2. n + 1 \notin NewOf(r)
    BY <1>2, <1>4, <1>6, <1>7
  <2>3. Records(hist, r)
    <3>1. Cardinality(NewOf(r)) = c
      BY <1>3, <2>2 DEF c
    <3>2. ASSUME NEW i \in NewOf(r), LaterOf(r, i) < M PROVE hist[LaterOf(r, i) + 1] = r[i]
      BY <1>1, <1>3, <1>6, <2>2, <3>2
    <3>3. hist # <<>> /\ r # <<>> /\ Head(hist) = r[Len(r)]
      BY <1>1, <1>7
    <3> QED BY <1>6, <3>1, <3>2, <3>3 DEF Records, M
  <2> QED BY <2>1, <2>3 DEF r
<1>8. CASE ~(hist # <<>> /\ Head(hist) = cmd)
  <2> DEFINE p == IF Len(hist) = M THEN Front(hist) ELSE hist
             h == <<cmd>> \o p
  <2>1. prepend_history(hist, cmd) = h
    BY <1>8 DEF prepend_history, M
  <2>2. n + 1 \in NewOf(r)
    BY <1>2, <1>4, <1>6, <1>8
  <2>3. /\ IsSequence(p) /\ Len(p) = IF c < M THEN c ELSE M - 1
        /\ \A i \in 1 .. Len(p) : p[i] = hist[i]
    <3>1. CASE Len(hist) = M
      <4>1. hist # <<>>
        BY <1>5, <3>1
      <4> QED BY <1>5, <1>6, <3>1, <4>1, FrontAny, SMTT(30)
    <3>2. CASE Len(hist) # M
      BY <1>5, <1>6, <3>2
    <3> QED BY <3>1, <3>2
  <2> HIDE DEF p
  <2>4. /\ IsSequence(h) /\ h # <<>> /\ Len(p) \in Nat
        /\ Len(h) = Len(p) + 1 /\ Head(h) = cmd /\ h[1] = cmd
        /\ \A k \in 1 .. Len(p) : h[k + 1] = p[k]
    <3>1. IsSequence(p)
      BY <2>3
    <3> QED BY <3>1, PrependAny
  <2> HIDE DEF h
  <2>5. Records(h, r)
    <3>1. Len(h) = IF Cardinality(NewOf(r)) < M THEN Cardinality(NewOf(r)) ELSE M
      BY <1>3, <1>5, <2>2, <2>3, <2>4
    <3>2. ASSUME NEW i \in NewOf(r), LaterOf(r, i) < M PROVE h[LaterOf(r, i) + 1] = r[i]
      <4>1. CASE i = n + 1
        BY <1>1, <1>3, <2>2, <2>4, <4>1
      <4>2. CASE i \in NewOf(q)
        <5> DEFINE l == LaterOf(q, i)
        <5>1. l \in 0 .. c - 1 /\ LaterOf(r, i) = l + 1 /\ l + 1 < M /\ l < M
          BY <1>3, <1>5, <2>2, <3>2, <4>2
        <5>2. hist[l + 1] = q[i] /\ r[i] = q[i]
          BY <1>1, <1>6, <4>2, <5>1
        <5> HIDE DEF l
        <5>3. l + 1 \in 1 .. Len(p)
          BY <1>5, <2>3, <5>1
        <5>4. h[l + 1 + 1] = hist[l + 1]
          BY <2>3, <2>4, <5>3, SMTT(30)
        <5> QED BY <5>1, <5>2, <5>4
      <4> QED BY <1>3, <2>2, <4>1, <4>2
    <3> QED BY <1>1, <2>4, <3>1, <3>2 DEF Records, M
  <2> QED BY <2>1, <2>4, <2>5 DEF r
<1> QED BY <1>7, <1>8

-----------------------------------------------------------------------------
(* The variables.  FirstOf has the assignments of q that are the first of their name. *)
FirstOf(q) == {i \in DOMAIN q : \A j \in 1 .. i - 1 : q[j].name # q[i].name}

RankOf(q, i) == Cardinality({j \in FirstOf(q) : j <= i})

LatestOf(q) == {i \in DOMAIN q : \A j \in i + 1 .. Len(q) : q[j].name # q[i].name}

(* list has a variable for each first assignment of q, with the value of the last one. *)
Keeps(list, q) ==
  /\ IsFiniteSet(FirstOf(q)) /\ Len(list) = Cardinality(FirstOf(q))
  /\ \A i \in FirstOf(q) : RankOf(q, i) \in 1 .. Len(list)
  /\ \A i \in FirstOf(q) : list[RankOf(q, i)].name = q[i].name
  /\ \A i \in DOMAIN q : Named(list, q[i].name) # {}
  /\ \A k \in DOMAIN list : \E i \in DOMAIN q : q[i].name = list[k].name
  /\ \A i \in LatestOf(q) : get_variable(list, q[i].name) = q[i].value

VariablesInv ==
  /\ IsSequence(variables) /\ IsSequence(assigned)
  /\ Keeps(variables, assigned)

(* What an assignment adds to the first and to the last ones of their name. *)
LEMMA FirstAppended ==
  ASSUME NEW q, IsSequence(q), NEW x
  PROVE  LET r == Append(q, x)
             n == Len(q)
         IN  /\ FirstOf(q) \subseteq 1 .. n
             /\ \A i \in 1 .. n : i \in FirstOf(r) <=> i \in FirstOf(q)
             /\ FirstOf(r) \subseteq 1 .. n + 1
             /\ n + 1 \in FirstOf(r) <=> \A j \in 1 .. n : q[j].name # x.name
             /\ LatestOf(r) \subseteq 1 .. n + 1
             /\ \A i \in 1 .. n : i \in LatestOf(r) => i \in LatestOf(q) /\ q[i].name # x.name
<1> DEFINE r == Append(q, x)
           n == Len(q)
<1>1. /\ n \in Nat /\ Len(r) = n + 1 /\ DOMAIN q = 1 .. n /\ DOMAIN r = 1 .. n + 1
      /\ \A i \in 1 .. n : r[i] = q[i]
      /\ r[n + 1] = x
  BY AppendAny
<1> HIDE DEF r, n
<1>2. FirstOf(q) \subseteq 1 .. n /\ FirstOf(r) \subseteq 1 .. n + 1 /\ LatestOf(r) \subseteq 1 .. n + 1
  BY <1>1 DEF FirstOf, LatestOf
<1>3. \A i \in 1 .. n : i \in FirstOf(r) <=> i \in FirstOf(q)
  <2> SUFFICES ASSUME NEW i \in 1 .. n PROVE i \in FirstOf(r) <=> i \in FirstOf(q)
    OBVIOUS
  <2>1. i \in 1 .. n + 1 /\ \A j \in 1 .. i - 1 : j \in 1 .. n
    BY <1>1
  <2> QED BY <1>1, <2>1 DEF FirstOf
<1>4. n + 1 \in FirstOf(r) <=> \A j \in 1 .. n : q[j].name # x.name
  <2>1. n + 1 \in 1 .. n + 1 /\ n + 1 - 1 = n
    BY <1>1
  <2> QED BY <1>1, <2>1 DEF FirstOf
<1>5. ASSUME NEW i \in 1 .. n, i \in LatestOf(r) PROVE i \in LatestOf(q) /\ q[i].name # x.name
  <2>1. \A j \in i + 1 .. n + 1 : r[j].name # r[i].name
    BY <1>1, <1>5 DEF LatestOf
  <2>2. n + 1 \in i + 1 .. n + 1 /\ \A j \in i + 1 .. n : j \in i + 1 .. n + 1 /\ j \in 1 .. n
    BY <1>1
  <2>3. \A j \in i + 1 .. n : q[j].name # q[i].name
    BY <1>1, <2>1, <2>2
  <2>4. q[i].name # x.name
    BY <1>1, <2>1, <2>2
  <2> QED BY <1>1, <2>3, <2>4 DEF LatestOf, n
<1> QED BY <1>2, <1>3, <1>4, <1>5 DEF r, n

LEMMA RankAppended ==
  ASSUME NEW q, IsSequence(q), NEW x, IsFiniteSet(FirstOf(q))
  PROVE  LET r == Append(q, x)
             n == Len(q)
         IN  /\ \A i \in 1 .. n : RankOf(r, i) = RankOf(q, i)
             /\ n + 1 \notin FirstOf(r) => FirstOf(r) = FirstOf(q)
             /\ n + 1 \in FirstOf(r) =>
                  /\ IsFiniteSet(FirstOf(r))
                  /\ FirstOf(r) = FirstOf(q) \cup {n + 1}
                  /\ Cardinality(FirstOf(r)) = Cardinality(FirstOf(q)) + 1
                  /\ RankOf(r, n + 1) = Cardinality(FirstOf(q)) + 1
<1> DEFINE r == Append(q, x)
           n == Len(q)
<1>1. /\ n \in Nat /\ FirstOf(q) \subseteq 1 .. n
      /\ \A i \in 1 .. n : i \in FirstOf(r) <=> i \in FirstOf(q)
      /\ FirstOf(r) \subseteq 1 .. n + 1
  BY AppendAny, FirstAppended
<1> HIDE DEF r, n
<1>2. \A j \in 1 .. n + 1 : j \in 1 .. n \/ j = n + 1
  BY <1>1
<1>3. n + 1 \notin 1 .. n
  BY <1>1
<1>4. ASSUME NEW i \in 1 .. n PROVE RankOf(r, i) = RankOf(q, i)
  <2>1. ~(n + 1 <= i)
    BY <1>1
  <2>2. {j \in FirstOf(r) : j <= i} = {j \in FirstOf(q) : j <= i}
    BY <1>1, <1>2, <2>1
  <2> QED BY <2>2 DEF RankOf
<1>5. n + 1 \notin FirstOf(r) => FirstOf(r) = FirstOf(q)
  BY <1>1, <1>2
<1>6. ASSUME n + 1 \in FirstOf(r)
      PROVE  /\ IsFiniteSet(FirstOf(r)) /\ FirstOf(r) = FirstOf(q) \cup {n + 1}
             /\ Cardinality(FirstOf(r)) = Cardinality(FirstOf(q)) + 1
             /\ RankOf(r, n + 1) = Cardinality(FirstOf(q)) + 1
  <2>1. FirstOf(r) = FirstOf(q) \cup {n + 1} /\ n + 1 \notin FirstOf(q)
    BY <1>1, <1>2, <1>3, <1>6
  <2>2. IsFiniteSet(FirstOf(r)) /\ Cardinality(FirstOf(r)) = Cardinality(FirstOf(q)) + 1
    BY <2>1, FS_AddElement
  <2>3. \A j \in 1 .. n + 1 : j <= n + 1
    BY <1>1
  <2>4. {j \in FirstOf(r) : j <= n + 1} = FirstOf(r)
    BY <1>1, <2>3
  <2> QED BY <2>1, <2>2, <2>4 DEF RankOf
<1> QED BY <1>4, <1>5, <1>6 DEF r, n

(* put_variable changes the value of the variables of a name, if there are some. *)
LEMMA ValueReplaced ==
  ASSUME NEW list, IsSequence(list), NEW name, NEW value, Named(list, name) # {}
  PROVE  LET new == put_variable(list, name, value)
         IN  /\ IsSequence(new) /\ Len(new) = Len(list) /\ DOMAIN new = DOMAIN list
             /\ \A k \in DOMAIN list : new[k].name = list[k].name
             /\ \A m : Named(new, m) = Named(list, m)
             /\ get_variable(new, name) = value
             /\ \A m : m # name /\ Named(list, m) # {} => get_variable(new, m) = get_variable(list, m)
<1> DEFINE node == [name |-> name, value |-> value]
           new == put_variable(list, name, value)
<1>1. new = [i \in DOMAIN list |-> IF i \in Named(list, name) THEN node ELSE list[i]]
  BY DEF put_variable
<1>2. PICK S : list \in Seq(S)
  BY DEF IsSequence
<1> DEFINE T == S \cup {node}
<1>3. Len(list) \in Nat /\ DOMAIN list = 1 .. Len(list) /\ \A i \in DOMAIN list : list[i] \in T
  BY <1>2
<1>4. node.name = name /\ node.value = value /\ node \in T
  OBVIOUS
<1> HIDE DEF node, T, new
<1>5. new \in [1 .. Len(list) -> T]
  BY <1>1, <1>3, <1>4
<1>6. new \in Seq(T) /\ Len(new) = Len(list) /\ DOMAIN new = DOMAIN list
  BY <1>3, <1>5
<1>7. \A k \in DOMAIN list : k \in Named(list, name) => new[k] = node /\ list[k].name = name
  BY <1>1 DEF Named
<1>8. \A k \in DOMAIN list : k \notin Named(list, name) => new[k] = list[k]
  BY <1>1
<1>9. \A k \in DOMAIN list : new[k].name = list[k].name
  BY <1>4, <1>7, <1>8
<1>10. ASSUME NEW m PROVE Named(new, m) = Named(list, m)
  BY <1>6, <1>9 DEF Named
<1>11. get_variable(new, name) = value
  <2> DEFINE k == CHOOSE i \in Named(list, name) : TRUE
  <2>1. k \in Named(list, name) /\ k \in DOMAIN list
    BY DEF Named
  <2>2. get_variable(new, name) = new[k].value
    BY <1>10 DEF get_variable
  <2> HIDE DEF k
  <2> QED BY <1>4, <1>7, <2>1, <2>2
<1>12. ASSUME NEW m, m # name, Named(list, m) # {}
       PROVE  get_variable(new, m) = get_variable(list, m)
  <2> DEFINE k == CHOOSE i \in Named(list, m) : TRUE
  <2>1. k \in Named(list, m)
    BY <1>12
  <2>2. get_variable(new, m) = new[k].value /\ get_variable(list, m) = list[k].value
    BY <1>10 DEF get_variable
  <2> HIDE DEF k
  <2>3. k \in DOMAIN list /\ k \notin Named(list, name)
    BY <1>12, <2>1 DEF Named
  <2> QED BY <1>8, <2>2, <2>3
<1> QED BY <1>6, <1>9, <1>10, <1>11, <1>12 DEF new, IsSequence

LEMMA VariableAdded ==
  ASSUME NEW list, IsSequence(list), NEW name, NEW value, Named(list, name) = {}
  PROVE  LET new == put_variable(list, name, value)
         IN  /\ IsSequence(new) /\ Len(list) \in Nat /\ Len(new) = Len(list) + 1
             /\ DOMAIN list = 1 .. Len(list) /\ DOMAIN new = 1 .. Len(list) + 1
             /\ \A k \in DOMAIN list : new[k] = list[k]
             /\ new[Len(list) + 1].name = name
             /\ Named(new, name) = {Len(list) + 1}
             /\ \A m : m # name => Named(new, m) = Named(list, m)
             /\ get_variable(new, name) = value
             /\ \A m : m # name /\ Named(list, m) # {} => get_variable(new, m) = get_variable(list, m)
<1> DEFINE node == [name |-> name, value |-> value]
           new == put_variable(list, name, value)
           n == Len(list)
<1>1. new = Append(list, node)
  BY DEF put_variable
<1>2. node.name = name /\ node.value = value
  OBVIOUS
<1> HIDE DEF node
<1>3. /\ IsSequence(new) /\ n \in Nat /\ Len(new) = n + 1
      /\ DOMAIN list = 1 .. n /\ DOMAIN new = 1 .. n + 1
      /\ \A i \in 1 .. n : new[i] = list[i]
      /\ new[n + 1] = node
  BY <1>1, AppendAny
<1> HIDE DEF new, n
<1>4. 1 .. n + 1 = 1 .. n \cup {n + 1} /\ n + 1 \notin 1 .. n
  BY <1>3
<1>5. Named(new, name) = {n + 1}
  BY <1>2, <1>3, <1>4 DEF Named
<1>6. ASSUME NEW m, m # name PROVE Named(new, m) = Named(list, m)
  BY <1>2, <1>3, <1>4, <1>6 DEF Named
<1>7. get_variable(new, name) = value
  BY <1>2, <1>3, <1>5 DEF get_variable
<1>8. ASSUME NEW m, m # name, Named(list, m) # {}
      PROVE  get_variable(new, m) = get_variable(list, m)
  <2> DEFINE k == CHOOSE i \in Named(list, m) : TRUE
  <2>1. k \in Named(list, m)
    BY <1>8
  <2>2. get_variable(new, m) = new[k].value /\ get_variable(list, m) = list[k].value
    BY <1>6, <1>8 DEF get_variable
  <2> HIDE DEF k
  <2>3. k \in DOMAIN list
    BY <2>1 DEF Named
  <2> QED BY <1>3, <2>2, <2>3
<1> QED BY <1>2, <1>3, <1>5, <1>6, <1>7, <1>8 DEF new, n

LEMMA KeepsAssigned ==
  ASSUME NEW list, IsSequence(list), NEW q, IsSequence(q), Keeps(list, q), NEW name, NEW value
  PROVE  LET new == put_variable(list, name, value)
             r == Append(q, [name |-> name, value |-> value])
         IN  IsSequence(new) /\ Keeps(new, r)
<1> DEFINE x == [name |-> name, value |-> value]
           new == put_variable(list, name, value)
           r == Append(q, x)
           n == Len(q)
<1>1. x.name = name /\ x.value = value
  OBVIOUS
<1> HIDE DEF x
<1>2. /\ n \in Nat /\ DOMAIN q = 1 .. n /\ DOMAIN r = 1 .. n + 1
      /\ \A i \in 1 .. n : r[i] = q[i]
      /\ r[n + 1] = x
  BY AppendAny
<1>3. /\ FirstOf(q) \subseteq 1 .. n
      /\ n + 1 \in FirstOf(r) <=> \A j \in 1 .. n : q[j].name # x.name
      /\ LatestOf(r) \subseteq 1 .. n + 1
      /\ \A i \in 1 .. n : i \in LatestOf(r) => i \in LatestOf(q) /\ q[i].name # x.name
  BY FirstAppended
<1>4. /\ IsFiniteSet(FirstOf(q)) /\ Len(list) = Cardinality(FirstOf(q))
      /\ \A i \in FirstOf(q) : RankOf(q, i) \in 1 .. Len(list)
      /\ \A i \in FirstOf(q) : list[RankOf(q, i)].name = q[i].name
      /\ \A i \in DOMAIN q : Named(list, q[i].name) # {}
      /\ \A k \in DOMAIN list : \E i \in DOMAIN q : q[i].name = list[k].name
      /\ \A i \in LatestOf(q) : get_variable(list, q[i].name) = q[i].value
  BY DEF Keeps
<1>5. /\ \A i \in 1 .. n : RankOf(r, i) = RankOf(q, i)
      /\ n + 1 \notin FirstOf(r) => FirstOf(r) = FirstOf(q)
      /\ n + 1 \in FirstOf(r) =>
           /\ IsFiniteSet(FirstOf(r)) /\ FirstOf(r) = FirstOf(q) \cup {n + 1}
           /\ Cardinality(FirstOf(r)) = Cardinality(FirstOf(q)) + 1
           /\ RankOf(r, n + 1) = Cardinality(FirstOf(q)) + 1
  BY <1>4, RankAppended
<1>6. DOMAIN list = 1 .. Len(list) /\ Len(list) \in Nat
  BY DEF IsSequence
<1> HIDE DEF new, r, n
<1>7. 1 .. n + 1 = 1 .. n \cup {n + 1}
  BY <1>2
<1>8. CASE Named(list, name) # {}
  <2>1. /\ IsSequence(new) /\ Len(new) = Len(list) /\ DOMAIN new = DOMAIN list
        /\ \A k \in DOMAIN list : new[k].name = list[k].name
        /\ \A m : Named(new, m) = Named(list, m)
        /\ get_variable(new, name) = value
        /\ \A m : m # name /\ Named(list, m) # {} => get_variable(new, m) = get_variable(list, m)
    BY <1>8, ValueReplaced DEF new
  <2>2. FirstOf(r) = FirstOf(q)
    <3>1. PICK k \in DOMAIN list : list[k].name = name
      BY <1>8 DEF Named
    <3>2. PICK i \in 1 .. n : q[i].name = name
      BY <1>2, <1>4, <3>1
    <3>3. n + 1 \notin FirstOf(r)
      BY <1>1, <1>3, <3>2
    <3> QED BY <1>5, <3>3
  <2>3. \A i \in FirstOf(r) : RankOf(r, i) \in 1 .. Len(new)
    BY <1>3, <1>4, <1>5, <2>1, <2>2
  <2>4. \A i \in FirstOf(r) : new[RankOf(r, i)].name = r[i].name
    BY <1>2, <1>3, <1>4, <1>5, <1>6, <2>1, <2>2
  <2>5. \A i \in DOMAIN r : Named(new, r[i].name) # {}
    BY <1>1, <1>2, <1>4, <1>7, <1>8, <2>1
  <2>6. \A k \in DOMAIN new : \E i \in DOMAIN r : r[i].name = new[k].name
    BY <1>2, <1>4, <1>7, <2>1
  <2>7. \A i \in LatestOf(r) : get_variable(new, r[i].name) = r[i].value
    BY <1>1, <1>2, <1>3, <1>4, <1>7, <2>1
  <2>8. Keeps(new, r)
    BY <1>4, <2>1, <2>2, <2>3, <2>4, <2>5, <2>6, <2>7 DEF Keeps
  <2> QED BY <2>1, <2>8 DEF new, r, x
<1>9. CASE Named(list, name) = {}
  <2>1. /\ IsSequence(new) /\ Len(new) = Len(list) + 1
        /\ DOMAIN new = 1 .. Len(list) + 1
        /\ \A k \in DOMAIN list : new[k] = list[k]
        /\ new[Len(list) + 1].name = name
        /\ Named(new, name) = {Len(list) + 1}
        /\ \A m : m # name => Named(new, m) = Named(list, m)
        /\ get_variable(new, name) = value
        /\ \A m : m # name /\ Named(list, m) # {} => get_variable(new, m) = get_variable(list, m)
    BY <1>9, VariableAdded DEF new
  <2>2. n + 1 \in FirstOf(r)
    BY <1>1, <1>2, <1>3, <1>4, <1>9
  <2>3. 1 .. Len(list) + 1 = 1 .. Len(list) \cup {Len(list) + 1}
    BY <1>6
  <2>4. \A i \in FirstOf(r) : RankOf(r, i) \in 1 .. Len(new)
    BY <1>3, <1>4, <1>5, <2>1, <2>2, <2>3
  <2>5. \A i \in FirstOf(r) : new[RankOf(r, i)].name = r[i].name
    <3>1. \A i \in FirstOf(q) : new[RankOf(r, i)].name = r[i].name
      BY <1>2, <1>3, <1>4, <1>5, <1>6, <2>1
    <3>2. new[RankOf(r, n + 1)].name = r[n + 1].name
      BY <1>1, <1>2, <1>4, <1>5, <2>1, <2>2
    <3> QED BY <1>5, <2>2, <3>1, <3>2
  <2>6. \A i \in DOMAIN r : Named(new, r[i].name) # {}
    <3>1. \A i \in 1 .. n : Named(new, q[i].name) # {}
      BY <1>2, <1>4, <1>9, <2>1
    <3>2. Named(new, r[n + 1].name) # {}
      BY <1>1, <1>2, <2>1
    <3> QED BY <1>2, <1>7, <3>1, <3>2
  <2>7. \A k \in DOMAIN new : \E i \in DOMAIN r : r[i].name = new[k].name
    <3>1. \A k \in DOMAIN list : \E i \in DOMAIN r : r[i].name = new[k].name
      BY <1>2, <1>4, <1>7, <2>1
    <3>2. r[n + 1].name = new[Len(list) + 1].name /\ n + 1 \in DOMAIN r
      BY <1>1, <1>2, <1>7, <2>1
    <3> QED BY <1>6, <2>1, <2>3, <3>1, <3>2
  <2>8. ASSUME NEW i \in LatestOf(r) PROVE get_variable(new, r[i].name) = r[i].value
    <3>1. CASE i \in 1 .. n
      <4>1. i \in LatestOf(q) /\ q[i].name # name /\ Named(list, q[i].name) # {} /\ r[i] = q[i]
        BY <1>1, <1>2, <1>3, <1>4, <3>1
      <4>2. get_variable(new, q[i].name) = get_variable(list, q[i].name)
        BY <2>1, <4>1
      <4> QED BY <1>4, <4>1, <4>2
    <3>2. CASE i = n + 1
      BY <1>1, <1>2, <2>1, <3>2
    <3> QED BY <1>3, <1>7, <3>1, <3>2
  <2>9. Len(new) = Cardinality(FirstOf(r)) /\ IsFiniteSet(FirstOf(r))
    BY <1>4, <1>5, <2>1, <2>2
  <2>10. Keeps(new, r)
    BY <2>4, <2>5, <2>6, <2>7, <2>8, <2>9 DEF Keeps
  <2> QED BY <2>1, <2>10 DEF new, r, x
<1> QED BY <1>8, <1>9

LEMMA EmptyRecords ==
  IsSequence(<<>>) /\ Numbered(<<>>) /\ Records(<<>>, <<>>) /\ Keeps(<<>>, <<>>)
<1>1. IsSequence(<<>>) /\ DOMAIN <<>> = {} /\ Len(<<>>) = 0
  BY DEF IsSequence
<1>2. NewOf(<<>>) = {} /\ FirstOf(<<>>) = {} /\ LatestOf(<<>>) = {}
  BY <1>1 DEF NewOf, FirstOf, LatestOf
<1>3. IsFiniteSet({}) /\ Cardinality({}) = 0
  BY FS_EmptySet
<1>4. Numbered(<<>>)
  <2>1. 0 .. Cardinality(NewOf(<<>>)) - 1 = {}
    BY <1>2, <1>3, SMTT(30)
  <2> QED BY <1>2, <1>3, <2>1 DEF Numbered
<1>5. Records(<<>>, <<>>)
  <2>1. 0 = IF 0 < MAX_CMD_HISTORY THEN 0 ELSE MAX_CMD_HISTORY
    BY ShellAssumption
  <2> QED BY <1>1, <1>2, <1>3, <2>1 DEF Records
<1>6. Keeps(<<>>, <<>>)
  BY <1>1, <1>2, <1>3 DEF Keeps
<1> QED BY <1>1, <1>4, <1>5, <1>6

LEMMA ShellInvStep ==
  ASSUME HistoryInv, VariablesInv, [ShellNext]_shellVars
  PROVE  HistoryInv' /\ VariablesInv'
<1>1. ASSUME NEW line \in Lines, ReadLine(line) PROVE HistoryInv' /\ VariablesInv'
  <2> DEFINE cmd == Expanded(line).cmd
             name == Head(cmd).name
             value == ValueOf(cmd)
  <2>1. /\ commands' = prepend_history(commands, cmd) /\ entered' = Append(entered, cmd)
        /\ IF Assigns(cmd)
             THEN /\ variables' = put_variable(variables, name, value)
                  /\ assigned' = Append(assigned, [name |-> name, value |-> value])
             ELSE UNCHANGED <<variables, assigned>>
    BY <1>1 DEF ReadLine
  <2> HIDE DEF cmd, name, value
  <2>2. HistoryInv'
    <3>1. /\ IsSequence(commands) /\ IsSequence(entered)
          /\ Numbered(entered) /\ Records(commands, entered)
      BY DEF HistoryInv
    <3>2. IsSequence(commands') /\ Records(commands', entered')
      BY <2>1, <3>1, RecordsPrepended
    <3>3. IsSequence(entered') /\ Numbered(entered')
      BY <2>1, <3>1, AppendAny, NumberedAppended
    <3> QED BY <3>2, <3>3 DEF HistoryInv
  <2>3. VariablesInv'
    <3>1. IsSequence(variables) /\ IsSequence(assigned) /\ Keeps(variables, assigned)
      BY DEF VariablesInv
    <3>2. CASE Assigns(cmd)
      <4>1. IsSequence(variables') /\ Keeps(variables', assigned')
        BY <2>1, <3>1, <3>2, KeepsAssigned
      <4>2. IsSequence(assigned')
        <5> DEFINE x == [name |-> name, value |-> value]
        <5>1. assigned' = Append(assigned, x)
          BY <2>1, <3>2
        <5> HIDE DEF x
        <5> QED BY <3>1, <5>1, AppendAny
      <4> QED BY <4>1, <4>2 DEF VariablesInv
    <3>3. CASE ~Assigns(cmd)
      BY <2>1, <3>1, <3>3 DEF VariablesInv
    <3> QED BY <3>2, <3>3
  <2> QED BY <2>2, <2>3
<1>2. CASE UNCHANGED <<commands, variables, entered, assigned>>
  BY <1>2 DEF HistoryInv, VariablesInv
<1>3. ASSUME NEW line \in Lines, SkipLine(line) \/ Overflows(line)
      PROVE  UNCHANGED <<commands, variables, entered, assigned>>
  BY <1>3 DEF SkipLine, Overflows, memory
<1> QED BY <1>1, <1>2, <1>3 DEF ShellNext, EndOfFile, shellVars, memory

LEMMA ShellInvRemembers ==
  ASSUME HistoryInv, VariablesInv
  PROVE  ShellRemembers
<1>1. HistoryRecent
  <2> DEFINE Kept == {i \in NewOf(entered) : LaterOf(entered, i) < MAX_CMD_HISTORY}
  <2>1. Numbered(entered) /\ Records(commands, entered)
    BY DEF HistoryInv
  <2>2. Len(commands) = Cardinality(Kept)
    BY <2>1, KeptCount DEF Records
  <2>3. \A i \in Kept : commands[LaterOf(entered, i) + 1] = entered[i]
    BY <2>1 DEF Records
  <2> QED BY <2>2, <2>3 DEF HistoryRecent, NewOf, LaterOf
<1>2. VariablesKept
  <2> DEFINE list == variables
             q == assigned
  <2>1. /\ Len(list) = Cardinality(FirstOf(q))
        /\ \A i \in FirstOf(q) : list[RankOf(q, i)].name = q[i].name
        /\ \A i \in LatestOf(q) : get_variable(list, q[i].name) = q[i].value
    BY DEF VariablesInv, Keeps
  <2>2. DOMAIN q = 1 .. Len(q) /\ Len(q) \in Nat
    BY DEF VariablesInv, IsSequence
  <2> DEFINE First(i) == \A j \in 1 .. i - 1 : assigned[j].name # assigned[i].name
  <2>3. \A i \in DOMAIN q : {j \in 1 .. i : First(j)} = {j \in FirstOf(q) : j <= i}
    BY <2>2 DEF FirstOf
  <2>4. \A i \in DOMAIN q : RankOf(q, i) = Cardinality({j \in 1 .. i : First(j)})
    BY <2>3 DEF RankOf
  <2> QED BY <2>1, <2>4 DEF VariablesKept, FirstOf, LatestOf
<1> QED BY <1>1, <1>2 DEF ShellRemembers

(* Until the program ends, as it also does at a line that overflows the    *)
(* buffer, the history has the latest commands, and every variable its     *)
(* last value, for any lines (borsh.c:41-128, 341-390).                    *)
THEOREM ShellKeeps == ShellSpec => []ShellRemembers
<1>1. ShellInit => HistoryInv /\ VariablesInv
  BY EmptyRecords DEF ShellInit, HistoryInv, VariablesInv
<1>2. HistoryInv /\ VariablesInv /\ [ShellNext]_shellVars => HistoryInv' /\ VariablesInv'
  BY ShellInvStep
<1>3. HistoryInv /\ VariablesInv => ShellRemembers
  BY ShellInvRemembers
<1> QED BY <1>1, <1>2, <1>3, PTL DEF ShellSpec

-----------------------------------------------------------------------------
(* ForkTree: the order of the forks, for every tree and number of threads. *)

(* A path is a sequence of zeros and ones. *)
Ways == Seq({0, 1})

LEMMA Halves ==
  ASSUME NEW k \in Nat
  PROVE  /\ (2 * k + 1 - 1) \div 2 = k /\ (2 * k + 1) % 2 = 1
         /\ (2 * k + 2 - 1) \div 2 = k /\ (2 * k + 2) % 2 = 0
OBVIOUS

LEMMA HalfLess ==
  ASSUME NEW i \in Nat, i # 0
  PROVE  /\ (i - 1) \div 2 \in Nat /\ (i - 1) \div 2 < i /\ 1 - (i % 2) \in {0, 1}
         /\ i = 2 * ((i - 1) \div 2) + 1 \/ i = 2 * ((i - 1) \div 2) + 2
OBVIOUS

(* Path is defined: it is a function up to each node, and these agree. *)
PathStep(f, i) == IF i = 0 THEN <<>> ELSE Append(f[(i - 1) \div 2], 1 - (i % 2))

PathTo(f, n) == f \in [0 .. n -> Ways] /\ \A i \in 0 .. n : f[i] = PathStep(f, i)

LEMMA PathsAgree ==
  ASSUME NEW n \in Nat, NEW f, PathTo(f, n), NEW m \in Nat, NEW g, PathTo(g, m),
         NEW i \in Nat, i <= n, i <= m
  PROVE  f[i] = g[i]
<1> DEFINE T == {j \in Nat : j <= n /\ j <= m /\ f[j] # g[j]}
<1> SUFFICES ASSUME T # {} PROVE FALSE
  OBVIOUS
<1>1. PICK k \in T : \A j \in T : k <= j
  BY LeastNumber
<1>2. k \in 0 .. n /\ k \in 0 .. m /\ f[k] = PathStep(f, k) /\ g[k] = PathStep(g, k)
  BY <1>1 DEF PathTo
<1>3. k # 0
  BY <1>1, <1>2 DEF PathStep
<1> DEFINE h == (k - 1) \div 2
<1>4. h \in Nat /\ h < k
  BY <1>1, <1>3, HalfLess
<1>5. f[h] = g[h]
  <2> HIDE DEF h
  <2> QED BY <1>1, <1>4
<1>6. f[k] = Append(f[h], 1 - (k % 2)) /\ g[k] = Append(g[h], 1 - (k % 2))
  BY <1>2, <1>3 DEF PathStep
<1> QED BY <1>1, <1>5, <1>6

LEMMA PathsExist ==
  ASSUME NEW n \in Nat
  PROVE  \E f : PathTo(f, n)
<1> DEFINE T == {j \in Nat : \E f : PathTo(f, j)}
<1>1. 0 \in T
  <2> DEFINE f == [i \in 0 .. 0 |-> <<>>]
  <2>1. <<>> \in Ways /\ 0 .. 0 = {0}
    BY DEF Ways
  <2>2. PathTo(f, 0)
    BY <2>1 DEF PathTo, PathStep
  <2> HIDE DEF f
  <2> QED BY <2>2
<1>2. ASSUME NEW j \in Nat, j \in T PROVE j + 1 \in T
  <2>1. PICK f : PathTo(f, j)
    BY <1>2
  <2> DEFINE k == j + 1
             h == (k - 1) \div 2
             b == 1 - (k % 2)
             g == [i \in 0 .. k |-> IF i = k THEN Append(f[h], b) ELSE f[i]]
  <2>2. k \in Nat /\ k # 0 /\ \A i \in 0 .. k : i = k \/ i \in 0 .. j
    OBVIOUS
  <2>3. h \in Nat /\ h < k /\ b \in {0, 1}
    BY <2>2, HalfLess
  <2>4. h \in 0 .. j /\ h \in 0 .. k /\ h # k
    <3> HIDE DEF h
    <3> QED BY <2>2, <2>3
  <2>5. f \in [0 .. j -> Ways] /\ \A i \in 0 .. j : f[i] = PathStep(f, i)
    BY <2>1 DEF PathTo
  <2> HIDE DEF h, b
  <2>6. Append(f[h], b) \in Ways
    <3>1. f[h] \in Ways
      BY <2>4, <2>5
    <3> QED BY <2>3, <3>1, AppendProperties DEF Ways
  <2> HIDE DEF k
  <2>7. g \in [0 .. k -> Ways]
    BY <2>2, <2>5, <2>6
  <2>8. ASSUME NEW i \in 0 .. k PROVE g[i] = PathStep(g, i)
    <3>1. CASE i = k
      <4>1. g[i] = Append(f[h], b) /\ g[h] = f[h]
        BY <2>4, <3>1
      <4> QED BY <2>2, <3>1, <4>1 DEF PathStep, h, b
    <3>2. CASE i = 0
      <4>1. i \in 0 .. j /\ i # k
        BY <2>2, <3>2
      <4> QED BY <2>5, <3>2, <4>1 DEF PathStep
    <3>3. CASE i # k /\ i # 0
      <4>1. i \in 0 .. j /\ g[i] = f[i]
        BY <2>2, <3>3
      <4> DEFINE c == (i - 1) \div 2
      <4>2. c \in Nat /\ c < i
        BY <3>3, HalfLess
      <4>3. c \in 0 .. k /\ c # k
        <5> HIDE DEF c
        <5> QED BY <2>2, <3>3, <4>2
      <4>4. g[c] = f[c]
        BY <4>3
      <4>5. f[i] = PathStep(f, i)
        BY <2>5, <4>1
      <4> QED BY <3>3, <4>1, <4>4, <4>5 DEF PathStep
    <3> QED BY <3>1, <3>2, <3>3
  <2> HIDE DEF g
  <2>9. PathTo(g, k)
    BY <2>7, <2>8 DEF PathTo
  <2> QED BY <2>9 DEF k
<1>3. n \in T
  <2> HIDE DEF T
  <2> QED BY <1>1, <1>2, Induction
<1> QED BY <1>3

LEMMA PathIs ==
  /\ Path \in [Nat -> Ways] /\ Path[0] = <<>>
  /\ \A k \in Nat : Path[2 * k + 1] = Append(Path[k], 0) /\ Path[2 * k + 2] = Append(Path[k], 1)
<1> DEFINE to(n) == CHOOSE f : PathTo(f, n)
           P == [n \in Nat |-> to(n)[n]]
<1>1. \A n \in Nat : PathTo(to(n), n)
  BY PathsExist
<1> HIDE DEF to
<1>2. P \in [Nat -> Ways]
  BY <1>1 DEF PathTo
<1>3. ASSUME NEW n \in Nat PROVE P[n] = PathStep(P, n)
  <2>1. PathTo(to(n), n) /\ n \in 0 .. n
    BY <1>1
  <2>2. P[n] = PathStep(to(n), n)
    BY <2>1 DEF PathTo
  <2>3. CASE n = 0
    BY <2>2, <2>3 DEF PathStep
  <2>4. CASE n # 0
    <3> DEFINE h == (n - 1) \div 2
    <3>1. h \in Nat /\ h < n
      BY <2>4, HalfLess
    <3>2. to(n)[h] = P[h]
      <4> HIDE DEF h
      <4>1. PathTo(to(h), h) /\ h <= h /\ h <= n
        BY <1>1, <3>1
      <4>2. to(n)[h] = to(h)[h]
        BY <2>1, <3>1, <4>1, PathsAgree
      <4> QED BY <3>1, <4>2
    <3>3. PathStep(to(n), n) = Append(to(n)[h], 1 - (n % 2)) /\ PathStep(P, n) = Append(P[h], 1 - (n % 2))
      BY <2>4 DEF PathStep
    <3> HIDE DEF P, h
    <3> QED BY <2>2, <3>2, <3>3
  <2> QED BY <2>3, <2>4
<1> HIDE DEF P
<1>4. P = [node \in Nat |-> IF node = 0 THEN <<>>
                            ELSE Append(P[(node - 1) \div 2], 1 - (node % 2))]
  <2>1. P = [node \in Nat |-> P[node]]
    BY <1>2
  <2> QED BY <1>3, <2>1 DEF PathStep
<1>5. Path = [node \in Nat |-> IF node = 0 THEN <<>>
                               ELSE Append(Path[(node - 1) \div 2], 1 - (node % 2))]
  BY <1>4 DEF Path
<1>6. ASSUME NEW n \in Nat PROVE P[n] = Path[n]
  <2> DEFINE T == {j \in Nat : P[j] # Path[j]}
  <2> SUFFICES ASSUME T # {} PROVE FALSE
    OBVIOUS
  <2>1. PICK k \in T : \A j \in T : k <= j
    BY LeastNumber
  <2>2. k # 0
    BY <1>4, <1>5, <2>1
  <2> DEFINE h == (k - 1) \div 2
  <2>3. h \in Nat /\ h < k
    BY <2>1, <2>2, HalfLess
  <2>4. P[h] = Path[h]
    <3> HIDE DEF h
    <3> QED BY <2>1, <2>3
  <2>5. P[k] = Append(P[h], 1 - (k % 2)) /\ Path[k] = Append(Path[h], 1 - (k % 2))
    BY <1>4, <1>5, <2>1, <2>2
  <2> QED BY <2>1, <2>4, <2>5
<1>7. Path \in [Nat -> Ways]
  <2>1. Path = [node \in Nat |-> Path[node]]
    BY <1>5
  <2> QED BY <1>2, <1>6, <2>1
<1>8. ASSUME NEW k \in Nat
      PROVE  Path[2 * k + 1] = Append(Path[k], 0) /\ Path[2 * k + 2] = Append(Path[k], 1)
  <2> DEFINE m == 2 * k + 1
             n == 2 * k + 2
  <2>1. /\ m \in Nat /\ m # 0 /\ (m - 1) \div 2 = k /\ m % 2 = 1
        /\ n \in Nat /\ n # 0 /\ (n - 1) \div 2 = k /\ n % 2 = 0
    BY Halves
  <2> HIDE DEF m, n
  <2>2. /\ Path[m] = Append(Path[(m - 1) \div 2], 1 - (m % 2))
        /\ Path[n] = Append(Path[(n - 1) \div 2], 1 - (n % 2))
    BY <1>5, <2>1
  <2>3. 1 - 1 = 0 /\ 1 - 0 = 1
    OBVIOUS
  <2>4. Path[m] = Append(Path[k], 0) /\ Path[n] = Append(Path[k], 1)
    BY <2>1, <2>2, <2>3
  <2> QED BY <2>4 DEF m, n
<1> QED BY <1>5, <1>7, <1>8

(* A path that goes on from another one, and one that turns left where the other turns
   right. *)
Below(p, q) == Len(p) <= Len(q) /\ \A j \in 1 .. Len(p) : p[j] = q[j]

Earlier(p, q) ==
  \E i \in 1 .. Len(p) : i <= Len(q) /\ p[i] < q[i] /\ \A j \in 1 .. i - 1 : p[j] = q[j]

Comes(p, q) == (Below(p, q) /\ p # q) \/ Earlier(p, q)

LEMMA WayFacts ==
  ASSUME NEW p \in Ways
  PROVE  Len(p) \in Nat /\ DOMAIN p = 1 .. Len(p) /\ \A i \in 1 .. Len(p) : p[i] \in {0, 1}
BY DEF Ways

LEMMA SameWay ==
  ASSUME NEW p \in Ways, NEW q \in Ways, Below(p, q), Len(q) <= Len(p)
  PROVE  p = q
<1>1. Len(p) = Len(q)
  BY WayFacts DEF Below
<1> QED BY <1>1, SeqEqual DEF Ways, Below

LEMMA WayOn ==
  ASSUME NEW p \in Ways, NEW b \in {0, 1}
  PROVE  /\ Append(p, b) \in Ways /\ Len(Append(p, b)) = Len(p) + 1
         /\ \A j \in 1 .. Len(p) : Append(p, b)[j] = p[j]
         /\ Append(p, b)[Len(p) + 1] = b
BY AppendProperties DEF Ways

(* The left child comes next, and what is under it comes before the right one. *)
LEMMA ComesBeforeOn ==
  ASSUME NEW p \in Ways, NEW q \in Ways, NEW b \in {0, 1}
  PROVE  Comes(p, Append(q, b)) <=>
           Comes(p, q) \/ p = q \/ (b = 1 /\ Below(Append(q, 0), p))
<1> DEFINE r == Append(q, b)
           l == Append(q, 0)
           n == Len(q)
<1>1. /\ n \in Nat /\ r \in Ways /\ Len(r) = n + 1 /\ r[n + 1] = b
      /\ \A j \in 1 .. n : r[j] = q[j]
  BY WayFacts, WayOn
<1>2. l \in Ways /\ Len(l) = n + 1 /\ l[n + 1] = 0 /\ \A j \in 1 .. n : l[j] = q[j]
  BY WayOn
<1>3. Len(p) \in Nat /\ \A j \in 1 .. Len(p) : p[j] \in {0, 1}
  BY WayFacts
<1> HIDE DEF r, l, n
<1>4. ASSUME Below(p, r), p # r PROVE Comes(p, q) \/ p = q
  <2>1. Len(p) # n + 1
    BY <1>1, <1>4, SameWay
  <2>2. Len(p) <= n
    BY <1>1, <1>3, <1>4, <2>1 DEF Below
  <2>3. Below(p, q)
    BY <1>1, <1>3, <1>4, <2>2 DEF Below, n
  <2> QED BY <2>3 DEF Comes
<1>5. ASSUME Earlier(p, r) PROVE Comes(p, q) \/ (b = 1 /\ Below(l, p))
  <2>1. PICK i \in 1 .. Len(p) : i <= n + 1 /\ p[i] < r[i] /\ \A j \in 1 .. i - 1 : p[j] = r[j]
    BY <1>1, <1>5 DEF Earlier
  <2>2. CASE i <= n
    <3>1. i \in 1 .. n /\ \A j \in 1 .. i - 1 : j \in 1 .. n
      BY <1>1, <1>3, <2>1, <2>2
    <3>2. p[i] < q[i] /\ \A j \in 1 .. i - 1 : p[j] = q[j]
      BY <1>1, <2>1, <3>1
    <3> QED BY <2>2, <3>2 DEF Comes, Earlier, n
  <2>3. CASE i = n + 1
    <3>1. p[i] < b /\ p[i] \in {0, 1}
      BY <1>1, <1>3, <2>1, <2>3
    <3>2. b = 1 /\ p[n + 1] = 0
      BY <2>3, <3>1
    <3>3. n + 1 <= Len(p) /\ \A j \in 1 .. n : j \in 1 .. i - 1
      BY <1>1, <1>3, <2>1, <2>3
    <3>4. \A j \in 1 .. n + 1 : j \in 1 .. n \/ j = n + 1
      BY <1>1
    <3>5. \A j \in 1 .. n : p[j] = q[j]
      BY <1>1, <2>1, <3>3
    <3>6. \A j \in 1 .. n + 1 : l[j] = p[j]
      BY <1>2, <3>2, <3>4, <3>5
    <3> QED BY <1>2, <3>2, <3>3, <3>6 DEF Below
  <2> QED BY <1>1, <1>3, <2>1, <2>2, <2>3
<1>6. ASSUME Below(p, q) PROVE Comes(p, r)
  <2>1. Len(p) <= n /\ Len(p) <= n + 1 /\ \A j \in 1 .. Len(p) : j \in 1 .. n /\ p[j] = q[j]
    BY <1>1, <1>3, <1>6 DEF Below, n
  <2>2. Below(p, r)
    BY <1>1, <2>1 DEF Below
  <2>3. p # r
    BY <1>1, <1>3, <2>1
  <2> QED BY <2>2, <2>3 DEF Comes
<1>7. ASSUME Earlier(p, q) PROVE Comes(p, r)
  <2>1. PICK i \in 1 .. Len(p) : i <= n /\ p[i] < q[i] /\ \A j \in 1 .. i - 1 : p[j] = q[j]
    BY <1>7 DEF Earlier, n
  <2>2. i <= n + 1 /\ i \in 1 .. n /\ \A j \in 1 .. i - 1 : j \in 1 .. n
    BY <1>1, <1>3, <2>1
  <2>3. p[i] < r[i] /\ \A j \in 1 .. i - 1 : p[j] = r[j]
    BY <1>1, <2>1, <2>2
  <2>4. Earlier(p, r)
    BY <1>1, <2>2, <2>3 DEF Earlier
  <2> QED BY <2>4 DEF Comes
<1>8. ASSUME b = 1, Below(l, p) PROVE Comes(p, r)
  <2>1. n + 1 \in 1 .. Len(p) /\ n + 1 \in 1 .. n + 1 /\ n + 1 <= Len(r)
    BY <1>1, <1>2, <1>3, <1>8 DEF Below
  <2>2. p[n + 1] = 0 /\ r[n + 1] = 1
    BY <1>1, <1>2, <1>8, <2>1 DEF Below
  <2>3. \A j \in 1 .. n : j \in 1 .. n + 1
    BY <1>1
  <2>4. \A j \in 1 .. n : p[j] = r[j]
    BY <1>1, <1>2, <1>8, <2>3 DEF Below
  <2> DEFINE i == n + 1
  <2>6. i \in 1 .. Len(p) /\ i <= Len(r)
    BY <2>1
  <2>7. p[i] < r[i]
    BY <2>2
  <2>9. i - 1 = n
    BY <1>1
  <2> HIDE DEF i
  <2>8. \A j \in 1 .. i - 1 : p[j] = r[j]
    BY <2>4, <2>9
  <2>5. Earlier(p, r)
    BY <2>6, <2>7, <2>8 DEF Earlier
  <2> QED BY <2>5 DEF Comes
<1>9. Below(q, q)
  BY <1>1 DEF Below, n
<1>10. Comes(p, r) => Comes(p, q) \/ p = q \/ (b = 1 /\ Below(l, p))
  BY <1>4, <1>5 DEF Comes
<1>11. Comes(p, q) \/ p = q \/ (b = 1 /\ Below(l, p)) => Comes(p, r)
  BY <1>6, <1>7, <1>8, <1>9 DEF Comes
<1> QED BY <1>10, <1>11 DEF r, l

(* What comes before a node, comes before those under it, and the other way round but
   for what is under the node too. *)
LEMMA ComesAbove ==
  ASSUME NEW p \in Ways, NEW q \in Ways, NEW z \in Ways, Below(z, q)
  PROVE  /\ Comes(p, z) => Comes(p, q)
         /\ Comes(p, q) => Comes(p, z) \/ Below(z, p)
<1>1. /\ Len(p) \in Nat /\ Len(q) \in Nat /\ Len(z) \in Nat
      /\ Len(z) <= Len(q) /\ \A j \in 1 .. Len(z) : z[j] = q[j]
  BY WayFacts DEF Below
<1>2. ASSUME Below(p, z), p # z PROVE Comes(p, q)
  <2>1. Len(p) < Len(z)
    <3>1. ~(Len(z) <= Len(p))
      BY <1>2, SameWay
    <3> QED BY <1>1, <3>1
  <2>2. Len(p) <= Len(q) /\ Len(p) # Len(q) /\ \A j \in 1 .. Len(p) : j \in 1 .. Len(z)
    BY <1>1, <2>1
  <2>3. Below(p, q)
    BY <1>1, <1>2, <2>2 DEF Below
  <2> QED BY <2>2, <2>3 DEF Comes
<1>3. ASSUME Earlier(p, z) PROVE Comes(p, q)
  <2>1. PICK i \in 1 .. Len(p) : i <= Len(z) /\ p[i] < z[i] /\ \A j \in 1 .. i - 1 : p[j] = z[j]
    BY <1>3 DEF Earlier
  <2>2. i <= Len(q) /\ i \in 1 .. Len(z) /\ \A j \in 1 .. i - 1 : j \in 1 .. Len(z)
    BY <1>1, <2>1
  <2>3. p[i] < q[i] /\ \A j \in 1 .. i - 1 : p[j] = q[j]
    BY <1>1, <2>1, <2>2
  <2>4. Earlier(p, q)
    BY <2>2, <2>3 DEF Earlier
  <2> QED BY <2>4 DEF Comes
<1>4. ASSUME Below(p, q) PROVE Comes(p, z) \/ Below(z, p)
  <2>1. CASE Len(z) <= Len(p)
    <3>1. \A j \in 1 .. Len(z) : j \in 1 .. Len(p)
      BY <1>1, <2>1
    <3>2. Below(z, p)
      BY <1>1, <1>4, <2>1, <3>1 DEF Below
    <3> QED BY <3>2
  <2>2. CASE ~(Len(z) <= Len(p))
    <3>1. Len(p) <= Len(z) /\ Len(p) # Len(z) /\ \A j \in 1 .. Len(p) : j \in 1 .. Len(z)
      BY <1>1, <2>2
    <3>2. Below(p, z)
      BY <1>1, <1>4, <3>1 DEF Below
    <3> QED BY <3>1, <3>2 DEF Comes
  <2> QED BY <2>1, <2>2
<1>5. ASSUME Earlier(p, q) PROVE Comes(p, z) \/ Below(z, p)
  <2>1. PICK i \in 1 .. Len(p) : i <= Len(q) /\ p[i] < q[i] /\ \A j \in 1 .. i - 1 : p[j] = q[j]
    BY <1>5 DEF Earlier
  <2>2. CASE i <= Len(z)
    <3>1. i \in 1 .. Len(z) /\ \A j \in 1 .. i - 1 : j \in 1 .. Len(z)
      BY <1>1, <2>1, <2>2
    <3>2. p[i] < z[i] /\ \A j \in 1 .. i - 1 : p[j] = z[j]
      BY <1>1, <2>1, <3>1
    <3>3. Earlier(p, z)
      BY <2>2, <3>2 DEF Earlier
    <3> QED BY <3>3 DEF Comes
  <2>3. CASE ~(i <= Len(z))
    <3>1. Len(z) <= Len(p) /\ \A j \in 1 .. Len(z) : j \in 1 .. i - 1
      BY <1>1, <2>1, <2>3
    <3>2. Below(z, p)
      BY <1>1, <2>1, <3>1 DEF Below
    <3> QED BY <3>2
  <2> QED BY <2>2, <2>3
<1> QED BY <1>2, <1>3, <1>4, <1>5 DEF Comes

LEMMA BelowOn ==
  ASSUME NEW p \in Ways, NEW q \in Ways
  PROVE  /\ Below(p, p)
         /\ Below(q, p) => p = q \/ Below(Append(q, 0), p) \/ Below(Append(q, 1), p)
         /\ \A b \in {0, 1} : Below(p, q) => Below(p, Append(q, b))
         /\ \A b \in {0, 1} : Below(p, Append(q, b)) => p = Append(q, b) \/ Below(p, q)
<1> DEFINE n == Len(q)
<1>1. /\ Len(p) \in Nat /\ n \in Nat /\ \A i \in 1 .. Len(p) : p[i] \in {0, 1}
  BY WayFacts
<1>2. \A b \in {0, 1} : /\ Append(q, b) \in Ways /\ Len(Append(q, b)) = n + 1
                        /\ \A j \in 1 .. n : Append(q, b)[j] = q[j]
                        /\ Append(q, b)[n + 1] = b
  BY WayOn
<1> HIDE DEF n
<1>3. \A j \in 1 .. n + 1 : j \in 1 .. n \/ j = n + 1
  BY <1>1
<1>4. Below(p, p)
  BY <1>1 DEF Below
<1>5. ASSUME Below(q, p), p # q PROVE Below(Append(q, 0), p) \/ Below(Append(q, 1), p)
  <2>1. ~(Len(p) <= n)
    BY <1>5, SameWay DEF n
  <2>2. n + 1 <= Len(p) /\ n + 1 \in 1 .. Len(p)
    BY <1>1, <2>1
  <2>3. \A j \in 1 .. n : q[j] = p[j]
    BY <1>5 DEF Below, n
  <2>4. PICK b \in {0, 1} : p[n + 1] = b
    BY <1>1, <2>2
  <2>5. \A j \in 1 .. n + 1 : Append(q, b)[j] = p[j]
    BY <1>2, <1>3, <2>3, <2>4
  <2>6. Below(Append(q, b), p)
    BY <1>2, <2>2, <2>5 DEF Below
  <2> QED BY <2>6
<1>6. ASSUME NEW b \in {0, 1}, Below(p, q) PROVE Below(p, Append(q, b))
  <2>1. Len(p) <= n + 1 /\ \A j \in 1 .. Len(p) : j \in 1 .. n /\ p[j] = q[j]
    BY <1>1, <1>6 DEF Below, n
  <2> QED BY <1>2, <2>1 DEF Below
<1>7. ASSUME NEW b \in {0, 1}, Below(p, Append(q, b)), p # Append(q, b) PROVE Below(p, q)
  <2>1. ~(Len(Append(q, b)) <= Len(p))
    BY <1>2, <1>7, SameWay
  <2>2. Len(p) <= n /\ \A j \in 1 .. Len(p) : j \in 1 .. n
    BY <1>1, <1>2, <2>1
  <2> QED BY <1>2, <1>7, <2>2 DEF Below, n
<1> QED BY <1>4, <1>5, <1>6, <1>7

-----------------------------------------------------------------------------
(* The same of nodes: x is i or above it. *)
Under(i, x) == Below(Path[x], Path[i])

LEMMA BeforeIs ==
  ASSUME NEW x \in Nat, NEW y \in Nat
  PROVE  Before(x, y) <=> Comes(Path[x], Path[y])
<1> DEFINE p == Path[x]
           q == Path[y]
<1>1. p \in Ways /\ q \in Ways
  BY PathIs
<1>2. /\ Len(p) \in Nat /\ DOMAIN p = 1 .. Len(p)
      /\ Len(q) \in Nat /\ DOMAIN q = 1 .. Len(q)
  BY <1>1, WayFacts
<1>3. Before(x, y) <=> \/ IsStrictPrefix(p, q)
                       \/ \E i \in DOMAIN p \cap DOMAIN q :
                            p[i] < q[i] /\ \A j \in 1 .. i - 1 : p[j] = q[j]
  BY DEF Before
<1> HIDE DEF p, q
<1>4. IsStrictPrefix(p, q) <=> Below(p, q) /\ p # q
  <2>1. Len(p) <= Len(q) =>
          (SubSeq(p, 1, Len(p)) = SubSeq(q, 1, Len(p)) <=> \A j \in 1 .. Len(p) : p[j] = q[j])
    <3> SUFFICES ASSUME Len(p) <= Len(q)
                 PROVE  SubSeq(p, 1, Len(p)) = SubSeq(q, 1, Len(p))
                          <=> \A j \in 1 .. Len(p) : p[j] = q[j]
      OBVIOUS
    <3>1. /\ SubSeq(p, 1, Len(p)) = [j \in 1 .. Len(p) |-> p[j]]
          /\ SubSeq(q, 1, Len(p)) = [j \in 1 .. Len(p) |-> q[j]]
      <4>1. /\ \A j \in 1 .. Len(p) : 1 + j - 1 = j
            /\ 1 + Len(p) - 1 = Len(p) /\ Len(p) - 1 + 1 = Len(p)
        BY <1>2
      <4> QED BY <1>1, <1>2, <4>1 DEF Ways
    <3> QED BY <3>1
  <2> QED BY <1>2, <2>1 DEF IsStrictPrefix, IsPrefix, Below
<1>5. (\E i \in DOMAIN p \cap DOMAIN q : p[i] < q[i] /\ \A j \in 1 .. i - 1 : p[j] = q[j])
        <=> Earlier(p, q)
  <2>1. \A i : i \in DOMAIN p \cap DOMAIN q <=> i \in 1 .. Len(p) /\ i <= Len(q)
    BY <1>2
  <2> QED BY <2>1 DEF Earlier
<1> QED BY <1>3, <1>4, <1>5 DEF Comes, p, q

(* The nodes are what a path tells apart. *)
LEMMA PathTells ==
  ASSUME NEW x \in Nat, NEW y \in Nat, Path[x] = Path[y]
  PROVE  x = y
<1> DEFINE Twins(i) == \E j \in Nat : Path[i] = Path[j] /\ i # j
           T == {i \in Nat : Twins(i)}
<1> SUFFICES ASSUME T # {} PROVE FALSE
  OBVIOUS
<1>1. PICK k \in T : \A j \in T : k <= j
  BY LeastNumber
<1>2. PICK m \in Nat : Path[k] = Path[m] /\ k # m
  BY <1>1
<1>3. m \in T /\ k < m
  <2>1. m \in T
    BY <1>1, <1>2
  <2> QED BY <1>1, <1>2, <2>1
<1> DEFINE h == (k - 1) \div 2
           n == (m - 1) \div 2
<1>4. m # 0 /\ n \in Nat /\ (m = 2 * n + 1 \/ m = 2 * n + 2)
  BY <1>2, <1>3, HalfLess
<1>5. k # 0
  <2>1. Path[m] # <<>>
    <3> HIDE DEF n
    <3>1. PICK b \in {0, 1} : Path[m] = Append(Path[n], b)
      BY <1>4, PathIs
    <3>2. Path[n] \in Ways
      BY <1>4, PathIs
    <3>3. Len(Path[m]) = Len(Path[n]) + 1 /\ Len(Path[n]) \in Nat
      BY <3>1, <3>2, WayOn, WayFacts
    <3> QED BY <3>3
  <2> QED BY <1>2, <2>1, PathIs
<1>6. h \in Nat /\ h < k /\ (k = 2 * h + 1 \/ k = 2 * h + 2)
  BY <1>1, <1>5, HalfLess
<1> HIDE DEF h, n
<1>7. PICK a \in {0, 1} : Path[k] = Append(Path[h], a) /\ k = IF a = 0 THEN 2 * h + 1 ELSE 2 * h + 2
  <2>1. CASE k = 2 * h + 1
    BY <1>6, <2>1, PathIs
  <2>2. CASE k = 2 * h + 2
    BY <1>6, <2>2, PathIs
  <2> QED BY <1>6, <2>1, <2>2
<1>8. PICK b \in {0, 1} : Path[m] = Append(Path[n], b) /\ m = IF b = 0 THEN 2 * n + 1 ELSE 2 * n + 2
  <2>1. CASE m = 2 * n + 1
    BY <1>4, <2>1, PathIs
  <2>2. CASE m = 2 * n + 2
    BY <1>4, <2>2, PathIs
  <2> QED BY <1>4, <2>1, <2>2
<1>9. Path[h] = Path[n] /\ a = b
  <2>1. Path[h] \in Ways /\ Path[n] \in Ways
    BY <1>4, <1>6, PathIs
  <2>2. Append(Path[h], a) = Append(Path[n], b)
    BY <1>2, <1>7, <1>8
  <2> DEFINE B == {0, 1}
             u == Path[h]
             v == Path[n]
  <2>3. u \in Seq(B) /\ v \in Seq(B) /\ a \in B /\ b \in B
    BY <1>7, <1>8, <2>1 DEF Ways
  <2>4. Append(u, a) = Append(v, b)
    BY <2>2
  <2> HIDE DEF B, u, v
  <2>5. u = v /\ a = b
    BY <2>3, <2>4, AppendInjective
  <2> QED BY <2>5 DEF u, v
<1>10. h # n
  BY <1>2, <1>7, <1>8, <1>9
<1>11. h \in T
  BY <1>4, <1>6, <1>9, <1>10
<1> QED BY <1>1, <1>6, <1>11

(* What comes before the children of y, and what is under it. *)
LEMMA NodeFacts ==
  ASSUME NEW y \in Nat, NEW i \in Nat
  PROVE  /\ Before(i, 2 * y + 1) <=> Before(i, y) \/ i = y
         /\ Before(i, 2 * y + 2) <=> Before(i, y) \/ i = y \/ Under(i, 2 * y + 1)
         /\ ~Before(y, y)
         /\ Under(i, y) => i = y \/ Under(i, 2 * y + 1) \/ Under(i, 2 * y + 2)
         /\ Under(y, i) => Under(2 * y + 1, i) /\ Under(2 * y + 2, i)
         /\ Under(2 * y + 1, i) => i = 2 * y + 1 \/ Under(y, i)
         /\ Under(2 * y + 2, i) => i = 2 * y + 2 \/ Under(y, i)
<1> DEFINE L == 2 * y + 1
           R == 2 * y + 2
<1>1. /\ L \in Nat /\ R \in Nat
      /\ Path[L] = Append(Path[y], 0) /\ Path[R] = Append(Path[y], 1)
      /\ Path[y] \in Ways /\ Path[i] \in Ways
  <2>1. L \in Nat /\ R \in Nat
    OBVIOUS
  <2>2. Path[L] = Append(Path[y], 0) /\ Path[R] = Append(Path[y], 1)
    BY PathIs
  <2> QED BY <2>1, <2>2, PathIs
<1> HIDE DEF L, R
<1>2. Path[i] = Path[y] <=> i = y
  BY PathTells
<1>3. Path[i] = Path[L] <=> i = L
  BY <1>1, PathTells
<1>4. Path[i] = Path[R] <=> i = R
  BY <1>1, PathTells
<1>5. Before(i, L) <=> Before(i, y) \/ i = y
  <2>1. Comes(Path[i], Append(Path[y], 0)) <=> Comes(Path[i], Path[y]) \/ Path[i] = Path[y]
    BY <1>1, ComesBeforeOn
  <2> QED BY <1>1, <1>2, <2>1, BeforeIs
<1>6. Before(i, R) <=> Before(i, y) \/ i = y \/ Under(i, L)
  <2>1. Comes(Path[i], Append(Path[y], 1))
          <=> Comes(Path[i], Path[y]) \/ Path[i] = Path[y] \/ Below(Append(Path[y], 0), Path[i])
    BY <1>1, ComesBeforeOn
  <2> QED BY <1>1, <1>2, <2>1, BeforeIs DEF Under
<1>7. ~Before(y, y)
  <2>1. ~Earlier(Path[y], Path[y])
    <3> DEFINE p == Path[y]
    <3>1. \A j \in 1 .. Len(p) : p[j] \in {0, 1}
      BY <1>1, WayFacts
    <3> HIDE DEF p
    <3>2. ~Earlier(p, p)
      BY <3>1 DEF Earlier
    <3> QED BY <3>2 DEF p
  <2> QED BY <2>1, BeforeIs DEF Comes
<1>8. Under(i, y) => i = y \/ Under(i, L) \/ Under(i, R)
  <2>1. Below(Path[y], Path[i]) =>
          Path[i] = Path[y] \/ Below(Append(Path[y], 0), Path[i]) \/ Below(Append(Path[y], 1), Path[i])
    BY <1>1, BelowOn
  <2> QED BY <1>1, <1>2, <2>1 DEF Under
<1>9. \A b \in {0, 1} : Below(Path[i], Path[y]) => Below(Path[i], Append(Path[y], b))
  BY <1>1, BelowOn
<1>10. Under(y, i) => Under(L, i) /\ Under(R, i)
  BY <1>1, <1>9 DEF Under
<1>11. \A b \in {0, 1} : Below(Path[i], Append(Path[y], b))
                           => Path[i] = Append(Path[y], b) \/ Below(Path[i], Path[y])
  BY <1>1, BelowOn
<1>12. (Under(L, i) => i = L \/ Under(y, i)) /\ (Under(R, i) => i = R \/ Under(y, i))
  BY <1>1, <1>3, <1>4, <1>11 DEF Under
<1> QED BY <1>5, <1>6, <1>7, <1>8, <1>10, <1>12 DEF L, R

LEMMA NodeAbove ==
  ASSUME NEW i \in Nat, NEW x \in Nat, NEW z \in Nat, Under(x, z)
  PROVE  /\ Before(i, z) => Before(i, x)
         /\ Before(i, x) => Before(i, z) \/ Under(i, z)
<1>1. Path[i] \in Ways /\ Path[x] \in Ways /\ Path[z] \in Ways
  BY PathIs
<1>2. /\ Comes(Path[i], Path[z]) => Comes(Path[i], Path[x])
      /\ Comes(Path[i], Path[x]) => Comes(Path[i], Path[z]) \/ Below(Path[z], Path[i])
  BY <1>1, ComesAbove DEF Under
<1> QED BY <1>2, BeforeIs DEF Under

(* A node that does not fork has none under it that does. *)
LEMMA NothingUnder ==
  ASSUME NEW t \in Trees, NEW x \in Nat, x \notin t, NEW i \in t
  PROVE  ~Under(i, x)
<1>1. t \subseteq Nat /\ \A j \in t : j = 0 \/ (j - 1) \div 2 \in t
  BY ForkAssumption
<1> DEFINE T == {j \in t : Under(j, x)}
<1> SUFFICES ASSUME T # {} PROVE FALSE
  OBVIOUS
<1>2. PICK k \in T : \A j \in T : k <= j
  BY <1>1, LeastNumber
<1>3. k \in Nat /\ k \in t /\ k # x /\ Under(k, x)
  BY <1>1, <1>2
<1>4. k # 0
  <2> SUFFICES ASSUME k = 0 PROVE FALSE
    OBVIOUS
  <2>1. Path[x] \in Ways /\ Path[k] \in Ways /\ Path[k] = <<>>
    BY <1>3, PathIs
  <2>2. Len(Path[x]) \in Nat /\ Len(Path[x]) <= 0
    BY <1>3, <2>1, WayFacts DEF Under, Below
  <2>3. Path[x] = Path[k]
    BY <1>3, <2>1, <2>2, SameWay DEF Under
  <2> QED BY <1>3, <2>3, PathTells
<1> DEFINE h == (k - 1) \div 2
<1>5. h \in Nat /\ h < k /\ (k = 2 * h + 1 \/ k = 2 * h + 2) /\ h \in t
  BY <1>1, <1>3, <1>4, HalfLess
<1> HIDE DEF h
<1>6. Under(h, x)
  <2>1. x \in Nat /\ k # x /\ Under(k, x)
    BY <1>1, <1>3
  <2>2. CASE k = 2 * h + 1
    <3>1. Under(2 * h + 1, x) => x = 2 * h + 1 \/ Under(h, x)
      BY <1>5, <2>1, NodeFacts
    <3> QED BY <2>1, <2>2, <3>1
  <2>3. CASE k = 2 * h + 2
    <3>1. Under(2 * h + 2, x) => x = 2 * h + 2 \/ Under(h, x)
      BY <1>5, <2>1, NodeFacts
    <3> QED BY <2>1, <2>3, <3>1
  <2> QED BY <1>5, <2>2, <2>3
<1>7. h \in T
  BY <1>5, <1>6
<1> QED BY <1>2, <1>3, <1>5, <1>7

-----------------------------------------------------------------------------
(* How many nodes of a tree come before x. *)
Counted(t, x) == Cardinality({i \in t : Before(i, x)})

(* A child that has left the left subtree of y is at x, at the end of the right branch
   so far: what is in that subtree comes before x or is under it. *)
Spine(y, x) ==
  /\ Under(x, 2 * y + 1)
  /\ \A i \in Nat : Under(i, 2 * y + 1) => Before(i, x) \/ Under(i, x)

LEMMA SpineStarts ==
  ASSUME NEW y \in Nat
  PROVE  Spine(y, 2 * y + 1)
<1>1. Path[2 * y + 1] \in Ways
  BY PathIs
<1>2. Under(2 * y + 1, 2 * y + 1)
  BY <1>1, BelowOn DEF Under
<1> QED BY <1>2 DEF Spine

LEMMA SpineGoesOn ==
  ASSUME NEW y \in Nat, NEW x \in Nat, Spine(y, x)
  PROVE  Spine(y, 2 * x + 2)
<1> DEFINE l == 2 * y + 1
<1>1. l \in Nat /\ Spine(y, x) /\ Under(x, l)
  BY DEF Spine
<1>2. \A i \in Nat : Under(i, l) => Before(i, x) \/ Under(i, x)
  BY DEF Spine
<1> HIDE DEF l
<1>3. Under(2 * x + 2, l)
  BY <1>1, NodeFacts
<1>4. ASSUME NEW i \in Nat, Under(i, l) PROVE Before(i, 2 * x + 2) \/ Under(i, 2 * x + 2)
  BY <1>2, <1>4, NodeFacts
<1> QED BY <1>3, <1>4 DEF Spine, l

LEMMA SpineEnds ==
  ASSUME NEW t \in Trees, NEW y \in Nat, NEW x \in Nat, Spine(y, x), x \notin t
  PROVE  Counted(t, 2 * y + 2) = Counted(t, x)
<1> DEFINE l == 2 * y + 1
<1>1. l \in Nat /\ Under(x, l) /\ t \subseteq Nat
  BY ForkAssumption DEF Spine
<1>2. \A i \in Nat : Under(i, l) => Before(i, x) \/ Under(i, x)
  BY DEF Spine
<1>3. ASSUME NEW i \in t PROVE Before(i, 2 * y + 2) <=> Before(i, x)
  <2>1. i \in Nat /\ ~Under(i, x)
    BY <1>1, NothingUnder
  <2>2. /\ Before(i, l) <=> Before(i, y) \/ i = y
        /\ Before(i, 2 * y + 2) <=> Before(i, y) \/ i = y \/ Under(i, l)
    BY <2>1, NodeFacts
  <2> HIDE DEF l
  <2>3. (Before(i, l) => Before(i, x)) /\ (Before(i, x) => Before(i, l) \/ Under(i, l))
    BY <1>1, <2>1, NodeAbove
  <2> QED BY <1>2, <2>1, <2>2, <2>3
<1>4. {i \in t : Before(i, 2 * y + 2)} = {i \in t : Before(i, x)}
  BY <1>3
<1> QED BY <1>4 DEF Counted

LEMMA CountedLeft ==
  ASSUME NEW t \in Trees, NEW y \in t
  PROVE  /\ y \in Nat /\ Counted(t, y) \in Nat
         /\ Counted(t, 2 * y + 1) = Counted(t, y) + 1
<1> DEFINE S == {i \in t : Before(i, y)}
<1>1. IsFiniteSet(t) /\ t \subseteq Nat
  BY ForkAssumption
<1>2. IsFiniteSet(S) /\ Cardinality(S) \in Nat
  BY <1>1, FS_Subset, FS_CardinalityType
<1>3. y \notin S
  BY <1>1, NodeFacts
<1>4. {i \in t : Before(i, 2 * y + 1)} = S \cup {y}
  <2>1. \A i \in t : Before(i, 2 * y + 1) <=> Before(i, y) \/ i = y
    BY <1>1, NodeFacts
  <2> QED BY <2>1
<1>5. Cardinality(S \cup {y}) = Cardinality(S) + 1
  <2> HIDE DEF S
  <2> QED BY <1>2, <1>3, FS_AddElement
<1> QED BY <1>1, <1>2, <1>4, <1>5 DEF Counted

-----------------------------------------------------------------------------
(* The node of a process that forks is in the tree, and the node of a process whose
   call returns is not. *)
Nodes ==
  \A p \in DOMAIN procs :
    /\ procs[p].node \in Nat
    /\ procs[p].pc \in {"join", "fork", "wait"} => procs[p].node \in tree
    /\ procs[p].pc \in {"return", "caller", "exited"} => procs[p].node \notin tree

(* A child is in the left subtree of the node of its parent. *)
Children ==
  \A q \in DOMAIN procs : Unreaped(q) /\ q > 1 =>
    /\ procs[q].parent \in DOMAIN procs /\ Unreaped(procs[q].parent)
    /\ Spine(procs[procs[q].parent].node, procs[q].node)
    /\ procs[q].pc = "verify" => procs[q].node = 2 * procs[procs[q].parent].node + 1

(* The process that does not wait has seen as many calls of verify as there are nodes
   that fork before its own. *)
Counts ==
  \A p \in DOMAIN procs : Unreaped(p) /\ procs[p].pc # "wait" =>
    /\ procs[p].pc = "verify" =>
         /\ p > 1 /\ p = Len(procs) /\ Len(verified) + 2 = Len(procs)
         /\ Len(verified) = Counted(tree, procs[procs[p].parent].node)
    /\ procs[p].pc # "verify" =>
         Len(verified) + 1 = Len(procs) /\ Len(verified) = Counted(tree, procs[p].node)

(* What ForkOrder says of the calls of verify. *)
Told ==
  \A n \in DOMAIN verified :
    /\ verified[n].pid = n
    /\ \E node \in tree : verified[n].node = 2 * node + 1 /\ Counted(tree, node) = n - 1

Ordered ==
  tree \in Trees /\ IsSequence(verified) /\ Nodes /\ Children /\ Counts /\ Told

OrderIInv == function = "clone" /\ ~failed => Ordered

(* One process is called with the root. *)
LEMMA InitOrderIInv == ForkInit => OrderIInv
<1> SUFFICES ASSUME ForkInit, function = "clone" PROVE Ordered
  BY DEF OrderIInv
<1>1. /\ tree \in Trees /\ verified = <<>>
      /\ procs = <<[node |-> 0, pc |-> "call", threads |-> 0, parent |-> 0]>>
  BY DEF ForkInit, Process
<1>2. /\ DOMAIN procs = {1} /\ Len(procs) = 1 /\ Len(verified) = 0 /\ DOMAIN verified = {}
      /\ procs[1].node = 0 /\ procs[1].pc = "call"
  BY <1>1
<1>3. IsSequence(verified)
  <2>1. verified \in Seq({})
    BY <1>1
  <2> QED BY <2>1 DEF IsSequence
<1>4. Counted(tree, 0) = 0
  <2>1. ASSUME NEW i \in tree PROVE ~Before(i, 0)
    <3>1. i \in Nat /\ 0 \in Nat
      BY <1>1, ForkAssumption
    <3>2. Path[i] \in Ways /\ Path[0] = <<>>
      BY <3>1, PathIs
    <3>3. ~Earlier(Path[i], Path[0])
      BY <3>2 DEF Earlier
    <3>4. Below(Path[i], Path[0]) => Path[i] = Path[0]
      <4>1. Len(Path[0]) = 0 /\ Path[0] \in Ways /\ Len(Path[i]) \in Nat
        BY <3>2, WayFacts DEF Ways
      <4>2. Len(Path[0]) <= Len(Path[i])
        BY <4>1
      <4> QED BY <3>2, <4>1, <4>2, SameWay
    <3> QED BY <3>1, <3>3, <3>4, BeforeIs DEF Comes
  <2>2. {i \in tree : Before(i, 0)} = {}
    BY <2>1
  <2> QED BY <2>2, FS_EmptySet DEF Counted
<1>5. Nodes
  BY <1>2 DEF Nodes
<1>6. Children
  BY <1>2 DEF Children
<1>7. Counts
  BY <1>2, <1>4 DEF Counts
<1>8. Told
  BY <1>2 DEF Told
<1> QED BY <1>1, <1>3, <1>5, <1>6, <1>7, <1>8 DEF Ordered

(* What a step of one process leaves as it was. *)
StaysAt(p) ==
  /\ Len(procs') = Len(procs) /\ DOMAIN procs' = DOMAIN procs
  /\ procs'[p].node = procs[p].node /\ procs'[p].parent = procs[p].parent
  /\ \A q \in DOMAIN procs \ {p} : procs'[q] = procs[q]

LEMMA PcSet ==
  ASSUME ForkTypes, NEW p \in DOMAIN procs, NEW place, procs' = [procs EXCEPT ![p].pc = place]
  PROVE  StaysAt(p) /\ procs'[p].pc = place
<1>1. procs \in Seq(Processes) /\ procs[p] \in Processes
  BY SeqFacts DEF ForkTypes
<1>2. /\ Len(procs') = Len(procs) /\ DOMAIN procs' = DOMAIN procs
      /\ procs'[p] = [procs[p] EXCEPT !.pc = place]
      /\ \A q \in DOMAIN procs \ {p} : procs'[q] = procs[q]
  BY <1>1
<1> QED BY <1>1, <1>2 DEF StaysAt, Processes

(* The process that does not wait goes on at its node, between two calls of verify. *)
LEMMA OrderGoesOn ==
  ASSUME ForkIInv, Ordered, NEW p \in DOMAIN procs, StaysAt(p), UNCHANGED <<tree, verified>>,
         procs[p].pc \notin {"wait", "reaped", "verify"},
         procs'[p].pc \notin {"wait", "reaped", "verify"},
         procs'[p].pc \in {"join", "fork"} => procs[p].node \in tree,
         procs'[p].pc \in {"return", "caller", "exited"} => procs[p].node \notin tree
  PROVE  Ordered'
<1>1. /\ Len(procs') = Len(procs) /\ DOMAIN procs' = DOMAIN procs
      /\ \A q \in DOMAIN procs :
           /\ procs'[q].node = procs[q].node /\ procs'[q].parent = procs[q].parent
           /\ procs'[q].pc = "reaped" <=> procs[q].pc = "reaped"
           /\ procs'[q].pc = "verify" <=> procs[q].pc = "verify"
           /\ procs'[q].pc = "wait" <=> procs[q].pc = "wait"
           /\ q # p => procs'[q].pc = procs[q].pc
  BY DEF StaysAt
<1>2. Nodes'
  BY <1>1 DEF Ordered, Nodes
<1>3. Children'
  BY <1>1 DEF Ordered, Children, Unreaped
<1>4. Counts'
  <2> SUFFICES ASSUME NEW q \in DOMAIN procs', Unreaped(q)', procs'[q].pc # "wait"
               PROVE  /\ procs'[q].pc = "verify" =>
                           /\ q > 1 /\ q = Len(procs') /\ Len(verified') + 2 = Len(procs')
                           /\ Len(verified') = Counted(tree', procs'[procs'[q].parent].node)
                      /\ procs'[q].pc # "verify" =>
                           /\ Len(verified') + 1 = Len(procs')
                           /\ Len(verified') = Counted(tree', procs'[q].node)
    BY DEF Counts
  <2>1. /\ q \in DOMAIN procs /\ Unreaped(q) /\ procs[q].pc # "wait"
        /\ procs'[q].pc = "verify" <=> procs[q].pc = "verify"
        /\ procs'[q].node = procs[q].node /\ procs'[q].parent = procs[q].parent
        /\ Len(procs') = Len(procs) /\ verified' = verified /\ tree' = tree
    BY <1>1 DEF Unreaped
  <2>2. /\ procs[q].pc = "verify" =>
             /\ q > 1 /\ q = Len(procs) /\ Len(verified) + 2 = Len(procs)
             /\ Len(verified) = Counted(tree, procs[procs[q].parent].node)
        /\ procs[q].pc # "verify" =>
             Len(verified) + 1 = Len(procs) /\ Len(verified) = Counted(tree, procs[q].node)
    BY <2>1 DEF Ordered, Counts
  <2>3. procs[q].pc = "verify" => procs'[procs[q].parent].node = procs[procs[q].parent].node
    BY <1>1, <2>1, <2>2 DEF Ordered, Children, Unreaped
  <2> QED BY <2>1, <2>2, <2>3
<1>5. Told'
  BY DEF Ordered, Told
<1> QED BY <1>2, <1>3, <1>4, <1>5 DEF Ordered

LEMMA OrderQuiet ==
  ASSUME ForkIInv, function = "clone", Ordered, NEW p \in DOMAIN procs,
         Leaf(p) \/ Spawn(p) \/ ThreadEnds(p) \/ Join(p) \/ Return(p) \/ CallerEnds(p)
  PROVE  Ordered'
<1>1. procs \in Seq(Processes) /\ procs[p] \in Processes /\ ForkTypes
  BY SeqFacts DEF ForkIInv, ForkTypes
<1>2. /\ procs[p].pc \in {"join", "fork", "wait"} => procs[p].node \in tree
      /\ procs[p].pc \in {"return", "caller", "exited"} => procs[p].node \notin tree
  BY DEF Ordered, Nodes
<1>3. CASE Leaf(p)
  <2>1. StaysAt(p) /\ procs'[p].pc = "return"
    BY <1>1, <1>3, PcSet DEF Leaf, Continue
  <2> QED BY <1>3, <2>1, OrderGoesOn DEF Leaf, At
<1>4. CASE Spawn(p)
  <2>1. PICK n : procs' = [procs EXCEPT ![p].pc = "join", ![p].threads = n]
    BY <1>4 DEF Spawn
  <2>2. /\ Len(procs') = Len(procs) /\ DOMAIN procs' = DOMAIN procs
        /\ procs'[p] = [procs[p] EXCEPT !.pc = "join", !.threads = n]
        /\ \A q \in DOMAIN procs \ {p} : procs'[q] = procs[q]
    BY <1>1, <2>1
  <2>3. StaysAt(p) /\ procs'[p].pc = "join"
    BY <1>1, <2>2 DEF StaysAt, Processes
  <2> QED BY <1>4, <2>3, OrderGoesOn DEF Spawn, At
<1>5. CASE ThreadEnds(p)
  <2>1. procs[p].pc = "join"
    BY <1>5 DEF ThreadEnds, ForkIInv, Joined
  <2>2. /\ Len(procs') = Len(procs) /\ DOMAIN procs' = DOMAIN procs
        /\ procs'[p] = [procs[p] EXCEPT !.threads = @ - 1]
        /\ \A q \in DOMAIN procs \ {p} : procs'[q] = procs[q]
    BY <1>1, <1>5 DEF ThreadEnds
  <2>3. StaysAt(p) /\ procs'[p].pc = "join"
    BY <1>1, <2>1, <2>2 DEF StaysAt, Processes
  <2> QED BY <1>2, <1>5, <2>1, <2>3, OrderGoesOn DEF ThreadEnds
<1>6. CASE Join(p)
  <2>1. StaysAt(p) /\ procs'[p].pc = "fork"
    BY <1>1, <1>6, PcSet DEF Join, Continue
  <2> QED BY <1>2, <1>6, <2>1, OrderGoesOn DEF Join, At
<1>7. CASE Return(p)
  <2>1. PICK place \in {"caller", "exited"} : StaysAt(p) /\ procs'[p].pc = place
    BY <1>1, <1>7, PcSet DEF Return, Continue
  <2> QED BY <1>2, <1>7, <2>1, OrderGoesOn DEF Return, At
<1>8. CASE CallerEnds(p)
  <2>1. StaysAt(p) /\ procs'[p].pc = "exited"
    BY <1>1, <1>8, PcSet DEF CallerEnds, Continue
  <2> QED BY <1>2, <1>8, <2>1, OrderGoesOn DEF CallerEnds, At
<1> QED BY <1>3, <1>4, <1>5, <1>6, <1>7, <1>8

(* The parent of a child waits at a node of the tree. *)
LEMMA ParentWaits ==
  ASSUME ForkIInv, Ordered, NEW c \in DOMAIN procs, Unreaped(c), c > 1, NEW p, p = procs[c].parent
  PROVE  /\ p \in DOMAIN procs /\ p < c /\ procs[p].pc = "wait"
         /\ procs[p].node \in tree /\ procs[p].node \in Nat
<1>1. p \in DOMAIN procs /\ p < c /\ Unreaped(p)
  BY DEF Ordered, Children, ForkIInv, InChain
<1>2. procs[p].pc = "wait"
  BY <1>1 DEF ForkIInv, OthersWait
<1> QED BY <1>1, <1>2 DEF Ordered, Nodes

(* The child is the newest process, and its node is the next after that of its parent. *)
LEMMA OrderVerify ==
  ASSUME ForkIInv, function = "clone", Ordered, NEW p \in DOMAIN procs, Verify(p)
  PROVE  Ordered'
<1> DEFINE y == procs[procs[p].parent].node
           v == Len(verified)
<1>1. /\ procs[p].pc = "verify" /\ UNCHANGED tree
      /\ verified' = Append(verified, [pid |-> p - 1, node |-> procs[p].node])
      /\ StaysAt(p) /\ procs'[p].pc = "call"
  BY PcSet DEF Verify, At, Continue, ForkIInv
<1>2. /\ p > 1 /\ p = Len(procs) /\ v + 2 = Len(procs) /\ v = Counted(tree, y)
      /\ procs[p].node = 2 * y + 1 /\ Unreaped(p)
  BY <1>1 DEF Ordered, Counts, Children, Unreaped
<1>3. y \in tree /\ y \in Nat
  BY <1>2, ParentWaits
<1>4. Counted(tree, 2 * y + 1) = v + 1
  BY <1>2, <1>3, CountedLeft DEF Ordered
<1> HIDE DEF y
<1>5. /\ IsSequence(verified') /\ v \in Nat /\ Len(verified') = v + 1
      /\ DOMAIN verified = 1 .. v /\ DOMAIN verified' = 1 .. v + 1
      /\ \A i \in 1 .. v : verified'[i] = verified[i]
      /\ verified'[v + 1] = [pid |-> p - 1, node |-> procs[p].node]
  BY <1>1, AppendAny DEF Ordered
<1> HIDE DEF v
<1>6. /\ Len(procs') = Len(procs) /\ DOMAIN procs' = DOMAIN procs /\ procs'[p].pc = "call"
      /\ \A q \in DOMAIN procs :
           procs'[q].node = procs[q].node /\ procs'[q].parent = procs[q].parent
      /\ \A q \in DOMAIN procs \ {p} : procs'[q] = procs[q]
  BY <1>1 DEF StaysAt
<1>7. Nodes'
  BY <1>1, <1>6 DEF Ordered, Nodes
<1>8. Children'
  <2>1. \A q \in DOMAIN procs :
          /\ procs'[q].pc = "reaped" <=> procs[q].pc = "reaped"
          /\ procs'[q].pc = "verify" => procs[q].pc = "verify"
    BY <1>1, <1>6
  <2> QED BY <1>6, <2>1 DEF Ordered, Children, Unreaped
<1>9. \A q \in DOMAIN procs \ {p} : procs[q].pc \in {"wait", "reaped"}
  <2> SUFFICES ASSUME NEW q \in DOMAIN procs \ {p}, Unreaped(q) PROVE procs[q].pc = "wait"
    BY DEF Unreaped
  <2>1. procs \in Seq(Processes)
    BY DEF ForkIInv, ForkTypes
  <2>2. q < p
    BY <1>2, <2>1, SeqFacts
  <2> QED BY <1>2, <2>2 DEF ForkIInv, OthersWait
<1>10. Counts'
  <2>1. Len(verified') + 1 = Len(procs') /\ Len(verified') = Counted(tree', procs'[p].node)
    BY <1>1, <1>2, <1>4, <1>5, <1>6
  <2>2. \A q \in DOMAIN procs' : procs'[q].pc # "reaped" /\ procs'[q].pc # "wait" => q = p
    BY <1>6, <1>9
  <2> QED BY <1>6, <2>1, <2>2 DEF Counts, Unreaped
<1>11. Told'
  <2> DEFINE Says(n) ==
               /\ verified'[n].pid = n
               /\ \E node \in tree : verified'[n].node = 2 * node + 1 /\ Counted(tree, node) = n - 1
  <2>1. \A n \in 1 .. v : Says(n)
    BY <1>5 DEF Ordered, Told
  <2> DEFINE fresh == v + 1
  <2>2. /\ verified'[fresh].pid = fresh /\ verified'[fresh].node = 2 * y + 1
        /\ Counted(tree, y) = fresh - 1
    BY <1>2, <1>5
  <2> HIDE DEF fresh
  <2>3. Says(fresh)
    BY <1>3, <2>2
  <2> HIDE DEF Says
  <2>4. \A n \in DOMAIN verified' : n \in 1 .. v \/ n = fresh
    BY <1>5 DEF fresh
  <2>5. \A n \in DOMAIN verified' : Says(n)
    BY <2>1, <2>3, <2>4
  <2> QED BY <1>1, <2>5 DEF Told, Says
<1> QED BY <1>1, <1>5, <1>7, <1>8, <1>10, <1>11 DEF Ordered

(* The child starts in the left subtree of the node that forks. *)
LEMMA OrderFork ==
  ASSUME ForkIInv, function = "clone", Ordered, NEW p \in DOMAIN procs, Fork(p)
  PROVE  Ordered'
<1> DEFINE c == Len(procs) + 1
           y == procs[p].node
           new == Process(2 * y + 1, "verify", p)
           old == [procs EXCEPT ![p].pc = "wait"]
<1>1. /\ procs \in Seq(Processes) /\ procs[p] \in Processes
      /\ procs[p].pc = "fork" /\ UNCHANGED <<tree, verified>>
  BY SeqFacts DEF ForkIInv, ForkTypes, Fork, At
<1>2. procs' = Append(old, new)
  BY DEF Fork, Left
<1>3. /\ p \in 1 .. Len(procs) /\ Len(procs) \in Nat /\ DOMAIN procs = 1 .. Len(procs)
      /\ Len(old) = Len(procs) /\ IsSequence(old)
      /\ old[p] = [procs[p] EXCEPT !.pc = "wait"]
      /\ \A q \in (1 .. Len(procs)) \ {p} : old[q] = procs[q]
  <2>1. [procs[p] EXCEPT !.pc = "wait"] \in Processes
    BY <1>1 DEF Processes, ForkPlaces
  <2>2. old = [procs EXCEPT ![p] = [procs[p] EXCEPT !.pc = "wait"]]
    BY <1>1
  <2>3. old \in Seq(Processes)
    BY <1>1, <2>1, <2>2, SeqFacts
  <2> QED BY <1>1, <2>3 DEF IsSequence
<1>4. /\ Len(procs') = c /\ DOMAIN procs' = 1 .. c /\ procs'[c] = new
      /\ \A q \in 1 .. Len(procs) : procs'[q] = old[q]
  BY <1>2, <1>3, AppendAny
<1>5. /\ procs'[c].pc = "verify" /\ procs'[c].parent = p /\ procs'[c].node = 2 * y + 1
      /\ procs'[p].pc = "wait" /\ procs'[p].node = y /\ procs'[p].parent = procs[p].parent
      /\ \A q \in (1 .. Len(procs)) \ {p} : procs'[q] = procs[q]
  <2>1. new.pc = "verify" /\ new.parent = p /\ new.node = 2 * y + 1
    BY DEF Process
  <2>2. /\ [procs[p] EXCEPT !.pc = "wait"].pc = "wait"
        /\ [procs[p] EXCEPT !.pc = "wait"].node = y
        /\ [procs[p] EXCEPT !.pc = "wait"].parent = procs[p].parent
    BY <1>1 DEF Processes
  <2> HIDE DEF new, old, c
  <2>3. procs'[c].pc = "verify" /\ procs'[c].parent = p /\ procs'[c].node = 2 * y + 1
    BY <1>4, <2>1
  <2>4. procs'[p] = [procs[p] EXCEPT !.pc = "wait"]
    BY <1>3, <1>4
  <2>5. procs'[p].pc = "wait" /\ procs'[p].node = y /\ procs'[p].parent = procs[p].parent
    BY <2>2, <2>4
  <2>6. \A q \in (1 .. Len(procs)) \ {p} : procs'[q] = procs[q]
    BY <1>3, <1>4
  <2> QED BY <2>3, <2>5, <2>6
<1>6. /\ y \in tree /\ y \in Nat
      /\ Len(verified) + 1 = Len(procs) /\ Len(verified) = Counted(tree, y)
  BY <1>1 DEF Ordered, Nodes, Counts, Unreaped
<1>7. \A q \in 1 .. Len(procs) :
        /\ procs'[q].node = procs[q].node /\ procs'[q].parent = procs[q].parent
        /\ procs'[q].pc = "reaped" <=> procs[q].pc = "reaped"
        /\ procs'[q].pc = "verify" => procs[q].pc = "verify"
  BY <1>1, <1>5
<1>8. \A q \in (1 .. Len(procs)) \ {p} : procs[q].pc \in {"wait", "reaped"}
  <2> SUFFICES ASSUME NEW q \in (1 .. Len(procs)) \ {p}, procs[q].pc # "reaped" PROVE procs[q].pc = "wait"
    OBVIOUS
  <2>1. q < p \/ p < q
    BY <1>3
  <2> QED BY <1>1, <1>3, <2>1 DEF ForkIInv, OthersWait, Unreaped
<1> HIDE DEF new, old, c, y
<1>9. /\ c = Len(procs) + 1 /\ c > 1 /\ c \notin 1 .. Len(procs)
      /\ \A q \in 1 .. c : q = c \/ q \in 1 .. Len(procs)
      /\ \A q \in 1 .. Len(procs) : q \in 1 .. c
  BY <1>3 DEF c
<1>10. Nodes'
  <2>1. 2 * y + 1 \in Nat
    BY <1>6
  <2>2. procs'[c].node \in Nat
    BY <1>5, <2>1
  <2>3. \A q \in 1 .. Len(procs) :
          /\ procs'[q].node \in Nat
          /\ procs'[q].pc \in {"join", "fork", "wait"} => procs'[q].node \in tree
          /\ procs'[q].pc \in {"return", "caller", "exited"} => procs'[q].node \notin tree
    BY <1>3, <1>5, <1>6 DEF Ordered, Nodes
  <2> QED BY <1>1, <1>4, <1>5, <1>9, <2>2, <2>3 DEF Nodes
<1>11. Children'
  <2> SUFFICES ASSUME NEW q \in 1 .. c, procs'[q].pc # "reaped", q > 1
               PROVE  /\ procs'[q].parent \in 1 .. c
                      /\ procs'[procs'[q].parent].pc # "reaped"
                      /\ Spine(procs'[procs'[q].parent].node, procs'[q].node)
                      /\ procs'[q].pc = "verify" =>
                           procs'[q].node = 2 * procs'[procs'[q].parent].node + 1
    BY <1>4 DEF Children, Unreaped
  <2>1. CASE q = c
    <3>1. Spine(y, 2 * y + 1)
      BY <1>6, SpineStarts
    <3> QED BY <1>3, <1>5, <1>9, <2>1, <3>1
  <2>2. CASE q \in 1 .. Len(procs)
    <3>1. procs[q].pc # "reaped" /\ q \in DOMAIN procs
      BY <1>3, <1>7, <2>2
    <3>2. /\ procs[q].parent \in 1 .. Len(procs)
          /\ procs[procs[q].parent].pc # "reaped"
          /\ Spine(procs[procs[q].parent].node, procs[q].node)
          /\ procs[q].pc = "verify" => procs[q].node = 2 * procs[procs[q].parent].node + 1
      BY <1>3, <3>1 DEF Ordered, Children, Unreaped
    <3> QED BY <1>7, <1>9, <2>2, <3>2
  <2> QED BY <1>9, <2>1, <2>2
<1>12. Counts'
  <2>1. \A q \in DOMAIN procs' : procs'[q].pc # "reaped" /\ procs'[q].pc # "wait" => q = c
    BY <1>4, <1>5, <1>8, <1>9
  <2>2. /\ Len(verified') + 2 = Len(procs')
        /\ Len(verified') = Counted(tree', procs'[procs'[c].parent].node)
    BY <1>1, <1>3, <1>4, <1>5, <1>6, <1>9
  <2> QED BY <1>4, <1>5, <1>9, <2>1, <2>2 DEF Counts, Unreaped
<1>13. Told'
  BY <1>1 DEF Ordered, Told
<1> QED BY <1>1, <1>10, <1>11, <1>12, <1>13 DEF Ordered

(* The parent goes on to the right of its node, the left subtree being done. *)
LEMMA OrderWait ==
  ASSUME ForkIInv, function = "clone", Ordered, NEW p \in DOMAIN procs, Wait(p)
  PROVE  Ordered'
<1> DEFINE y == procs[p].node
<1>1. PICK c \in DOMAIN procs :
        /\ procs[p].pc = "wait" /\ procs[c].parent = p /\ procs[c].pc = "exited"
        /\ procs' = [procs EXCEPT ![c].pc = "reaped", ![p].pc = "call", ![p].node = 2 * y + 2]
        /\ UNCHANGED <<tree, verified>>
  BY DEF Wait, At, Right
<1>2. /\ procs \in Seq(Processes) /\ procs[p] \in Processes /\ procs[c] \in Processes
      /\ p # c /\ DOMAIN procs \subseteq Nat /\ Unreaped(p) /\ Unreaped(c)
  BY <1>1, SeqFacts DEF ForkIInv, ForkTypes, Unreaped
<1>3. /\ Len(procs') = Len(procs) /\ DOMAIN procs' = DOMAIN procs
      /\ procs'[c] = [procs[c] EXCEPT !.pc = "reaped"]
      /\ procs'[p] = [procs[p] EXCEPT !.pc = "call", !.node = 2 * y + 2]
      /\ \A q \in DOMAIN procs \ {p, c} : procs'[q] = procs[q]
  <2> DEFINE a == [procs[c] EXCEPT !.pc = "reaped"]
             b == [procs[p] EXCEPT !.pc = "call", !.node = 2 * y + 2]
             first == [procs EXCEPT ![c] = a]
  <2>1. a \in Processes /\ b \in Processes
    <3>1. y \in Int /\ 2 * y + 2 \in Int
      BY <1>2 DEF Processes
    <3>2. a \in Processes
      BY <1>2 DEF Processes, ForkPlaces
    <3>3. b \in Processes
      BY <1>2, <3>1 DEF Processes, ForkPlaces
    <3> QED BY <3>2, <3>3
  <2>2. procs' = [first EXCEPT ![p] = b]
    BY <1>1, <1>2
  <2> HIDE DEF a, b
  <2>3. /\ first \in Seq(Processes) /\ Len(first) = Len(procs) /\ DOMAIN first = DOMAIN procs
        /\ \A q \in DOMAIN procs : first[q] = IF q = c THEN a ELSE procs[q]
    BY <1>2, <2>1, SeqFacts
  <2> HIDE DEF first
  <2>4. /\ Len(procs') = Len(first) /\ DOMAIN procs' = DOMAIN first
        /\ \A q \in DOMAIN first : procs'[q] = IF q = p THEN b ELSE first[q]
    BY <2>1, <2>2, <2>3, SeqFacts
  <2>5. procs'[c] = a /\ procs'[p] = b
    BY <1>2, <2>3, <2>4
  <2> QED BY <2>3, <2>4, <2>5 DEF a, b
<1>4. /\ procs'[c].pc = "reaped" /\ procs'[c].node = procs[c].node
      /\ procs'[p].pc = "call" /\ procs'[p].node = 2 * y + 2
      /\ \A q \in DOMAIN procs : procs'[q].parent = procs[q].parent
  <2>1. procs[c] \in Processes /\ procs[p] \in Processes
    BY <1>2
  <2>2. procs'[c].pc = "reaped" /\ procs'[c].node = procs[c].node /\ procs'[c].parent = procs[c].parent
    BY <1>3, <2>1 DEF Processes
  <2>3. procs'[p].pc = "call" /\ procs'[p].node = 2 * y + 2 /\ procs'[p].parent = procs[p].parent
    BY <1>3, <2>1 DEF Processes
  <2> QED BY <1>3, <2>2, <2>3
<1>5. c > 1 /\ p < c
  <2>1. p \in 1 .. Len(procs) /\ c \in 1 .. Len(procs) /\ Len(procs) \in Nat
    BY <1>2, SeqFacts
  <2>2. CASE c > 1
    BY <1>1, <1>2, <2>2 DEF ForkIInv, InChain
  <2>3. CASE c = 1
    <3>1. c < p
      BY <1>2, <2>1, <2>3
    <3> QED BY <1>1, <1>2, <3>1 DEF ForkIInv, OthersWait
  <2> QED BY <2>1, <2>2, <2>3
<1>6. ASSUME NEW q \in DOMAIN procs, Unreaped(q), q # c, q # p
      PROVE  q < p /\ procs[q].pc = "wait"
  <2>1. ~(c < q)
    BY <1>1, <1>2, <1>6 DEF ForkIInv, OthersWait
  <2>2. ~(p < q /\ q < c)
    BY <1>1, <1>2, <1>5, <1>6 DEF ForkIInv, InChain
  <2>3. q < p
    BY <1>2, <1>6, <2>1, <2>2
  <2> QED BY <1>2, <1>6, <2>3 DEF ForkIInv, OthersWait
<1>7. /\ y \in tree /\ y \in Nat /\ procs[c].node \in Nat /\ procs[c].node \notin tree
      /\ Spine(y, procs[c].node)
      /\ Len(verified) + 1 = Len(procs) /\ Len(verified) = Counted(tree, procs[c].node)
  BY <1>1, <1>2, <1>5 DEF Ordered, Nodes, Children, Counts
<1>8. Counted(tree, 2 * y + 2) = Len(verified)
  BY <1>7, SpineEnds DEF Ordered
<1>9. 2 * y + 2 \in Nat
  BY <1>7
<1> HIDE DEF y
<1>10. Nodes'
  <2>1. ASSUME NEW q \in DOMAIN procs
        PROVE  /\ procs'[q].node \in Nat
               /\ procs'[q].pc \in {"join", "fork", "wait"} => procs'[q].node \in tree
               /\ procs'[q].pc \in {"return", "caller", "exited"} => procs'[q].node \notin tree
    <3>1. CASE q = p
      BY <1>4, <1>9, <3>1
    <3>2. CASE q = c
      BY <1>4, <1>7, <3>2
    <3>3. CASE q \notin {p, c}
      BY <1>3, <3>3 DEF Ordered, Nodes
    <3> QED BY <3>1, <3>2, <3>3
  <2> QED BY <1>1, <1>3, <2>1 DEF Nodes
<1>11. Children'
  <2> SUFFICES ASSUME NEW q \in DOMAIN procs, procs'[q].pc # "reaped", q > 1
               PROVE  /\ procs[q].parent \in DOMAIN procs
                      /\ procs'[procs[q].parent].pc # "reaped"
                      /\ Spine(procs'[procs[q].parent].node, procs'[q].node)
                      /\ procs'[q].pc = "verify" =>
                           procs'[q].node = 2 * procs'[procs[q].parent].node + 1
    BY <1>3, <1>4 DEF Children, Unreaped
  <2>1. q # c /\ Unreaped(q)
    BY <1>2, <1>3, <1>4 DEF Unreaped
  <2> DEFINE r == procs[q].parent
  <2>2. /\ r \in DOMAIN procs /\ r < q /\ procs[r].pc = "wait"
        /\ procs[r].node \in Nat /\ Spine(procs[r].node, procs[q].node)
        /\ procs[q].pc = "verify" => procs[q].node = 2 * procs[r].node + 1
    BY <2>1, ParentWaits DEF Ordered, Children
  <2> HIDE DEF r
  <2>3. q = p \/ (q < p /\ procs[q].pc = "wait")
    BY <1>6, <2>1
  <2>4. r # p /\ r # c
    BY <1>2, <1>5, <2>2, <2>3
  <2>5. procs'[r] = procs[r]
    BY <1>3, <2>2, <2>4
  <2>6. CASE q = p
    <3>1. Spine(procs[r].node, 2 * y + 2)
      BY <1>7, <2>2, <2>6, SpineGoesOn DEF y
    <3> QED BY <1>4, <2>2, <2>5, <2>6, <3>1 DEF r
  <2>7. CASE q # p
    <3>1. procs'[q] = procs[q]
      BY <1>3, <2>1, <2>7
    <3> QED BY <2>2, <2>5, <3>1 DEF r
  <2> QED BY <2>6, <2>7
<1>12. Counts'
  <2>1. ASSUME NEW q \in DOMAIN procs, q # p
        PROVE  procs'[q].pc = "reaped" \/ procs'[q].pc = "wait"
    <3>1. CASE q = c
      BY <1>4, <3>1
    <3>2. CASE q # c /\ Unreaped(q)
      BY <1>3, <1>6, <2>1, <3>2
    <3>3. CASE q # c /\ ~Unreaped(q)
      BY <1>3, <2>1, <3>3 DEF Unreaped
    <3> QED BY <3>1, <3>2, <3>3
  <2>2. Len(verified') + 1 = Len(procs') /\ Len(verified') = Counted(tree', procs'[p].node)
    BY <1>1, <1>3, <1>4, <1>7, <1>8
  <2> QED BY <1>3, <1>4, <2>1, <2>2 DEF Counts, Unreaped
<1>13. Told'
  BY <1>1 DEF Ordered, Told
<1> QED BY <1>1, <1>10, <1>11, <1>12, <1>13 DEF Ordered

-----------------------------------------------------------------------------
(* The order of the processes of w2_clone is that of figure (B) of week02.h, and a
   process and its threads are never active beside another process: for every tree and
   every number of threads, as long as no fork fails for the first, and even if forks
   fail for the second. *)
THEOREM ForksOrdered == ForkInit /\ [][ForkNext]_forkVars => []ForksInOrder
<1> DEFINE Inv == ForkIInv /\ OrderIInv
<1>1. Inv /\ [ForkNext]_forkVars => Inv'
  <2> SUFFICES ASSUME ForkIInv, OrderIInv, [ForkNext]_forkVars PROVE ForkIInv' /\ OrderIInv'
    OBVIOUS
  <2>1. CASE ForkNext
    <3>1. ForkIInv'
      BY <2>1, ForkStepInv, ForkInv, WaitInv DEF ForkNext
    <3>2. ASSUME function' = "clone", ~failed' PROVE Ordered'
      <4>1. PICK p \in DOMAIN procs :
              \/ Leaf(p) \/ Spawn(p) \/ ThreadEnds(p) \/ Join(p) \/ Fork(p) \/ ForkFails(p)
              \/ Verify(p) \/ Wait(p) \/ Return(p) \/ CallerEnds(p)
        BY <2>1 DEF ForkNext
      <4>2. function = "clone" /\ ~failed /\ ~ForkFails(p)
        <5>1. ~ForkFails(p)
          BY <3>2 DEF ForkFails
        <5>2. function' = function /\ failed' = failed
          BY <4>1, <5>1 DEF Leaf, Spawn, ThreadEnds, Join, Fork, Verify, Wait, Return, CallerEnds
        <5> QED BY <3>2, <5>1, <5>2
      <4>3. Ordered
        BY <4>2 DEF OrderIInv
      <4> QED BY <4>1, <4>2, <4>3, OrderQuiet, OrderVerify, OrderFork, OrderWait
    <3> QED BY <3>1, <3>2 DEF OrderIInv
  <2>2. CASE UNCHANGED forkVars
    <3>1. ForkIInv'
      BY <2>2 DEF forkVars, ForkIInv, ForkTypes, Joined, OthersWait, InChain, Unreaped
    <3>2. OrderIInv'
      BY <2>2 DEF forkVars, OrderIInv, Ordered, Nodes, Children, Counts, Told, Unreaped
    <3> QED BY <3>1, <3>2
  <2> QED BY <2>1, <2>2
<1>2. OrderIInv => ForkOrder
  BY DEF OrderIInv, Ordered, Told, Counted, ForkOrder, Left
<1>3. ForkIInv => OneProcessRuns
  BY RunsAlone
<1>4. ForkInit => Inv
  BY InitForkIInv, InitOrderIInv
<1>5. Inv => ForksInOrder
  BY <1>2, <1>3 DEF ForksInOrder
<1> QED BY <1>1, <1>4, <1>5, PTL
=============================================================================
