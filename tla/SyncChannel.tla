----------------------------- MODULE SyncChannel -----------------------------
(***************************************************************************)
(* What a channel of lab 2 promises (src/os21-lab2/done/channel.h and the  *)
(* Channels section of the handout): sends and receives meet in pairs.  A  *)
(* call that arrives when the other side waits is paired with the first    *)
(* that waits, a call that arrives first waits its turn, and no call       *)
(* returns before it has been paired.                                      *)
(***************************************************************************)
EXTENDS Naturals, Sequences

CONSTANTS Senders, Receivers, Values, NULL

VARIABLES
  sends,     \* the sends that wait: records [thread, value], in order
  recvs,     \* the threads whose receive waits, in order
  paired,    \* the senders whose send is paired and has not returned
  given,     \* for each receiver, the value its receive has been given
  received   \* for each receiver, the values its receives have returned

vars == <<sends, recvs, paired, given, received>>

Init ==
  /\ sends = <<>>
  /\ recvs = <<>>
  /\ paired = {}
  /\ given = [r \in Receivers |-> NULL]
  /\ received = [r \in Receivers |-> <<>>]

(* s is not in a send. *)
NotSending(s) == s \notin paired /\ \A i \in DOMAIN sends : sends[i].thread # s

NotReceiving(r) == given[r] = NULL /\ \A i \in DOMAIN recvs : recvs[i] # r

SendPair(s, v) ==
  /\ NotSending(s)
  /\ recvs # <<>>
  /\ given' = [given EXCEPT ![Head(recvs)] = v]
  /\ recvs' = Tail(recvs)
  /\ paired' = paired \cup {s}
  /\ UNCHANGED <<sends, received>>

SendWait(s, v) ==
  /\ NotSending(s)
  /\ recvs = <<>>
  /\ sends' = Append(sends, [thread |-> s, value |-> v])
  /\ UNCHANGED <<recvs, paired, given, received>>

SendReturn(s) ==
  /\ s \in paired
  /\ paired' = paired \ {s}
  /\ UNCHANGED <<sends, recvs, given, received>>

RecvPair(r) ==
  /\ NotReceiving(r)
  /\ sends # <<>>
  /\ given' = [given EXCEPT ![r] = Head(sends).value]
  /\ paired' = paired \cup {Head(sends).thread}
  /\ sends' = Tail(sends)
  /\ UNCHANGED <<recvs, received>>

RecvWait(r) ==
  /\ NotReceiving(r)
  /\ sends = <<>>
  /\ recvs' = Append(recvs, r)
  /\ UNCHANGED <<sends, paired, given, received>>

RecvReturn(r) ==
  /\ given[r] # NULL
  /\ received' = [received EXCEPT ![r] = Append(@, given[r])]
  /\ given' = [given EXCEPT ![r] = NULL]
  /\ UNCHANGED <<sends, recvs, paired>>

Next ==
  \/ \E s \in Senders : SendReturn(s) \/ \E v \in Values : SendPair(s, v) \/ SendWait(s, v)
  \/ \E r \in Receivers : RecvPair(r) \/ RecvWait(r) \/ RecvReturn(r)

Spec == Init /\ [][Next]_vars
=============================================================================
