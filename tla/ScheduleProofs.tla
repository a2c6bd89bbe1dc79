--------------------------- MODULE ScheduleProofs ---------------------------
(***************************************************************************)
(* Lemmas about the lists of threads and about the steps of schedule():    *)
(* each preserves SchedInv, whatever runs on the scheduler.                *)
(***************************************************************************)
EXTENDS Schedule, TLAPS

(* The locals of schedule() are dead while a thread runs or switches out. *)
Hands ==
  \A s \in Sys :
    spc[s] \in {"green", "enter", "release"} => cur[s] = NULL /\ next[s] = NULL

(* The state of a thread tells where it can be. *)
StatesMatch ==
  /\ \A s \in Sys :
       /\ spc[s] = "green" => state[current[s]] = "RUNNING"
       /\ spc[s] = "enter" => state[current[s]] \in {"RUNNING", "BLOCKED", "JOINING", "ZOMBIE"}
       /\ cur[s] # NULL => state[cur[s]] \in {"RUNNABLE", "JOINING", "ZOMBIE", "DEAD"}
       /\ next[s] # NULL => state[next[s]] = "RUNNABLE"
  /\ \A t \in Elements(runnable) : state[t] = "RUNNABLE"

SchedInv == SchedTypeOK /\ Hands /\ StatesMatch /\ OnePlace

-----------------------------------------------------------------------------
(* Lists. *)

(* The threads of a list are threads. *)
LEMMA ElementsType ==
  ASSUME NEW S, NEW q \in Seq(S)
  PROVE  Elements(q) \subseteq S
BY DEF Elements

(* An empty list has no thread. *)
LEMMA ElementsEmpty == Elements(<<>>) = {}
BY DEF Elements

(* thread_list_add puts one thread more into a list. *)
LEMMA ElementsAppend ==
  ASSUME NEW S, NEW q \in Seq(S), NEW x \in S
  PROVE  /\ Append(q, x) \in Seq(S)
         /\ Elements(Append(q, x)) = Elements(q) \cup {x}
<1> DEFINE r == Append(q, x)
<1>1. /\ r \in Seq(S)
      /\ DOMAIN r = 1 .. Len(q) + 1
      /\ DOMAIN q = 1 .. Len(q)
      /\ Len(q) \in Nat
      /\ \A i \in 1 .. Len(q) : r[i] = q[i]
      /\ r[Len(q) + 1] = x
  OBVIOUS
<1> HIDE DEF r
<1>2. Elements(r) \subseteq Elements(q) \cup {x}
  BY <1>1 DEF Elements
<1>3. ASSUME NEW y \in Elements(q) PROVE y \in Elements(r)
  <2>1. PICK i \in 1 .. Len(q) : q[i] = y
    BY <1>1 DEF Elements
  <2>2. i \in DOMAIN r /\ r[i] = y
    BY <1>1, <2>1
  <2> QED BY <2>2 DEF Elements
<1>4. x \in Elements(r)
  BY <1>1 DEF Elements
<1> QED BY <1>1, <1>2, <1>3, <1>4 DEF r

(* thread_list_pop takes the first thread, and leaves the others. *)
LEMMA ElementsTail ==
  ASSUME NEW S, NEW q \in Seq(S), q # <<>>
  PROVE  /\ Head(q) \in Elements(q)
         /\ Head(q) \in S
         /\ Tail(q) \in Seq(S)
         /\ Elements(q) = {Head(q)} \cup Elements(Tail(q))
<1> DEFINE r == Tail(q)
<1>1. /\ r \in Seq(S)
      /\ DOMAIN q = 1 .. Len(q)
      /\ Len(q) \in Nat \ {0}
      /\ DOMAIN r = 1 .. Len(q) - 1
      /\ \A i \in 1 .. Len(q) - 1 : r[i] = q[i + 1]
      /\ Head(q) = q[1]
      /\ q[1] \in S
  OBVIOUS
<1> HIDE DEF r
<1>2. Head(q) \in Elements(q)
  BY <1>1 DEF Elements
<1>3. Elements(r) \subseteq Elements(q)
  <2> SUFFICES ASSUME NEW i \in 1 .. Len(r) PROVE r[i] \in Elements(q)
    BY DEF Elements
  <2>1. i + 1 \in 1 .. Len(q) /\ r[i] = q[i + 1]
    BY <1>1
  <2> QED BY <1>1, <2>1 DEF Elements
<1>4. ASSUME NEW y \in Elements(q), y # Head(q) PROVE y \in Elements(r)
  <2>1. PICK i \in 1 .. Len(q) : q[i] = y
    BY <1>1 DEF Elements
  <2>2. i - 1 \in DOMAIN r /\ r[i - 1] = y
    BY <1>1, <1>4, <2>1
  <2> QED BY <2>2 DEF Elements
<1> QED BY <1>1, <1>2, <1>3, <1>4 DEF r

(* A thread that is not in a list can be added. *)
LEMMA NoDuplicateAppend ==
  ASSUME NEW S, NEW q \in Seq(S), NEW x \in S, NoDuplicate(q), x \notin Elements(q)
  PROVE  NoDuplicate(Append(q, x))
BY DEF Elements, NoDuplicate

(* The thread that is popped is not in the list any more. *)
LEMMA NoDuplicateTail ==
  ASSUME NEW S, NEW q \in Seq(S), q # <<>>, NoDuplicate(q)
  PROVE  /\ NoDuplicate(Tail(q))
         /\ Head(q) \notin Elements(Tail(q))
BY DEF Elements, NoDuplicate
-----------------------------------------------------------------------------
(* The scheduler. *)

(* The invariant holds when the system threads start. *)
LEMMA SchedInitInv == SchedInit => SchedInv
<1> SUFFICES ASSUME SchedInit PROVE SchedInv
  OBVIOUS
<1> USE DEF SchedInit
<1>a. Elements(Created) \subseteq Threads
  BY ScheduleAssumption, ElementsType
<1>1. SchedTypeOK
  BY ScheduleAssumption DEF SchedTypeOK, ThreadState, LockType
<1>2. Hands /\ StatesMatch
  BY <1>a DEF Hands, StatesMatch
<1>3. OnePlace
  <2>1. \A s \in Sys : Held(s) = {}
    BY DEF Held
  <2> QED BY <2>1, ScheduleAssumption DEF OnePlace
<1> QED BY <1>1, <1>2, <1>3 DEF SchedInv

(* The thread a system thread has in its hands is nowhere else. *)
LEMMA HeldAlone ==
  ASSUME SchedInv, NEW s \in Sys, NEW t \in Held(s)
  PROVE  /\ t \in Threads
         /\ t \notin Elements(runnable)
         /\ \A r \in Sys \ {s} :
              /\ spc[r] \in {"green", "enter"} => current[r] # t
              /\ cur[r] # t
              /\ next[r] # t
<1>1. t \in Threads
  BY DEF SchedInv, SchedTypeOK, Held
<1>2. t \notin Elements(runnable)
  BY DEF SchedInv, OnePlace
<1>3. ASSUME NEW r \in Sys \ {s}
      PROVE  t \notin Held(r)
  BY DEF SchedInv, OnePlace
<1>4. ASSUME NEW r \in Sys \ {s}
      PROVE  /\ spc[r] \in {"green", "enter"} => current[r] # t
             /\ cur[r] # t
             /\ next[r] # t
  <2>1. t # NULL
    BY <1>1, ScheduleAssumption
  <2>2. CASE spc[r] \in {"green", "enter"}
    BY <1>3, <2>1, <2>2 DEF Held, SchedInv, Hands
  <2>3. CASE spc[r] \notin {"green", "enter"}
    BY <1>3, <2>1, <2>3 DEF Held
  <2> QED BY <2>2, <2>3
<1> QED BY <1>1, <1>2, <1>4

(* A system thread that goes on with what it has in its hands, and nothing else moves. *)
LEMMA HeldKept ==
  ASSUME SchedInv, NEW s \in Sys, NEW place, spc' = [spc EXCEPT ![s] = place],
         UNCHANGED <<runnable, cur, next>>, \A r \in Sys \ {s} : current'[r] = current[r],
         Held(s)' = Held(s)
  PROVE  OnePlace'
<1>1. \A r \in Sys \ {s} : spc'[r] = spc[r]
  BY DEF SchedInv, SchedTypeOK
<1>2. \A r \in Sys \ {s} : Held(r)' = Held(r)
  BY <1>1 DEF Held
<1>3. \A r \in Sys : Held(r)' = Held(r)
  BY <1>2
<1> QED BY <1>3 DEF SchedInv, OnePlace

(* yield and the end of a thread. *)
LEMMA YieldInv ==
  ASSUME SchedInv, NEW s \in Sys, NEW t \in Threads,
         NEW st \in {"RUNNING", "JOINING", "ZOMBIE"}, yield(s, t, st)
  PROVE  SchedInv'
<1> USE DEF SchedInv, yield, OnCpu
<1>1. SchedTypeOK'
  BY DEF SchedTypeOK, ThreadState
<1>2. Hands'
  BY DEF Hands, SchedTypeOK
<1>3. OnePlace'
  <2>1. Held(s)' = Held(s)
    BY DEF Held, SchedTypeOK
  <2>2. \A r \in Sys \ {s} : current'[r] = current[r]
    BY DEF SchedTypeOK
  <2> QED BY <2>1, <2>2, HeldKept
<1>4. StatesMatch'
  <2>1. Held(s) = {t}
    BY DEF Held
  <2>2. cur[s] = NULL /\ next[s] = NULL
    BY DEF Hands
  <2> QED BY <2>1, <2>2, HeldAlone DEF StatesMatch, SchedTypeOK
<1> QED BY <1>1, <1>2, <1>3, <1>4

(* A thread blocks. *)
LEMMA CondWaitInv ==
  ASSUME SchedInv, NEW s \in Sys, NEW t \in Threads, NEW tpe \in LockType,
         cond_wait(s, t, tpe)
  PROVE  SchedInv'
<1> USE DEF SchedInv, cond_wait, OnCpu
<1>1. SchedTypeOK'
  BY DEF SchedTypeOK, ThreadState
<1>2. Hands'
  BY DEF Hands, SchedTypeOK
<1>3. OnePlace'
  <2>1. Held(s)' = Held(s)
    BY DEF Held, SchedTypeOK
  <2>2. \A r \in Sys \ {s} : current'[r] = current[r]
    BY DEF SchedTypeOK
  <2> QED BY <2>1, <2>2, HeldKept
<1>4. StatesMatch'
  <2>1. Held(s) = {t}
    BY DEF Held
  <2>2. cur[s] = NULL /\ next[s] = NULL
    BY DEF Hands
  <2>3. /\ t \notin Elements(runnable)
        /\ \A r \in Sys \ {s} :
             (spc[r] \in {"green", "enter"} => current[r] # t) /\ cur[r] # t /\ next[r] # t
    BY <2>1, HeldAlone
  <2>4. state' = [state EXCEPT ![t] = "BLOCKED"] /\ current[s] = t
    OBVIOUS
  <2> QED BY <2>2, <2>3, <2>4 DEF StatesMatch, SchedTypeOK
<1> QED BY <1>1, <1>2, <1>3, <1>4

(* A thread that is in no hands and not in RUNNABLE is put there. *)
LEMMA MakeRunnableInv ==
  ASSUME SchedInv, NEW t \in Threads, t \notin Elements(runnable),
         \A s \in Sys : t \notin Held(s),
         tsafe_unblock_thread(t)
  PROVE  SchedInv'
<1> USE DEF SchedInv, tsafe_unblock_thread
<1>a. /\ runnable' \in Seq(Threads)
      /\ Elements(runnable') = Elements(runnable) \cup {t}
  BY ElementsAppend DEF SchedTypeOK
<1>1. SchedTypeOK'
  BY <1>a DEF SchedTypeOK, ThreadState
<1>2. Hands'
  BY DEF Hands, SchedTypeOK
<1>3. OnePlace'
  <2>1. NoDuplicate(runnable')
    BY NoDuplicateAppend DEF OnePlace, SchedTypeOK
  <2>2. \A s \in Sys : Held(s)' = Held(s)
    BY DEF Held
  <2> QED BY <1>a, <2>1, <2>2 DEF OnePlace
<1>4. StatesMatch'
  BY <1>a, ScheduleAssumption DEF StatesMatch, Held, Hands, SchedTypeOK
<1> QED BY <1>1, <1>2, <1>3, <1>4

(* A thread that sleeps, off its stack, is made runnable. *)
LEMMA UnblockInv ==
  ASSUME SchedInv, NEW t \in Threads, state[t] = "BLOCKED",
         \A s \in Sys : spc[s] = "enter" => current[s] # t,
         tsafe_unblock_thread(t)
  PROVE  SchedInv'
<1>1. t \notin Elements(runnable) /\ \A s \in Sys : t \notin Held(s)
  BY DEF SchedInv, StatesMatch, Held
<1> QED BY <1>1, MakeRunnableInv

(* schedule() takes over a thread that yielded, joins or ended. *)
LEMMA EnterUnblockedInv ==
  ASSUME SchedInv, NEW s \in Sys, EnterUnblocked(s)
  PROVE  SchedInv'
<1> USE DEF SchedInv, EnterUnblocked
<1> DEFINE t == current[s]
<1>a. /\ t \in Threads /\ t # NULL
      /\ Held(s) = {t}
      /\ cur[s] = NULL /\ next[s] = NULL
  BY ScheduleAssumption DEF SchedTypeOK, Held, Hands
<1>1. SchedTypeOK'
  BY <1>a DEF SchedTypeOK, ThreadState
<1>2. Hands'
  BY DEF Hands, SchedTypeOK
<1>3. OnePlace'
  <2>1. Held(s)' = {t} /\ cur'[s] # next'[s]
    BY <1>a DEF Held, SchedTypeOK
  <2>2. \A r \in Sys \ {s} : Held(r)' = Held(r) /\ cur'[r] = cur[r] /\ next'[r] = next[r]
    BY DEF Held, SchedTypeOK
  <2> QED BY <1>a, <2>1, <2>2 DEF OnePlace
<1>4. StatesMatch'
  BY <1>a, HeldAlone DEF StatesMatch, SchedTypeOK
<1> QED BY <1>1, <1>2, <1>3, <1>4

(* schedule() takes over a thread that blocked. *)
LEMMA EnterBlockedInv ==
  ASSUME SchedInv, NEW s \in Sys, EnterBlocked(s)
  PROVE  SchedInv'
<1> USE DEF SchedInv, EnterBlocked
<1>1. SchedTypeOK'
  BY DEF SchedTypeOK, LockType
<1>2. Hands'
  BY DEF Hands, SchedTypeOK
<1>3. OnePlace'
  <2>1. Held(s)' = {}
    BY DEF Held, SchedTypeOK, Hands
  <2>2. \A r \in Sys \ {s} : Held(r)' = Held(r)
    BY DEF Held, SchedTypeOK
  <2> QED BY <2>1, <2>2 DEF OnePlace
<1>4. StatesMatch'
  BY DEF StatesMatch, SchedTypeOK
<1> QED BY <1>1, <1>2, <1>3, <1>4

(* It has released the thread's lock. *)
LEMMA ReleasedInv ==
  ASSUME SchedInv, NEW s \in Sys, Released(s)
  PROVE  SchedInv'
<1> USE DEF SchedInv, Released
<1>1. SchedTypeOK'
  BY DEF SchedTypeOK
<1>2. Hands'
  BY DEF Hands, SchedTypeOK
<1>3. OnePlace'
  <2>1. Held(s)' = Held(s)
    BY DEF Held, SchedTypeOK, Hands
  <2>2. \A r \in Sys \ {s} : current'[r] = current[r]
    BY DEF SchedTypeOK
  <2> QED BY <2>1, <2>2, HeldKept
<1>4. StatesMatch'
  BY DEF StatesMatch, SchedTypeOK
<1> QED BY <1>1, <1>2, <1>3, <1>4

(* A thread that was yielded to is selected. *)
LEMMA SelectTargetInv ==
  ASSUME SchedInv, NEW s \in Sys, SelectTarget(s)
  PROVE  SchedInv'
<1> USE DEF SchedInv, SelectTarget
<1>1. SchedTypeOK'
  BY DEF SchedTypeOK
<1>2. Hands'
  BY DEF Hands, SchedTypeOK
<1>3. OnePlace'
  <2>1. Held(s)' = Held(s)
    BY DEF Held, SchedTypeOK
  <2>2. \A r \in Sys \ {s} : current'[r] = current[r]
    BY DEF SchedTypeOK
  <2> QED BY <2>1, <2>2, HeldKept
<1>4. StatesMatch'
  BY DEF StatesMatch, SchedTypeOK
<1> QED BY <1>1, <1>2, <1>3, <1>4

(* The policy takes the head of RUNNABLE. *)
LEMMA SelectNextInv ==
  ASSUME SchedInv, NEW s \in Sys, SelectNext(s)
  PROVE  SchedInv'
<1> USE DEF SchedInv, SelectNext
<1> DEFINE n == Head(runnable)
<1>a. /\ n \in Threads /\ n \in Elements(runnable)
      /\ runnable' \in Seq(Threads)
      /\ Elements(runnable) = {n} \cup Elements(runnable')
      /\ NoDuplicate(runnable')
      /\ n \notin Elements(runnable')
  BY ElementsTail, NoDuplicateTail DEF SchedTypeOK, OnePlace
<1> HIDE DEF n
<1>b. next' = [next EXCEPT ![s] = n]
  BY DEF n
<1>1. SchedTypeOK'
  BY <1>a, <1>b DEF SchedTypeOK
<1>2. Hands'
  BY DEF Hands, SchedTypeOK
<1>3. OnePlace'
  <2>1. Held(s)' = Held(s) \cup {n} /\ Held(s) = {cur[s]} \ {NULL}
    BY <1>a, <1>b, ScheduleAssumption DEF Held, SchedTypeOK
  <2>2. \A r \in Sys \ {s} : Held(r)' = Held(r) /\ cur'[r] = cur[r] /\ next'[r] = next[r]
    BY <1>b DEF Held, SchedTypeOK
  <2>3. cur'[s] # NULL => cur'[s] # next'[s]
    BY <1>a, <1>b, <2>1 DEF OnePlace, SchedTypeOK
  <2> QED BY <1>a, <2>1, <2>2, <2>3 DEF OnePlace
<1>4. StatesMatch'
  BY <1>a, <1>b DEF StatesMatch, SchedTypeOK
<1> QED BY <1>1, <1>2, <1>3, <1>4

(* The policy finds nothing. *)
LEMMA SelectNoneInv ==
  ASSUME SchedInv, NEW s \in Sys, SelectNone(s)
  PROVE  SchedInv'
<1> USE DEF SchedInv, SelectNone
<1>1. SchedTypeOK'
  BY DEF SchedTypeOK
<1>2. Hands'
  BY DEF Hands, SchedTypeOK
<1>3. OnePlace'
  <2>1. Held(s)' = Held(s)
    BY DEF Held, SchedTypeOK
  <2>2. \A r \in Sys \ {s} : current'[r] = current[r]
    BY DEF SchedTypeOK
  <2> QED BY <2>1, <2>2, HeldKept
<1>4. StatesMatch'
  BY DEF StatesMatch, SchedTypeOK
<1> QED BY <1>1, <1>2, <1>3, <1>4

(* The old thread is parked, the selected one runs. *)
LEMMA ParkInv ==
  ASSUME SchedInv, NEW s \in Sys, Park(s)
  PROVE  SchedInv'
<1> USE DEF SchedInv
<1> DEFINE t == cur[s]
           n == next[s]
<1>a. /\ Held(s) = {t, n} \ {NULL}
      /\ t \in Threads \cup {NULL} /\ n \in Threads \cup {NULL}
      /\ t # NULL => t # n
      /\ n # NULL => state[n] = "RUNNABLE"
  BY DEF Park, Held, SchedTypeOK, OnePlace, StatesMatch
<1>b. /\ runnable' \in Seq(Threads)
      /\ NoDuplicate(runnable')
      /\ Elements(runnable) \subseteq Elements(runnable')
      /\ Elements(runnable') \subseteq Elements(runnable) \cup {t}
      /\ \A x \in Elements(runnable') : state[x] = "RUNNABLE"
      /\ NULL \notin Elements(runnable')
  <2>1. CASE t # NULL /\ state[t] = "RUNNABLE"
    <3>1. runnable' = Append(runnable, t) /\ t \in Held(s)
      BY <1>a, <2>1 DEF Park
    <3>2. t \in Threads /\ t \notin Elements(runnable)
      BY <3>1, HeldAlone
    <3>3. Elements(runnable') = Elements(runnable) \cup {t} /\ runnable' \in Seq(Threads)
      BY <3>1, <3>2, ElementsAppend DEF SchedTypeOK
    <3>4. NoDuplicate(runnable')
      BY <3>1, <3>2, NoDuplicateAppend DEF SchedTypeOK, OnePlace
    <3> QED BY <2>1, <3>3, <3>4, ElementsType, ScheduleAssumption DEF StatesMatch
  <2>2. CASE ~(t # NULL /\ state[t] = "RUNNABLE")
    <3>1. runnable' = runnable
      BY <2>2 DEF Park
    <3> QED BY <3>1, ElementsType, ScheduleAssumption DEF SchedTypeOK, OnePlace, StatesMatch
  <2> QED BY <2>1, <2>2
<1>c. \A r \in Sys \ {s} :
        /\ spc'[r] = spc[r] /\ current'[r] = current[r]
        /\ cur'[r] = cur[r] /\ next'[r] = next[r]
  BY DEF Park, SchedTypeOK
<1>d. cur'[s] = NULL /\ next'[s] = NULL
  BY DEF Park, SchedTypeOK
<1>e. \A r \in Sys \ {s} : Held(r)' = Held(r)
  BY <1>c DEF Held
<1>1. CASE n = NULL
  <2> USE <1>1
  <2>a. spc'[s] = "select" /\ state' = state /\ current' = current
    BY DEF Park, SchedTypeOK
  <2>1. SchedTypeOK'
    BY <1>b DEF Park, SchedTypeOK
  <2>2. Hands'
    BY <1>c, <1>d, <2>a DEF Hands
  <2>3. OnePlace'
    <3>1. Held(s)' = {}
      BY <1>d, <2>a DEF Held
    <3>2. \A r \in Sys \ {s} : Held(r)' \cap Elements(runnable') = {}
      BY <1>a, <1>b, <1>e DEF OnePlace
    <3> QED BY <1>b, <1>c, <1>d, <1>e, <3>1, <3>2 DEF OnePlace
  <2>4. StatesMatch'
    BY <1>b, <1>c, <1>d, <2>a DEF StatesMatch
  <2> QED BY <2>1, <2>2, <2>3, <2>4
<1>2. CASE n # NULL
  <2> USE <1>2
  <2>a. /\ spc'[s] = "green" /\ current'[s] = n
        /\ state' = [state EXCEPT ![n] = "RUNNING"]
    BY DEF Park, SchedTypeOK
  <2>b. n \in Threads /\ n \in Held(s)
    BY <1>a
  <2>1. SchedTypeOK'
    <3>1. state' \in [Threads -> ThreadState]
      BY <2>a, <2>b DEF SchedTypeOK, ThreadState
    <3>2. current' = [current EXCEPT ![s] = n] /\ spc' = [spc EXCEPT ![s] = "green"]
      BY DEF Park
    <3>3. /\ cur' = [cur EXCEPT ![s] = NULL] /\ next' = [next EXCEPT ![s] = NULL]
          /\ UNCHANGED <<lock_type, lock_tpe>>
      BY DEF Park
    <3> QED BY <1>b, <2>b, <3>1, <3>2, <3>3 DEF SchedTypeOK
  <2>2. Hands'
    BY <1>c, <1>d, <2>a DEF Hands
  <2>3. OnePlace'
    <3>1. Held(s)' = {n}
      BY <2>a DEF Held
    <3>2. n \notin Elements(runnable')
      BY <1>a, <1>b, <2>b, HeldAlone
    <3>3. \A r \in Sys \ {s} : Held(r)' \cap Elements(runnable') = {}
      BY <1>a, <1>b, <1>e DEF OnePlace
    <3>4. \A r \in Sys \ {s} : n \notin Held(r)'
      BY <1>e, <2>b DEF OnePlace
    <3> QED BY <1>b, <1>c, <1>d, <1>e, <3>1, <3>2, <3>3, <3>4 DEF OnePlace
  <2>4. StatesMatch'
    <3>1. n \notin Elements(runnable')
      BY <1>a, <1>b, <2>b, HeldAlone
    <3>2. /\ state'[n] = "RUNNING"
          /\ \A x \in Threads \ {n} : state'[x] = state[x]
      BY <2>a, <2>b DEF SchedTypeOK
    <3>3. \A x \in Elements(runnable') : state'[x] = "RUNNABLE"
      BY <1>b, <3>1, <3>2, ElementsType
    <3>4. \A r \in Sys \ {s} :
            (spc[r] \in {"green", "enter"} => current[r] # n) /\ cur[r] # n /\ next[r] # n
      BY <2>b, HeldAlone
    <3>5. /\ \A r \in Sys : spc[r] \in {"green", "enter"} => current[r] \in Threads
          /\ \A r \in Sys : cur[r] # NULL => cur[r] \in Threads
          /\ \A r \in Sys : next[r] # NULL => next[r] \in Threads
      BY DEF SchedTypeOK
    <3> QED BY <1>c, <1>d, <2>a, <3>2, <3>3, <3>4, <3>5 DEF StatesMatch
  <2> QED BY <2>1, <2>2, <2>3, <2>4
<1> QED BY <1>1, <1>2
=============================================================================
