----------------------------- MODULE JoinProofs -----------------------------
(***************************************************************************)
(* The proofs that no thread is lost between the lists, that a return      *)
(* value is handed out once, and that a joiner and an exiting thread do    *)
(* not miss each other, for any number of threads and system threads.      *)
(***************************************************************************)
EXTENDS Join, ScheduleProofs, NumberTheorems

(* A thread in the hands of a system thread. *)
InHand(t) == \E s \in Sys : t \in Held(s)

(* Nobody blocks on a lock here. *)
NoLocks ==
  /\ \A t \in Threads : state[t] # "BLOCKED"
  /\ \A s \in Sys : spc[s] # "release"

(* A target is left for schedule() by a thread that is about to get there. *)
YieldTargets ==
  \A t \in Threads : yield_target[t] # NULL =>
    state[t] = "RUNNING" /\ \A s \in Sys : ~OnCpu(s, t)

(* Each list has the threads of its state that are in no hands. *)
Lists ==
  /\ NoDuplicate(joining) /\ NoDuplicate(zombies)
  /\ \A t \in Threads :
       /\ t \in Elements(runnable) <=> state[t] = "RUNNABLE" /\ ~InHand(t)
       /\ t \in Elements(joining) <=> state[t] = "JOINING" /\ ~InHand(t)
       /\ t \in Elements(zombies) <=> state[t] = "ZOMBIE" /\ ~InHand(t)

(* The threads that exist are those with a thread_info_t. *)
Registered == \A t \in Threads : t \in exists <=> state[t] # "FREE"

(* A joiner has a target, and has made a call. *)
Joiners ==
  \A t \in Threads : state[t] = "JOINING" => joined_target[t] # NULL /\ calls[t] > 0

(* A return value is handed out when its thread dies, to one thread. *)
Collected ==
  \A t, u \in Threads : got[t][u] > 0 =>
    /\ got[t][u] = 1
    /\ u \in allocated /\ state[u] \in {"DEAD", "FREE"}
    /\ \A x \in Threads : got[x][u] > 0 => x = t

DeadCollected == \A u \in Threads : state[u] = "DEAD" => CollectedBy(u) # {}

JoinInv ==
  NoLocks /\ YieldTargets /\ Lists /\ Registered /\ Joiners /\ Collected /\ DeadCollected

IInv == SchedInv /\ TypeOK /\ JoinInv /\ NoStrandedJoiner

(* What JoinResult says of a join that ends in this step. *)
Result(t) ==
  LET u == joined_target[t]
      Collector == {x \in Threads : got'[x][u] > 0}
  IN  /\ errno'[t] \in {"SUCCESS", "ERRINVAL"}
      /\ errno'[t] = "SUCCESS" => state[u] = "ZOMBIE" /\ Collector = {t}
      /\ errno'[t] = "ERRINVAL" => u \notin exists \/ Collector \ {t} # {}

Ends(t) == state[t] = "JOINING" /\ state'[t] = "RUNNABLE"

Results == \A t \in Threads : Ends(t) => Result(t)

-----------------------------------------------------------------------------
(* What Only computes from the threads before the n-th. *)
OnlyStep(list, S, f, n) ==
  IF n = 0 THEN <<>>
  ELSE IF list[n] \in S THEN Append(f[n - 1], list[n]) ELSE f[n - 1]

Solves(f, list, S, N) == f = [n \in 0 .. N |-> OnlyStep(list, S, f, n)]

(* The recursion has a solution: it refers to smaller numbers only. *)
LEMMA OnlyExists ==
  ASSUME NEW list, NEW S, NEW N \in Nat
  PROVE  \E f : Solves(f, list, S, N)
<1> DEFINE T == {m \in Nat : \E f : Solves(f, list, S, m)}
<1>1. 0 \in T
  <2> DEFINE f == [n \in 0 .. 0 |-> <<>>]
  <2>1. f = [n \in 0 .. 0 |-> OnlyStep(list, S, f, n)]
    BY DEF OnlyStep
  <2> HIDE DEF f
  <2>2. Solves(f, list, S, 0)
    BY <2>1 DEF Solves
  <2> QED BY <2>2
<1>2. ASSUME NEW m \in T PROVE m + 1 \in T
  <2>1. PICK f : Solves(f, list, S, m)
    OBVIOUS
  <2> DEFINE g == [n \in 0 .. m + 1 |-> IF n = m + 1 THEN OnlyStep(list, S, f, n) ELSE f[n]]
  <2>2. m \in Nat /\ 0 .. m \subseteq 0 .. m + 1
    OBVIOUS
  <2>3. \A n \in 0 .. m : f[n] = OnlyStep(list, S, f, n)
    BY <2>1 DEF Solves
  <2>4. ASSUME NEW n \in 0 .. m + 1 PROVE g[n] = OnlyStep(list, S, g, n)
    <3>1. n \in 1 .. m + 1 => n - 1 \in 0 .. m /\ n - 1 # m + 1 /\ g[n - 1] = f[n - 1]
      BY <2>2
    <3>2. OnlyStep(list, S, g, n) = OnlyStep(list, S, f, n)
      <4> HIDE DEF g
      <4> QED BY <3>1, <2>2 DEF OnlyStep
    <3>3. CASE n = m + 1
      BY <3>2, <3>3
    <3>4. CASE n \in 0 .. m
      BY <2>2, <2>3, <3>2, <3>4
    <3> QED BY <2>2, <3>3, <3>4
  <2>5. g = [n \in 0 .. m + 1 |-> OnlyStep(list, S, g, n)]
    <3>1. DOMAIN g = 0 .. m + 1 /\ g = [n \in 0 .. m + 1 |-> g[n]]
      OBVIOUS
    <3> HIDE DEF g
    <3> QED BY <2>4, <3>1
  <2> HIDE DEF g
  <2>6. Solves(g, list, S, m + 1)
    BY <2>5 DEF Solves
  <2> QED BY <2>2, <2>6
<1> HIDE DEF T
<1>3. Nat \subseteq T
  BY <1>1, <1>2, Induction
<1> QED BY <1>3 DEF T

(* Only(list, S) is a list of the threads of list that are in S. *)
LEMMA OnlyFacts ==
  ASSUME NEW R, NEW list \in Seq(R), NEW S
  PROVE  /\ Only(list, S) \in Seq(R)
         /\ Elements(Only(list, S)) = Elements(list) \cap S
         /\ NoDuplicate(list) => NoDuplicate(Only(list, S))
<1> DEFINE N == Len(list)
           f == CHOOSE g : g = [n \in 0 .. N |-> OnlyStep(list, S, g, n)]
           Before(n) == {list[i] : i \in 1 .. n}
           T == {n \in Nat : n <= N =>
                   /\ f[n] \in Seq(R)
                   /\ Elements(f[n]) = Before(n) \cap S
                   /\ NoDuplicate(list) => NoDuplicate(f[n])}
<1>1. N \in Nat /\ DOMAIN list = 1 .. N /\ \A i \in 1 .. N : list[i] \in R
  OBVIOUS
<1>2. Only(list, S) = f[N]
  BY DEF Only, OnlyStep
<1>3. \A n \in 0 .. N : f[n] = OnlyStep(list, S, f, n)
  <2>1. \E g : g = [n \in 0 .. N |-> OnlyStep(list, S, g, n)]
    BY <1>1, OnlyExists DEF Solves
  <2>2. f = [n \in 0 .. N |-> OnlyStep(list, S, f, n)]
    BY <2>1
  <2> HIDE DEF f
  <2> QED BY <2>2
<1> HIDE DEF f, N
<1>4. 0 \in T
  <2>1. f[0] = <<>>
    BY <1>1, <1>3 DEF OnlyStep
  <2>2. <<>> \in Seq(R) /\ Elements(<<>>) = {} /\ NoDuplicate(<<>>)
    BY ElementsEmpty DEF NoDuplicate
  <2>3. Before(0) = {}
    OBVIOUS
  <2> QED BY <2>1, <2>2, <2>3
<1>5. ASSUME NEW n \in Nat, n \in T PROVE n + 1 \in T
  <2> SUFFICES ASSUME n + 1 <= N
               PROVE  /\ f[n + 1] \in Seq(R)
                      /\ Elements(f[n + 1]) = Before(n + 1) \cap S
                      /\ NoDuplicate(list) => NoDuplicate(f[n + 1])
    OBVIOUS
  <2> DEFINE x == list[n + 1]
  <2>1. /\ f[n] \in Seq(R)
        /\ Elements(f[n]) = Before(n) \cap S
        /\ NoDuplicate(list) => NoDuplicate(f[n])
    BY <1>1, <1>5
  <2>2. n + 1 \in 1 .. N /\ x \in R /\ n + 1 # 0 /\ n + 1 - 1 = n
    BY <1>1
  <2>3. Before(n + 1) = Before(n) \cup {x}
    BY <1>1, <2>2
  <2>4. f[n + 1] = IF x \in S THEN Append(f[n], x) ELSE f[n]
    BY <1>3, <2>2 DEF OnlyStep
  <2>5. NoDuplicate(list) => x \notin Before(n)
    BY <1>1, <2>2 DEF NoDuplicate
  <2> HIDE DEF x, Before
  <2>6. CASE x \in S
    BY <2>1, <2>2, <2>3, <2>4, <2>5, <2>6, ElementsAppend, NoDuplicateAppend
  <2>7. CASE x \notin S
    BY <2>1, <2>3, <2>4, <2>7
  <2> QED BY <2>6, <2>7
<1>6. N \in T
  <2> HIDE DEF T
  <2> QED BY <1>1, <1>4, <1>5, Induction
<1>7. Before(N) = Elements(list)
  BY <1>1 DEF Elements
<1> QED BY <1>1, <1>2, <1>6, <1>7

-----------------------------------------------------------------------------
(* What a thread in the hands of a system thread can be. *)
LEMMA HandFacts ==
  ASSUME SchedInv, NEW s \in Sys, NEW t \in Held(s)
  PROVE  /\ t \in Threads /\ t \notin Elements(runnable) /\ InHand(t)
         /\ state[t] \in {"RUNNING", "BLOCKED", "JOINING", "ZOMBIE", "RUNNABLE", "DEAD"}
         /\ \A r \in Sys \ {s} : t \notin Held(r)
<1>1. t \in Threads /\ t \notin Elements(runnable)
  BY HeldAlone
<1>2. InHand(t) /\ \A r \in Sys \ {s} : t \notin Held(r)
  BY DEF InHand, SchedInv, OnePlace
<1>3. state[t] \in {"RUNNING", "BLOCKED", "JOINING", "ZOMBIE", "RUNNABLE", "DEAD"}
  BY DEF SchedInv, StatesMatch, Held
<1> QED BY <1>1, <1>2, <1>3

(* The first state. *)
LEMMA InitIInv == Init => IInv
<1> SUFFICES ASSUME Init PROVE IInv
  OBVIOUS
<1> USE DEF Init
<1>1. SchedInv
  BY SchedInitInv
<1>2. \A t \in Threads : ~InHand(t)
  BY DEF SchedInit, InHand, Held
<1>3. Elements(Created) \subseteq Threads
  BY ScheduleAssumption, ElementsType
<1>4. TypeOK
  <2>1. MaxCalls \in Nat
    BY JoinAssumption
  <2> QED BY <1>1, <1>3, <2>1 DEF TypeOK, SchedInv
<1>5. JoinInv
  BY <1>2, <1>3, ElementsEmpty
     DEF JoinInv, NoLocks, YieldTargets, Lists, Registered, Joiners, Collected, DeadCollected,
         SchedInit, NoDuplicate
<1>6. NoStrandedJoiner
  BY ElementsEmpty DEF NoStrandedJoiner
<1> QED BY <1>1, <1>4, <1>5, <1>6 DEF IInv

(* A thread of a list is in its state, and in no hands. *)
LEMMA ListFacts ==
  ASSUME IInv
  PROVE  /\ Elements(runnable) \subseteq Threads
         /\ Elements(joining) \subseteq Threads
         /\ Elements(zombies) \subseteq Threads
BY ElementsType DEF IInv, TypeOK, SchedTypeOK

(* A thread that executes switches to schedule(). *)
LEMMA YieldFacts ==
  ASSUME IInv, NEW s \in Sys, NEW t \in Threads,
         NEW st \in {"RUNNING", "JOINING", "ZOMBIE"}, yield(s, t, st)
  PROVE  /\ SchedInv'
         /\ state[t] = "RUNNING" /\ yield_target[t] = NULL /\ InHand(t)
         /\ state' = [state EXCEPT ![t] = st]
         /\ runnable' = runnable
         /\ \A x \in Threads : InHand(x)' <=> InHand(x)
         /\ \A r \in Sys : ~OnCpu(r, t)'
         /\ \A x \in Threads, r \in Sys : OnCpu(r, x)' => OnCpu(r, x)
         /\ \A r \in Sys : spc'[r] # "release"
<1> USE DEF IInv
<1>1. SchedInv'
  BY YieldInv
<1>2. t \in Held(s)
  BY DEF yield, OnCpu, Held
<1>3. /\ state[t] = "RUNNING" /\ yield_target[t] = NULL
      /\ state' = [state EXCEPT ![t] = st]
      /\ runnable' = runnable
  BY DEF yield, OnCpu, SchedInv, StatesMatch, JoinInv, YieldTargets
<1>4. \A r \in Sys : Held(r)' = Held(r)
  BY DEF yield, OnCpu, Held, SchedInv, SchedTypeOK
<1>5. \A r \in Sys : spc'[r] = IF r = s THEN "enter" ELSE spc[r]
  BY DEF yield, SchedInv, SchedTypeOK
<1>6. \A r \in Sys \ {s} : ~OnCpu(r, t)
  BY <1>2, HeldAlone DEF OnCpu
<1>7. \A x \in Threads, r \in Sys : OnCpu(r, x)' => OnCpu(r, x) /\ r # s
  BY <1>5 DEF OnCpu, yield
<1> QED BY <1>1, <1>2, <1>3, <1>4, <1>5, <1>6, <1>7 DEF InHand, JoinInv, NoLocks

(* yield, with a target or without. *)
LEMMA YieldStepInv ==
  ASSUME IInv, NEW t \in Threads, NEW u \in Threads \cup {NULL}, Yield(t, u)
  PROVE  IInv'
<1>1. PICK s \in Sys : yield(s, t, "RUNNING")
  BY DEF Yield
<1> USE DEF IInv, Yield
<1>2. /\ SchedInv'
      /\ state[t] = "RUNNING" /\ InHand(t)
      /\ state' = state
      /\ runnable' = runnable
      /\ \A x \in Threads : InHand(x)' <=> InHand(x)
      /\ \A r \in Sys : ~OnCpu(r, t)'
      /\ \A x \in Threads, r \in Sys : OnCpu(r, x)' => OnCpu(r, x)
      /\ \A r \in Sys : spc'[r] # "release"
  BY <1>1, YieldFacts DEF TypeOK, SchedTypeOK
<1>3. TypeOK'
  BY <1>2, JoinAssumption DEF TypeOK, SchedInv, Call
<1>4. JoinInv'
  <2>1. NoLocks' /\ YieldTargets'
    BY <1>2 DEF JoinInv, NoLocks, YieldTargets, TypeOK
  <2>2. Lists' /\ Registered'
    BY <1>2 DEF JoinInv, Lists, Registered
  <2>3. Joiners' /\ Collected' /\ DeadCollected'
    BY <1>2 DEF JoinInv, Joiners, Collected, DeadCollected, CollectedBy, TypeOK, Call
  <2> QED BY <2>1, <2>2, <2>3 DEF JoinInv
<1>5. NoStrandedJoiner'
  BY <1>2 DEF NoStrandedJoiner, CollectedBy
<1> QED BY <1>2, <1>3, <1>4, <1>5

(* A thread joins another, or one that does not exist. *)
LEMMA ThreadJoinInv ==
  ASSUME IInv, NEW t \in Threads, NEW u \in Threads, ThreadJoin(t, u)
  PROVE  IInv'
<1>1. PICK s \in Sys : yield(s, t, "JOINING")
  BY DEF ThreadJoin
<1> USE DEF IInv, ThreadJoin
<1>2. /\ SchedInv'
      /\ state[t] = "RUNNING" /\ yield_target[t] = NULL /\ InHand(t)
      /\ state' = [state EXCEPT ![t] = "JOINING"]
      /\ runnable' = runnable
      /\ \A x \in Threads : InHand(x)' <=> InHand(x)
      /\ \A x \in Threads, r \in Sys : OnCpu(r, x)' => OnCpu(r, x)
      /\ \A r \in Sys : spc'[r] # "release"
  BY <1>1, YieldFacts
<1>3. TypeOK'
  BY <1>2, JoinAssumption DEF TypeOK, SchedInv, Call
<1>4. \A x \in Threads : state'[x] = IF x = t THEN "JOINING" ELSE state[x]
  BY <1>2 DEF TypeOK, SchedTypeOK
<1>5. JoinInv'
  <2>1. NoLocks' /\ YieldTargets'
    BY <1>2, <1>4 DEF JoinInv, NoLocks, YieldTargets
  <2>2. Lists' /\ Registered'
    BY <1>2, <1>4 DEF JoinInv, Lists, Registered
  <2>3. Joiners'
    <3>1. joined_target'[t] # NULL /\ calls'[t] > 0
      BY ScheduleAssumption, JoinAssumption DEF TypeOK, Call
    <3>2. \A x \in Threads \ {t} : joined_target'[x] = joined_target[x] /\ calls'[x] = calls[x]
      BY DEF TypeOK, Call
    <3> QED BY <1>4, <3>1, <3>2 DEF JoinInv, Joiners
  <2>4. Collected' /\ DeadCollected'
    BY <1>2, <1>4 DEF JoinInv, Collected, DeadCollected, CollectedBy
  <2> QED BY <2>1, <2>2, <2>3, <2>4 DEF JoinInv
<1>6. NoStrandedJoiner'
  <2>1. t \notin Elements(joining)
    BY <1>2 DEF JoinInv, Lists
  <2>2. \A x \in Threads \ {t} : joined_target'[x] = joined_target[x]
    BY DEF TypeOK
  <2>3. \A x \in Elements(joining) :
          joined_target'[x] = joined_target[x] /\ joined_target[x] \in Threads \cup {NULL}
    BY <2>1, <2>2, ListFacts DEF TypeOK
  <2>4. \A x \in exists : x \in Threads
    BY DEF TypeOK
  <2> QED BY <1>4, <2>3, <2>4 DEF NoStrandedJoiner, CollectedBy
<1> QED BY <1>2, <1>3, <1>5, <1>6

(* A thread's function returns. *)
LEMMA ExitInv ==
  ASSUME IInv, NEW t \in Threads, Exit(t)
  PROVE  IInv'
<1>1. PICK s \in Sys : yield(s, t, "ZOMBIE")
  BY DEF Exit
<1> USE DEF IInv, Exit, lifeVars, history
<1>2. /\ SchedInv'
      /\ state[t] = "RUNNING" /\ yield_target[t] = NULL /\ InHand(t)
      /\ state' = [state EXCEPT ![t] = "ZOMBIE"]
      /\ runnable' = runnable
      /\ \A x \in Threads : InHand(x)' <=> InHand(x)
      /\ \A x \in Threads, r \in Sys : OnCpu(r, x)' => OnCpu(r, x)
      /\ \A r \in Sys : spc'[r] # "release"
  BY <1>1, YieldFacts
<1>3. TypeOK'
  BY <1>2 DEF TypeOK, SchedInv
<1>4. \A x \in Threads : state'[x] = IF x = t THEN "ZOMBIE" ELSE state[x]
  BY <1>2 DEF TypeOK, SchedTypeOK
<1>5. JoinInv'
  <2>1. NoLocks' /\ YieldTargets'
    BY <1>2, <1>4 DEF JoinInv, NoLocks, YieldTargets
  <2>2. Lists' /\ Registered'
    BY <1>2, <1>4 DEF JoinInv, Lists, Registered
  <2>3. Joiners' /\ Collected' /\ DeadCollected'
    BY <1>2, <1>4 DEF JoinInv, Joiners, Collected, DeadCollected, CollectedBy
  <2> QED BY <2>1, <2>2, <2>3 DEF JoinInv
<1>6. NoStrandedJoiner'
  <2>1. \A x \in exists : x \in Threads
    BY DEF TypeOK
  <2> QED BY <1>4, <2>1 DEF NoStrandedJoiner, CollectedBy
<1> QED BY <1>2, <1>3, <1>5, <1>6

(* A thread is created, registered and put in RUNNABLE. *)
LEMMA CreateInv ==
  ASSUME IInv, NEW t \in Threads, NEW u \in Threads, Create(t, u)
  PROVE  IInv'
<1> USE DEF IInv, Create
<1>1. state[u] = "FREE" /\ u \notin exists
  BY DEF TypeOK, JoinInv, Registered
<1>2. ~InHand(u) /\ u \notin Elements(runnable) \cup Elements(joining) \cup Elements(zombies)
  <2>1. ~InHand(u)
    BY <1>1, HandFacts DEF InHand
  <2> QED BY <1>1, <2>1 DEF JoinInv, Lists
<1>3. SchedInv'
  <2>1. tsafe_unblock_thread(u)
    BY DEF tsafe_unblock_thread
  <2> QED BY <1>2, <2>1, MakeRunnableInv DEF InHand
<1>4. \A x \in Threads : InHand(x)' <=> InHand(x)
  BY DEF InHand, Held
<1>5. Elements(runnable') = Elements(runnable) \cup {u}
  BY ElementsAppend DEF TypeOK, SchedTypeOK
<1>6. \A x \in Threads : state'[x] = IF x = u THEN "RUNNABLE" ELSE state[x]
  BY DEF TypeOK, SchedTypeOK
<1>7. TypeOK'
  BY <1>3, JoinAssumption DEF TypeOK, SchedInv, Call
<1>8. JoinInv'
  <2>1. NoLocks' /\ YieldTargets'
    BY <1>1, <1>6 DEF JoinInv, NoLocks, YieldTargets, OnCpu
  <2>2. Lists' /\ Registered'
    BY <1>1, <1>2, <1>4, <1>5, <1>6 DEF JoinInv, Lists, Registered
  <2>3. Joiners'
    BY <1>1, <1>6, SMTT(30) DEF JoinInv, Joiners, TypeOK, Call
  <2>4. Collected' /\ DeadCollected'
    BY <1>1, <1>6 DEF JoinInv, Collected, DeadCollected, CollectedBy
  <2> QED BY <2>1, <2>2, <2>3, <2>4 DEF JoinInv
<1>9. NoStrandedJoiner'
  <2>1. /\ state'[u] # "DEAD"
        /\ \A w \in exists : state'[w] # "DEAD" <=> state[w] # "DEAD"
    BY <1>1, <1>6 DEF TypeOK
  <2> SUFFICES ASSUME NEW x \in Elements(joining),
                      CollectedBy(joined_target[x]) = {}
               PROVE  /\ joined_target[x] \in exists'
                      /\ state'[joined_target[x]] # "DEAD"
                      /\ joined_target[x] \notin Elements(zombies)
    BY DEF NoStrandedJoiner, CollectedBy
  <2> QED BY <2>1 DEF NoStrandedJoiner
<1> QED BY <1>3, <1>7, <1>8, <1>9

(* A step that leaves the lives of the threads as they are, and their states but for
   those that become RUNNING or RUNNABLE. *)
LEMMA MoveInv ==
  ASSUME IInv, SchedInv', UNCHANGED <<exists, zombies, joining, joined_target, history>>,
         yield_target' \in [Threads -> Threads \cup {NULL}],
         errno' \in [Threads -> {"SUCCESS", "ERRINVAL"}],
         \A s \in Sys : spc'[s] # "release",
         YieldTargets',
         \A x \in Threads :
           state'[x] = state[x] \/ {state[x], state'[x]} \subseteq {"RUNNABLE", "RUNNING"},
         \A x \in Threads : state[x] \in {"JOINING", "ZOMBIE"} => (InHand(x)' <=> InHand(x)),
         \A x \in Threads : x \in Elements(runnable') <=> state'[x] = "RUNNABLE" /\ ~InHand(x)'
  PROVE  IInv'
<1> USE DEF IInv, history
<1>1. TypeOK'
  BY DEF TypeOK, SchedInv
<1>2. NoLocks' /\ Registered'
  BY DEF JoinInv, NoLocks, Registered
<1>3. Lists'
  BY DEF JoinInv, Lists
<1>4. Joiners' /\ Collected' /\ DeadCollected'
  BY DEF JoinInv, Joiners, Collected, DeadCollected, CollectedBy
<1>5. NoStrandedJoiner'
  <2>1. \A w \in exists : w \in Threads
    BY DEF TypeOK
  <2>2. \A w \in exists : state[w] # "DEAD" => state'[w] # "DEAD"
    BY <2>1
  <2> QED BY <2>2 DEF NoStrandedJoiner, CollectedBy
<1> QED BY <1>1, <1>2, <1>3, <1>4, <1>5 DEF JoinInv

(* schedule() takes over a thread. *)
LEMMA EnterInv ==
  ASSUME IInv, NEW s \in Sys, Enter(s)
  PROVE  IInv'
<1> USE DEF IInv, Enter
<1> DEFINE t == current[s]
<1>1. SchedInv'
  BY EnterUnblockedInv
<1>2. t \in Threads /\ cur[s] = NULL /\ next[s] = NULL /\ t # NULL /\ spc[s] = "enter"
  BY ScheduleAssumption DEF EnterUnblocked, TypeOK, SchedTypeOK, SchedInv, Hands
<1>3. \A r \in Sys : Held(r)' = Held(r)
  <2>1. Held(s)' = {t} /\ Held(s) = {t}
    BY <1>2 DEF EnterUnblocked, TypeOK, SchedTypeOK, Held
  <2>2. \A r \in Sys \ {s} : Held(r)' = Held(r)
    BY DEF EnterUnblocked, TypeOK, SchedTypeOK, Held
  <2> QED BY <2>1, <2>2
<1>4. \A x \in Threads : InHand(x)' <=> InHand(x)
  BY <1>3 DEF InHand
<1>5. state'[t] = (IF state[t] = "RUNNING" THEN "RUNNABLE" ELSE state[t])
      /\ \A x \in Threads \ {t} : state'[x] = state[x]
  BY <1>2 DEF EnterUnblocked, TypeOK, SchedTypeOK
<1>6. runnable' = runnable /\ InHand(t)
  BY <1>2 DEF EnterUnblocked, InHand, Held
<1>7. YieldTargets'
  BY <1>5, SMTT(30) DEF EnterUnblocked, JoinInv, YieldTargets, OnCpu, TypeOK, SchedTypeOK
<1>8. \A r \in Sys : spc'[r] # "release"
  BY DEF EnterUnblocked, JoinInv, NoLocks, TypeOK, SchedTypeOK
<1>9. \A x \in Threads : x \in Elements(runnable') <=> state'[x] = "RUNNABLE" /\ ~InHand(x)'
  BY <1>4, <1>5, <1>6 DEF JoinInv, Lists
<1>10. /\ errno' \in [Threads -> {"SUCCESS", "ERRINVAL"}]
       /\ yield_target' \in [Threads -> Threads \cup {NULL}]
  BY DEF TypeOK
<1> QED BY <1>1, <1>4, <1>5, <1>7, <1>8, <1>9, <1>10, MoveInv DEF history

(* Taking a thread out of a list. *)
LEMMA OnlyOthers ==
  ASSUME NEW q \in Seq(Threads), NoDuplicate(q), NEW u \in Threads
  PROVE  /\ Only(q, Threads \ {u}) \in Seq(Threads)
         /\ NoDuplicate(Only(q, Threads \ {u}))
         /\ Elements(Only(q, Threads \ {u})) = Elements(q) \ {u}
<1>1. Elements(q) \subseteq Threads
  BY ElementsType
<1>2. /\ Only(q, Threads \ {u}) \in Seq(Threads)
      /\ Elements(Only(q, Threads \ {u})) = Elements(q) \cap (Threads \ {u})
      /\ NoDuplicate(q) => NoDuplicate(Only(q, Threads \ {u}))
  BY OnlyFacts
<1> QED BY <1>1, <1>2

(* A yield to a target: it is taken out of RUNNABLE, if it is there. *)
LEMMA EnterYieldInv ==
  ASSUME IInv, NEW s \in Sys, EnterYield(s)
  PROVE  IInv'
<1> USE DEF IInv, EnterYield
<1> DEFINE t == current[s]
           u == yield_target[t]
           found == u \in Elements(runnable)
<1>1. /\ t \in Threads /\ t # NULL /\ u \in Threads /\ u # NULL
      /\ cur[s] = NULL /\ next[s] = NULL /\ spc[s] = "enter"
      /\ state[t] = "RUNNING"
  BY ScheduleAssumption DEF TypeOK, SchedTypeOK, SchedInv, Hands, JoinInv, YieldTargets
<1>2. Held(s) = {t} /\ InHand(t) /\ t \notin Elements(runnable)
      /\ \A r \in Sys \ {s} : t \notin Held(r)
  <2>1. Held(s) = {t}
    BY <1>1 DEF Held
  <2> QED BY <2>1, HandFacts
<1>3. /\ runnable' \in Seq(Threads) /\ NoDuplicate(runnable')
      /\ Elements(runnable') = Elements(runnable) \ {u}
  <2>1. runnable \in Seq(Threads) /\ NoDuplicate(runnable)
    BY DEF TypeOK, SchedTypeOK, SchedInv, OnePlace
  <2>2. CASE found
    BY <1>1, <2>1, <2>2, OnlyOthers
  <2>3. CASE ~found
    BY <2>1, <2>3
  <2> QED BY <2>2, <2>3
<1> HIDE DEF t, u
<1>4. /\ next'[s] = (IF u \in Elements(runnable) THEN u ELSE NULL)
      /\ cur'[s] = t /\ spc'[s] = "select" /\ current'[s] = NULL
      /\ \A r \in Sys \ {s} : /\ next'[r] = next[r] /\ cur'[r] = cur[r]
                              /\ spc'[r] = spc[r] /\ current'[r] = current[r]
      /\ state' = [state EXCEPT ![t] = "RUNNABLE"]
      /\ lock_type' = lock_type /\ lock_tpe' = lock_tpe
  BY DEF t, u, TypeOK, SchedTypeOK
<1>5. Held(s)' = {t} \cup (IF u \in Elements(runnable) THEN {u} ELSE {})
  BY <1>1, <1>4 DEF Held
<1>6. \A r \in Sys \ {s} : Held(r)' = Held(r) /\ t \notin Held(r)
  BY <1>2, <1>4 DEF Held
<1>7. \A x \in Threads : state'[x] = IF x = t THEN "RUNNABLE" ELSE state[x]
  BY <1>4 DEF TypeOK, SchedTypeOK
<1>8. \A x \in Threads : InHand(x)' <=> InHand(x) \/ (x = u /\ u \in Elements(runnable))
  BY <1>2, <1>5, <1>6 DEF InHand
<1>9. SchedInv'
  <2>1. SchedTypeOK'
    <3>1. /\ next' \in [Sys -> Threads \cup {NULL}] /\ cur' \in [Sys -> Threads \cup {NULL}]
          /\ spc' \in [Sys -> {"green", "enter", "release", "select", "park"}]
          /\ current' \in [Sys -> Threads \cup {NULL}]
          /\ state' \in [Threads -> ThreadState]
      BY <1>1 DEF t, u, TypeOK, SchedTypeOK, ThreadState
    <3> QED BY <1>3, <1>4, <3>1 DEF TypeOK, SchedTypeOK
  <2>2. Hands'
    BY <1>4 DEF SchedInv, Hands
  <2>3. OnePlace'
    <3>1. u \in Elements(runnable) => \A r \in Sys : u \notin Held(r)
      BY DEF SchedInv, OnePlace
    <3>2. cur'[s] # NULL => cur'[s] # next'[s]
      BY <1>1, <1>2, <1>4
    <3>3. \A r \in Sys : Held(r)' \cap Elements(runnable') = {}
      <4>1. \A r \in Sys : Held(r) \cap Elements(runnable) = {}
        BY DEF SchedInv, OnePlace
      <4>2. Held(s)' \cap Elements(runnable') = {}
        BY <1>2, <1>3, <1>5
      <4>3. \A r \in Sys \ {s} : Held(r)' \cap Elements(runnable') = {}
        BY <1>3, <1>6, <4>1
      <4> QED BY <4>2, <4>3
    <3>4. \A r \in Sys \ {s} : Held(r)' \cap Held(s)' = {}
      BY <1>5, <1>6, <3>1
    <3>5. \A r \in Sys \ {s}, q \in Sys \ {s} : r # q => Held(r)' \cap Held(q)' = {}
      BY <1>6 DEF SchedInv, OnePlace
    <3>6. \A r \in Sys \ {s} : cur'[r] # NULL => cur'[r] # next'[r]
      BY <1>4 DEF SchedInv, OnePlace
    <3> QED BY <1>3, <3>2, <3>3, <3>4, <3>5, <3>6 DEF OnePlace
  <2>4. StatesMatch'
    <3>1. \A x \in Elements(runnable') : state'[x] = "RUNNABLE"
      BY <1>2, <1>3, <1>7, ListFacts DEF SchedInv, StatesMatch
    <3>2. ASSUME NEW r \in Sys \ {s}
          PROVE  /\ spc'[r] \in {"green", "enter"} => state'[current'[r]] = state[current[r]]
                 /\ cur'[r] # NULL => state'[cur'[r]] = state[cur[r]]
                 /\ next'[r] # NULL => state'[next'[r]] = state[next[r]]
      <4>1. /\ spc[r] \in {"green", "enter"} => current[r] # t /\ current[r] \in Threads
            /\ cur[r] # NULL => cur[r] # t /\ cur[r] \in Threads
            /\ next[r] # NULL => next[r] # t /\ next[r] \in Threads
        BY <1>2, HeldAlone DEF TypeOK, SchedTypeOK
      <4> QED BY <1>4, <1>7, <4>1
    <3>3. /\ state'[cur'[s]] = "RUNNABLE"
          /\ next'[s] # NULL => state'[next'[s]] = "RUNNABLE"
      BY <1>1, <1>4, <1>7 DEF SchedInv, StatesMatch
    <3> QED BY <1>4, <3>1, <3>2, <3>3, SMTT(30) DEF SchedInv, StatesMatch
  <2> QED BY <2>1, <2>2, <2>3, <2>4 DEF SchedInv
<1>10. YieldTargets'
  <2>1. /\ yield_target'[t] = NULL
        /\ \A x \in Threads \ {t} : yield_target'[x] = yield_target[x]
    BY <1>1 DEF t, TypeOK
  <2> QED BY <1>4, <1>7, <2>1 DEF JoinInv, YieldTargets, OnCpu
<1>11. \A r \in Sys : spc'[r] # "release"
  BY <1>4 DEF JoinInv, NoLocks
<1>12. \A x \in Threads : state[x] \in {"JOINING", "ZOMBIE"} => (InHand(x)' <=> InHand(x))
  BY <1>8 DEF SchedInv, StatesMatch
<1>13. \A x \in Threads : x \in Elements(runnable') <=> state'[x] = "RUNNABLE" /\ ~InHand(x)'
  BY <1>2, <1>3, <1>7, <1>8 DEF JoinInv, Lists
<1>14. /\ errno' \in [Threads -> {"SUCCESS", "ERRINVAL"}]
       /\ yield_target' \in [Threads -> Threads \cup {NULL}]
  BY DEF TypeOK
<1>15. \A x \in Threads :
         state'[x] = state[x] \/ {state[x], state'[x]} \subseteq {"RUNNABLE", "RUNNING"}
  BY <1>1, <1>7
<1>16. UNCHANGED <<exists, zombies, joining, joined_target, history>>
  OBVIOUS
<1> QED BY <1>9, <1>10, <1>11, <1>12, <1>13, <1>14, <1>15, <1>16, MoveInv

(* The policy selects a thread, or none. *)
LEMMA SelectInv ==
  ASSUME IInv, NEW s \in Sys, UNCHANGED <<lifeVars, history>>,
         SelectTarget(s) \/ SelectNext(s) \/ SelectNone(s)
  PROVE  IInv'
<1> USE DEF IInv
<1>1. SchedInv'
  BY SelectTargetInv, SelectNextInv, SelectNoneInv
<1>2. /\ state' = state /\ current' = current
      /\ \A r \in Sys : spc'[r] = IF r = s THEN "park" ELSE spc[r]
      /\ spc[s] = "select"
  BY DEF SelectTarget, SelectNext, SelectNone, TypeOK, SchedTypeOK
<1>3. \A r \in Sys \ {s} : Held(r)' = Held(r)
  BY <1>2 DEF SelectTarget, SelectNext, SelectNone, TypeOK, SchedTypeOK, Held
<1>a. /\ YieldTargets' /\ \A r \in Sys : spc'[r] # "release"
      /\ UNCHANGED <<exists, zombies, joining, joined_target, history>>
      /\ errno' \in [Threads -> {"SUCCESS", "ERRINVAL"}]
      /\ yield_target' \in [Threads -> Threads \cup {NULL}]
      /\ \A x \in Threads : state'[x] = state[x]
  <2>1. /\ UNCHANGED <<exists, zombies, joining, joined_target, errno, yield_target, history>>
        /\ \A x \in Threads : state'[x] = state[x]
    BY <1>2 DEF lifeVars
  <2>2. \A r \in Sys : spc'[r] # "release"
    BY <1>2 DEF JoinInv, NoLocks
  <2>3. \A r \in Sys, x \in Threads : OnCpu(r, x)' => OnCpu(r, x)
    BY <1>2 DEF OnCpu
  <2>4. YieldTargets'
    BY <2>1, <2>3 DEF JoinInv, YieldTargets
  <2> QED BY <2>1, <2>2, <2>4 DEF TypeOK
<1>4. CASE SelectTarget(s) \/ SelectNone(s)
  <2>1. Held(s)' = Held(s) /\ runnable' = runnable
    BY <1>2, <1>4 DEF SelectTarget, SelectNone, Held
  <2>2. \A x \in Threads : InHand(x)' <=> InHand(x)
    BY <1>3, <2>1 DEF InHand
  <2>3. \A x \in Threads : x \in Elements(runnable') <=> state'[x] = "RUNNABLE" /\ ~InHand(x)'
    BY <1>2, <2>1, <2>2 DEF JoinInv, Lists
  <2> QED BY <1>1, <1>a, <2>2, <2>3, MoveInv
<1>5. CASE SelectNext(s)
  <2> DEFINE n == Head(runnable)
  <2>1. /\ n \in Threads /\ n \in Elements(runnable)
        /\ Elements(runnable) = {n} \cup Elements(runnable')
        /\ n \notin Elements(runnable')
    BY <1>5, ElementsTail, NoDuplicateTail DEF SelectNext, TypeOK, SchedTypeOK, SchedInv, OnePlace
  <2> HIDE DEF n
  <2>2. Held(s)' = Held(s) \cup {n}
    <3>1. next'[s] = n /\ next[s] = NULL /\ cur' = cur
      BY <1>5 DEF SelectNext, n, TypeOK, SchedTypeOK
    <3>2. n # NULL
      BY <2>1, ScheduleAssumption
    <3> QED BY <1>2, <3>1, <3>2 DEF Held
  <2>3. \A x \in Threads : InHand(x)' <=> InHand(x) \/ x = n
    BY <1>3, <2>2 DEF InHand
  <2>4. \A x \in Threads : x \in Elements(runnable') <=> state'[x] = "RUNNABLE" /\ ~InHand(x)'
    BY <1>2, <2>1, <2>3 DEF JoinInv, Lists
  <2>5. \A x \in Threads : state[x] \in {"JOINING", "ZOMBIE"} => (InHand(x)' <=> InHand(x))
    BY <2>1, <2>3 DEF SchedInv, StatesMatch
  <2> QED BY <1>1, <1>a, <2>4, <2>5, MoveInv
<1> QED BY <1>4, <1>5

(* The old thread is parked, the selected one runs. *)
LEMMA LoopParkInv ==
  ASSUME IInv, NEW s \in Sys, UNCHANGED <<lifeVars, history>>,
         cur[s] \in {NULL} \cup {t \in Threads : state[t] = "RUNNABLE"}, Park(s)
  PROVE  IInv'
<1> USE DEF IInv
<1> DEFINE t == cur[s]
           n == next[s]
<1>1. SchedInv'
  BY ParkInv
<1>2. /\ t \in Threads \cup {NULL} /\ n \in Threads \cup {NULL}
      /\ t # NULL => t # n /\ state[t] = "RUNNABLE"
      /\ n # NULL => state[n] = "RUNNABLE"
      /\ Held(s) = {t, n} \ {NULL}
      /\ NULL \notin Threads
  BY ScheduleAssumption DEF TypeOK, SchedTypeOK, SchedInv, OnePlace, StatesMatch, Park, Held
<1>3. Elements(runnable') = Elements(runnable) \cup ({t} \ {NULL})
  BY <1>2, ElementsAppend DEF Park, TypeOK, SchedTypeOK
<1>4. Held(s)' = {n} \ {NULL}
  BY <1>2 DEF Park, Held, TypeOK, SchedTypeOK
<1>5. \A r \in Sys \ {s} : Held(r)' = Held(r)
  <2>1. \A r \in Sys \ {s} : spc'[r] = spc[r] /\ current'[r] = current[r]
                             /\ cur'[r] = cur[r] /\ next'[r] = next[r]
    BY DEF Park, TypeOK, SchedTypeOK
  <2> QED BY <2>1 DEF Held
<1>6. \A x \in Threads : state'[x] = IF x = n THEN "RUNNING" ELSE state[x]
  BY <1>2 DEF Park, TypeOK, SchedTypeOK
<1>7. /\ \A r \in Sys : spc'[r] # "release"
      /\ \A r \in Sys, x \in Threads : OnCpu(r, x)' => OnCpu(r, x) \/ x = n
  BY DEF Park, OnCpu, TypeOK, SchedTypeOK, JoinInv, NoLocks
<1> HIDE DEF t, n
<1>8. \A x \in Threads : x \in Held(s) => \A r \in Sys \ {s} : x \notin Held(r)
  BY DEF SchedInv, OnePlace
<1>9. \A x \in Threads : InHand(x)' <=> InHand(x) /\ x # t
  BY <1>2, <1>4, <1>5, <1>8 DEF InHand
<1>10. \A x \in Threads : x \in Elements(runnable') <=> state'[x] = "RUNNABLE" /\ ~InHand(x)'
  <2>1. \A x \in Threads : x = n => x \notin Elements(runnable) /\ InHand(x)
    BY <1>2, HandFacts
  <2> QED BY <1>2, <1>3, <1>6, <1>9, <2>1 DEF JoinInv, Lists
<1>11. YieldTargets'
  BY <1>2, <1>6, <1>7 DEF JoinInv, YieldTargets, lifeVars
<1>12. \A x \in Threads : state[x] \in {"JOINING", "ZOMBIE"} => (InHand(x)' <=> InHand(x))
  BY <1>2, <1>9
<1>13. \A x \in Threads :
         state'[x] = state[x] \/ {state[x], state'[x]} \subseteq {"RUNNABLE", "RUNNING"}
  BY <1>2, <1>6
<1> QED BY <1>1, <1>7, <1>10, <1>11, <1>12, <1>13, MoveInv DEF lifeVars, history, TypeOK

-----------------------------------------------------------------------------
(* handle_non_runnable and the end of a thread: a step of a system thread that has a
   thread c to park.  It keeps c or lets go of it, it changes the state of no
   other thread in somebody's hands, and those it puts in RUNNABLE are in no hands. *)
Handles(s) ==
  /\ spc[s] = "park" /\ cur[s] # NULL
  /\ UNCHANGED <<spc, current, next>>
  /\ \/ cur' = [cur EXCEPT ![s] = NULL]
     \/ cur' = cur /\ state'[cur[s]] \in {"JOINING", "ZOMBIE", "DEAD"}
  /\ \A x \in Threads : InHand(x) /\ x # cur[s] => state'[x] = state[x]
  /\ NoDuplicate(runnable')
  /\ \A x \in Elements(runnable') :
       /\ state'[x] = "RUNNABLE"
       /\ \/ x \in Elements(runnable) \/ ~InHand(x)
          \/ x = cur[s] /\ cur'[s] = NULL

(* Such a step preserves the scheduler's invariant. *)
LEMMA HandlesInv ==
  ASSUME IInv, SchedTypeOK', NEW s \in Sys, Handles(s)
  PROVE  /\ SchedInv'
         /\ \A x \in Threads :
              InHand(x)' <=> InHand(x) /\ ~(x = cur[s] /\ cur'[s] = NULL)
<1> USE DEF IInv, Handles
<1> DEFINE c == cur[s]
<1>1. c \in Threads /\ c # NULL /\ c \in Held(s) /\ c # next[s] /\ InHand(c)
  <2>1. c \in Held(s) /\ c # NULL /\ c # next[s]
    BY DEF Held, SchedInv, OnePlace
  <2> QED BY <2>1, HandFacts
<1>2. /\ \A r \in Sys \ {s} : cur'[r] = cur[r] /\ Held(r)' = Held(r) /\ c \notin Held(r)
      /\ cur'[s] \in {c, NULL}
  <2>1. cur'[s] \in {c, NULL} /\ \A r \in Sys \ {s} : cur'[r] = cur[r]
    BY DEF TypeOK, SchedTypeOK
  <2>2. \A r \in Sys \ {s} : Held(r)' = Held(r)
    BY <2>1 DEF Held
  <2>3. \A r \in Sys \ {s} : c \notin Held(r)
    BY <1>1, HandFacts
  <2> QED BY <2>1, <2>2, <2>3
<1>3. Held(s)' = IF cur'[s] = NULL THEN Held(s) \ {c} ELSE Held(s)
  BY <1>1, <1>2 DEF Held
<1>4. \A x \in Threads :
        InHand(x)' <=> InHand(x) /\ ~(x = c /\ cur'[s] = NULL)
  BY <1>1, <1>2, <1>3 DEF InHand
<1>5. Hands'
  BY <1>2 DEF SchedInv, Hands
<1>6. OnePlace'
  <2>1. \A r \in Sys : Held(r)' \subseteq Held(r)
    BY <1>2, <1>3
  <2>2. \A r \in Sys, q \in Sys : r # q => Held(r)' \cap Held(q)' = {}
    BY <2>1 DEF SchedInv, OnePlace
  <2>3. \A r \in Sys : cur'[r] # NULL => cur'[r] # next'[r]
    BY <1>2 DEF SchedInv, OnePlace
  <2>4. ASSUME NEW r \in Sys, NEW x \in Held(r)', x \in Elements(runnable')
        PROVE  FALSE
    <3>1. x \in Held(r) /\ InHand(x) /\ x \notin Elements(runnable)
      BY <2>1, <2>4, HandFacts
    <3>2. x = c /\ cur'[s] = NULL
      BY <2>4, <3>1
    <3>3. r = s
      BY <1>2, <3>1, <3>2
    <3> QED BY <1>3, <2>4, <3>2, <3>3
  <2> QED BY <2>2, <2>3, <2>4 DEF OnePlace
<1>7. StatesMatch'
  <2>1. ASSUME NEW r \in Sys, NEW x \in Held(r), x # c PROVE state'[x] = state[x]
    BY <2>1, HandFacts
  <2>2. ASSUME NEW r \in Sys, spc[r] \in {"green", "enter"}
        PROVE  state'[current[r]] = state[current[r]]
    <3>1. current[r] \in Held(r) /\ r # s
      BY <2>2 DEF Held
    <3> QED BY <1>2, <2>1, <3>1
  <2>3. ASSUME NEW r \in Sys, next[r] # NULL PROVE state'[next[r]] = state[next[r]]
    <3>1. next[r] \in Held(r)
      BY <2>3 DEF Held, SchedInv, Hands
    <3> QED BY <1>1, <1>2, <2>1, <3>1
  <2>4. ASSUME NEW r \in Sys \ {s}, cur[r] # NULL PROVE state'[cur[r]] = state[cur[r]]
    <3>1. cur[r] \in Held(r)
      BY <2>4 DEF Held, SchedInv, Hands
    <3> QED BY <1>2, <2>1, <3>1
  <2>5. cur'[s] # NULL => state'[cur'[s]] \in {"RUNNABLE", "JOINING", "ZOMBIE", "DEAD"}
    BY <1>1, <1>2 DEF TypeOK, SchedTypeOK
  <2> QED BY <1>2, <2>2, <2>3, <2>4, <2>5 DEF StatesMatch, SchedInv
<1> QED BY <1>4, <1>5, <1>6, <1>7 DEF SchedInv

(* The thread a joiner or an exiting thread is parked by is in nobody else's hands, and
   in no list. *)
LEMMA ParkedFacts ==
  ASSUME IInv, NEW s \in Sys, spc[s] = "park", cur[s] # NULL
  PROVE  /\ cur[s] \in Threads /\ InHand(cur[s])
         /\ cur[s] \notin Elements(runnable) \cup Elements(joining) \cup Elements(zombies)
         /\ yield_target[cur[s]] # NULL => state[cur[s]] = "RUNNING"
<1>1. cur[s] \in Held(s)
  BY DEF Held
<1>2. cur[s] \in Threads /\ InHand(cur[s])
  BY <1>1, HandFacts DEF IInv
<1> QED BY <1>2 DEF IInv, JoinInv, Lists, YieldTargets

(* A joiner finds its target in ZOMBIE. *)
LEMMA JoinZombieInv ==
  ASSUME IInv, NEW s \in Sys, JoinZombie(s)
  PROVE  IInv' /\ Results
<1> DEFINE t == cur[s]
           u == joined_target[t]
<1>1. /\ t \in Threads /\ InHand(t) /\ state[t] = "JOINING" /\ yield_target[t] = NULL
      /\ t \notin Elements(runnable) \cup Elements(joining) \cup Elements(zombies)
  BY ParkedFacts DEF JoinZombie, Joiner
<1>2. /\ u \in Threads /\ u # t /\ state[u] = "ZOMBIE" /\ ~InHand(u) /\ yield_target[u] = NULL
      /\ u \in Elements(zombies)
  BY <1>1, ListFacts DEF JoinZombie, IInv, JoinInv, Lists, YieldTargets
<1>3. /\ zombies' \in Seq(Threads) /\ NoDuplicate(zombies')
      /\ Elements(zombies') = Elements(zombies) \ {u}
  BY <1>2, OnlyOthers DEF JoinZombie, IInv, TypeOK, JoinInv, Lists
<1>4. /\ runnable' \in Seq(Threads) /\ NoDuplicate(runnable')
      /\ Elements(runnable') = Elements(runnable) \cup {t}
  BY <1>1, ElementsAppend, NoDuplicateAppend
     DEF JoinZombie, IInv, TypeOK, SchedTypeOK, SchedInv, OnePlace
<1>5. /\ state' = [state EXCEPT ![t] = "RUNNABLE", ![u] = "DEAD"]
      /\ got' = [got EXCEPT ![t][u] = @ + 1]
      /\ joined_target' = [joined_target EXCEPT ![t] = NULL]
      /\ errno' = [errno EXCEPT ![t] = "SUCCESS"]
      /\ spc[s] = "park" /\ cur[s] # NULL /\ cur' = [cur EXCEPT ![s] = NULL]
      /\ UNCHANGED <<lock_type, current, spc, next, lock_tpe, joining>>
      /\ UNCHANGED <<allocated, exists, yield_target, calls>>
  BY DEF JoinZombie, Joiner
<1>6. u = joined_target[t] /\ t = cur[s]
  OBVIOUS
<1> HIDE DEF t, u
<1>7. \A x \in Threads :
        state'[x] = IF x = t THEN "RUNNABLE" ELSE IF x = u THEN "DEAD" ELSE state[x]
  BY <1>1, <1>2, <1>5 DEF IInv, TypeOK, SchedTypeOK
<1>8. MaxCalls \in Nat \ {0}
  BY <1>1, JoinAssumption DEF IInv, TypeOK, JoinInv, Joiners
<1>9. ~(\E x \in Threads : got[x][u] > 0) /\ u \in allocated
  BY <1>2 DEF IInv, TypeOK, JoinInv, Collected, Registered
<1>10. got[t][u] = 0
  <2>1. got[t][u] \in 0 .. MaxCalls
    BY <1>1, <1>2 DEF IInv, TypeOK
  <2> QED BY <1>1, <1>8, <1>9, <2>1
<1>11. /\ got'[t] = [got[t] EXCEPT ![u] = 1]
       /\ \A x \in Threads \ {t} : got'[x] = got[x]
       /\ DOMAIN got' = Threads
  BY <1>1, <1>5, <1>10 DEF IInv, TypeOK
<1>12. got' \in [Threads -> [Threads -> 0 .. MaxCalls]]
  <2>1. got \in [Threads -> [Threads -> 0 .. MaxCalls]] /\ 1 \in 0 .. MaxCalls
    BY <1>8 DEF IInv, TypeOK
  <2>2. [got[t] EXCEPT ![u] = 1] \in [Threads -> 0 .. MaxCalls]
    BY <1>1, <2>1
  <2>3. got' = [got EXCEPT ![t] = [got[t] EXCEPT ![u] = 1]]
    BY <1>1, <1>5, <1>10, <2>1
  <2> QED BY <1>1, <2>1, <2>2, <2>3
<1>13. \A x, y \in Threads : got'[x][y] = IF x = t /\ y = u THEN 1 ELSE got[x][y]
  <2>1. got[t] \in [Threads -> 0 .. MaxCalls]
    BY <1>1 DEF IInv, TypeOK
  <2> QED BY <1>2, <1>11, <2>1
<1>14. TypeOK'
  <2>1. SchedTypeOK'
    BY <1>1, <1>2, <1>4, <1>5 DEF IInv, TypeOK, SchedTypeOK, ThreadState
  <2> QED BY <1>3, <1>5, <1>12, <2>1 DEF IInv, TypeOK
<1>15. cur'[s] = NULL
  BY <1>5 DEF IInv, TypeOK, SchedTypeOK
<1>16. Handles(s)
  <2>1. \A x \in Threads : InHand(x) /\ x # t => state'[x] = state[x]
    BY <1>2, <1>7
  <2>2. \A x \in Elements(runnable') :
          state'[x] = "RUNNABLE" /\ (x \in Elements(runnable) \/ x = t)
    BY <1>1, <1>2, <1>4, <1>7, ListFacts DEF IInv, JoinInv, Lists
  <2> QED BY <1>4, <1>5, <1>6, <1>15, <2>1, <2>2 DEF Handles
<1>17. SchedInv' /\ \A x \in Threads : InHand(x)' <=> InHand(x) /\ x # t
  <2>1. SchedTypeOK'
    BY <1>14 DEF TypeOK
  <2> QED BY <2>1, <1>6, <1>15, <1>16, HandlesInv
<1>18. NoLocks' /\ YieldTargets'
  <2>1. NoLocks'
    <3>1. NoLocks /\ spc' = spc
      BY <1>5 DEF IInv, JoinInv
    <3> QED BY <1>7, <3>1 DEF NoLocks
  <2>2. \A x \in Threads, r \in Sys : OnCpu(r, x)' <=> OnCpu(r, x)
    BY <1>5 DEF OnCpu
  <2>3. YieldTargets'
    BY <1>1, <1>2, <1>5, <1>7, <2>2 DEF IInv, JoinInv, YieldTargets
  <2> QED BY <2>1, <2>3
<1>19. Lists'
  <2>1. NoDuplicate(joining') /\ joining' = joining
    BY <1>5 DEF IInv, JoinInv, Lists
  <2>2. ASSUME NEW x \in Threads
        PROVE /\ x \in Elements(runnable) <=> state[x] = "RUNNABLE" /\ ~InHand(x)
              /\ x \in Elements(joining) <=> state[x] = "JOINING" /\ ~InHand(x)
              /\ x \in Elements(zombies) <=> state[x] = "ZOMBIE" /\ ~InHand(x)
    BY DEF IInv, JoinInv, Lists
  <2> QED BY <1>1, <1>2, <1>3, <1>4, <1>7, <1>17, <2>1, <2>2 DEF Lists
<1>20. Registered' /\ Joiners'
  <2>1. \A x \in Threads \ {t} : joined_target'[x] = joined_target[x]
    BY <1>5 DEF IInv, TypeOK
  <2>2. Registered'
    <3>1. Registered /\ exists' = exists
      BY <1>5 DEF IInv, JoinInv
    <3> QED BY <1>1, <1>2, <1>7, <3>1 DEF Registered
  <2>3. Joiners'
    BY <1>1, <1>2, <1>5, <1>7, <2>1 DEF IInv, JoinInv, Joiners
  <2> QED BY <2>2, <2>3
<1>21. Collected'
  <2>1. ASSUME NEW x \in Threads, NEW y \in Threads, got'[x][y] > 0
        PROVE  /\ got'[x][y] = 1 /\ y \in allocated /\ state'[y] \in {"DEAD", "FREE"}
               /\ \A z \in Threads : got'[z][y] > 0 => z = x
    <3>1. CASE y = u
      BY <1>7, <1>9, <1>13, <1>2, <2>1, <3>1
    <3>2. CASE y # u
      <4>1. got[x][y] > 0 /\ \A z \in Threads : got'[z][y] = got[z][y]
        BY <1>13, <2>1, <3>2
      <4> QED BY <1>1, <1>7, <3>2, <4>1 DEF IInv, JoinInv, Collected
    <3> QED BY <3>1, <3>2
  <2> QED BY <1>5, <2>1 DEF Collected
<1>22. \A x \in Threads : x = u \/ CollectedBy(x) # {} => CollectedBy(x)' # {}
  BY <1>1, <1>13 DEF CollectedBy
<1>23. DeadCollected'
  BY <1>7, <1>22 DEF IInv, JoinInv, DeadCollected
<1>24. NoStrandedJoiner'
  <2>1. ASSUME NEW x \in Elements(joining), NEW w, w = joined_target[x], CollectedBy(w)' = {}
        PROVE  w \in exists /\ state'[w] # "DEAD" /\ w \notin Elements(zombies')
    <3>1. w \in Threads
      BY <2>1, ListFacts DEF IInv, TypeOK, JoinInv, Joiners, Lists
    <3>2. CollectedBy(w) = {} /\ w # u
      BY <1>22, <2>1, <3>1
    <3> QED BY <1>3, <1>7, <2>1, <3>1, <3>2 DEF IInv, NoStrandedJoiner
  <2>2. \A x \in Elements(joining) : joined_target'[x] = joined_target[x]
    BY <1>1, <1>5, ListFacts DEF IInv, TypeOK
  <2> QED BY <1>5, <2>1, <2>2 DEF NoStrandedJoiner, CollectedBy
<1>25. Results
  <2>1. \A x \in Threads : Ends(x) => x = t
    BY <1>7 DEF Ends
  <2>2. errno'[t] = "SUCCESS"
    BY <1>1, <1>5 DEF IInv, TypeOK
  <2>3. {x \in Threads : got'[x][u] > 0} = {t}
    BY <1>1, <1>2, <1>9, <1>13
  <2> QED BY <1>2, <1>6, <2>1, <2>2, <2>3 DEF Results, Result
<1> QED BY <1>14, <1>17, <1>18, <1>19, <1>20, <1>21, <1>23, <1>24, <1>25 DEF IInv, JoinInv

(* A joiner's target has not exited. *)
LEMMA JoinWaitInv ==
  ASSUME IInv, NEW s \in Sys, JoinWait(s)
  PROVE  IInv'
<1> DEFINE t == cur[s]
           u == joined_target[t]
<1>1. /\ t \in Threads /\ InHand(t) /\ state[t] = "JOINING" /\ yield_target[t] = NULL
      /\ t \notin Elements(runnable) \cup Elements(joining) \cup Elements(zombies)
  BY ParkedFacts DEF JoinWait, Joiner
<1>2. u \in Threads /\ u \in exists /\ u \notin Elements(zombies)
  BY DEF JoinWait, IInv, TypeOK
<1>3. /\ joining' \in Seq(Threads) /\ NoDuplicate(joining')
      /\ Elements(joining') = Elements(joining) \cup {t}
  BY <1>1, ElementsAppend, NoDuplicateAppend DEF JoinWait, IInv, TypeOK, JoinInv, Lists
<1>4. /\ UNCHANGED <<state, runnable, zombies, errno, joined_target, got>>
      /\ spc[s] = "park" /\ cur[s] # NULL /\ cur' = [cur EXCEPT ![s] = NULL]
      /\ UNCHANGED <<lock_type, current, spc, next, lock_tpe>>
      /\ UNCHANGED <<allocated, exists, yield_target, calls>>
  BY DEF JoinWait, Joiner
<1>5. u = joined_target[t] /\ t = cur[s]
  OBVIOUS
<1> HIDE DEF t, u
<1>6. TypeOK'
  <2>1. SchedTypeOK'
    BY <1>4 DEF IInv, TypeOK, SchedTypeOK
  <2> QED BY <1>3, <1>4, <2>1 DEF IInv, TypeOK
<1>7. cur'[s] = NULL
  BY <1>4 DEF IInv, TypeOK, SchedTypeOK
<1>8. Handles(s)
  <2>1. NoDuplicate(runnable) /\ \A x \in Elements(runnable) : state[x] = "RUNNABLE"
    BY DEF IInv, SchedInv, OnePlace, StatesMatch
  <2> QED BY <1>4, <2>1 DEF Handles
<1>9. SchedInv' /\ \A x \in Threads : InHand(x)' <=> InHand(x) /\ x # t
  <2>1. SchedTypeOK'
    BY <1>6 DEF TypeOK
  <2> QED BY <2>1, <1>5, <1>7, <1>8, HandlesInv
<1>10. NoLocks' /\ YieldTargets' /\ Registered' /\ Joiners' /\ Collected' /\ DeadCollected'
  BY <1>4 DEF IInv, JoinInv, NoLocks, YieldTargets, OnCpu, Registered, Joiners, Collected,
              DeadCollected, CollectedBy
<1>11. Lists'
  <2>1. NoDuplicate(zombies)
    BY DEF IInv, JoinInv, Lists
  <2>2. ASSUME NEW x \in Threads
        PROVE /\ x \in Elements(runnable) <=> state[x] = "RUNNABLE" /\ ~InHand(x)
              /\ x \in Elements(joining) <=> state[x] = "JOINING" /\ ~InHand(x)
              /\ x \in Elements(zombies) <=> state[x] = "ZOMBIE" /\ ~InHand(x)
    BY DEF IInv, JoinInv, Lists
  <2> QED BY <1>1, <1>3, <1>4, <1>9, <2>1, <2>2 DEF Lists
<1>12. NoStrandedJoiner'
  <2>1. state[u] = "DEAD" => CollectedBy(u) # {}
    BY <1>2 DEF IInv, JoinInv, DeadCollected
  <2> QED BY <1>2, <1>3, <1>4, <1>5, <2>1 DEF IInv, NoStrandedJoiner, CollectedBy
<1> QED BY <1>6, <1>9, <1>10, <1>11, <1>12 DEF IInv, JoinInv

(* A joiner's target does not exist. *)
LEMMA JoinFailInv ==
  ASSUME IInv, NEW s \in Sys, JoinFail(s)
  PROVE  IInv' /\ Results
<1> DEFINE t == cur[s]
<1>1. /\ t \in Threads /\ InHand(t) /\ state[t] = "JOINING" /\ yield_target[t] = NULL
      /\ t \notin Elements(runnable) \cup Elements(joining) \cup Elements(zombies)
  BY ParkedFacts DEF JoinFail, Joiner
<1>2. /\ runnable' \in Seq(Threads) /\ NoDuplicate(runnable')
      /\ Elements(runnable') = Elements(runnable) \cup {t}
  BY <1>1, ElementsAppend, NoDuplicateAppend
     DEF JoinFail, IInv, TypeOK, SchedTypeOK, SchedInv, OnePlace
<1>3. /\ UNCHANGED <<zombies, joining, got>>
      /\ state' = [state EXCEPT ![t] = "RUNNABLE"]
      /\ joined_target' = [joined_target EXCEPT ![t] = NULL]
      /\ errno' = [errno EXCEPT ![t] = "ERRINVAL"]
      /\ spc[s] = "park" /\ cur[s] # NULL /\ cur' = [cur EXCEPT ![s] = NULL]
      /\ UNCHANGED <<lock_type, current, spc, next, lock_tpe>>
      /\ UNCHANGED <<allocated, exists, yield_target, calls>>
  BY DEF JoinFail, Joiner
<1>4. t = cur[s]
  OBVIOUS
<1> HIDE DEF t
<1>5. \A x \in Threads : state'[x] = IF x = t THEN "RUNNABLE" ELSE state[x]
  BY <1>1, <1>3 DEF IInv, TypeOK, SchedTypeOK
<1>6. TypeOK'
  <2>1. SchedTypeOK'
    BY <1>1, <1>2, <1>3 DEF IInv, TypeOK, SchedTypeOK, ThreadState
  <2> QED BY <1>3, <2>1 DEF IInv, TypeOK
<1>7. cur'[s] = NULL
  BY <1>3 DEF IInv, TypeOK, SchedTypeOK
<1>8. Handles(s)
  <2>1. \A x \in Threads : InHand(x) /\ x # t => state'[x] = state[x]
    BY <1>5
  <2>2. \A x \in Elements(runnable') :
          state'[x] = "RUNNABLE" /\ (x \in Elements(runnable) \/ x = t)
    BY <1>1, <1>2, <1>5, ListFacts DEF IInv, JoinInv, Lists
  <2> QED BY <1>2, <1>3, <1>4, <1>7, <2>1, <2>2 DEF Handles
<1>9. SchedInv' /\ \A x \in Threads : InHand(x)' <=> InHand(x) /\ x # t
  <2>1. SchedTypeOK'
    BY <1>6 DEF TypeOK
  <2> QED BY <2>1, <1>4, <1>7, <1>8, HandlesInv
<1>10. NoLocks' /\ YieldTargets'
  <2>1. NoLocks'
    BY <1>3, <1>5 DEF IInv, JoinInv, NoLocks
  <2>2. \A x \in Threads, r \in Sys : OnCpu(r, x)' <=> OnCpu(r, x)
    BY <1>3 DEF OnCpu
  <2>3. YieldTargets'
    BY <1>1, <1>3, <1>5, <2>2 DEF IInv, JoinInv, YieldTargets
  <2> QED BY <2>1, <2>3
<1>11. Lists'
  <2>1. NoDuplicate(joining) /\ NoDuplicate(zombies)
    BY DEF IInv, JoinInv, Lists
  <2>2. ASSUME NEW x \in Threads
        PROVE /\ x \in Elements(runnable) <=> state[x] = "RUNNABLE" /\ ~InHand(x)
              /\ x \in Elements(joining) <=> state[x] = "JOINING" /\ ~InHand(x)
              /\ x \in Elements(zombies) <=> state[x] = "ZOMBIE" /\ ~InHand(x)
    BY DEF IInv, JoinInv, Lists
  <2> QED BY <1>1, <1>2, <1>3, <1>5, <1>9, <2>1, <2>2 DEF Lists
<1>12. Registered' /\ Joiners'
  <2>1. \A x \in Threads \ {t} : joined_target'[x] = joined_target[x]
    BY <1>3 DEF IInv, TypeOK
  <2>2. Registered'
    BY <1>1, <1>3, <1>5 DEF IInv, JoinInv, Registered
  <2>3. Joiners'
    BY <1>3, <1>5, <2>1 DEF IInv, JoinInv, Joiners
  <2> QED BY <2>2, <2>3
<1>13. Collected' /\ DeadCollected'
  BY <1>1, <1>3, <1>5 DEF IInv, JoinInv, Collected, DeadCollected, CollectedBy
<1>14. NoStrandedJoiner'
  <2>1. \A x \in Elements(joining) : joined_target'[x] = joined_target[x]
    BY <1>1, <1>3, ListFacts DEF IInv, TypeOK
  <2>2. \A w \in exists : state[w] # "DEAD" => state'[w] # "DEAD"
    BY <1>5 DEF IInv, TypeOK
  <2> QED BY <1>3, <2>1, <2>2 DEF IInv, NoStrandedJoiner, CollectedBy
<1>15. Results
  <2>1. \A x \in Threads : Ends(x) => x = t
    BY <1>5 DEF Ends
  <2>2. errno'[t] = "ERRINVAL"
    BY <1>1, <1>3 DEF IInv, TypeOK
  <2>3. joined_target[t] \notin exists
    BY <1>4 DEF JoinFail
  <2> QED BY <2>1, <2>2, <2>3 DEF Results, Result
<1> QED BY <1>6, <1>9, <1>10, <1>11, <1>12, <1>13, <1>14, <1>15 DEF IInv, JoinInv

(* The joiners of a thread are those in JOINING that it is the target of. *)
LEMMA JoinersFacts ==
  ASSUME TypeOK, NEW z
  PROVE  /\ JoinersOf(z) \in Seq(Threads)
         /\ Elements(JoinersOf(z)) = Elements(joining) \cap {x \in Threads : joined_target[x] = z}
<1>1. joining \in Seq(Threads)
  BY DEF TypeOK
<1> QED BY <1>1, OnlyFacts DEF JoinersOf

(* An exiting thread that nobody joins waits in ZOMBIE. *)
LEMMA ZombieWaitInv ==
  ASSUME IInv, NEW s \in Sys, ZombieWait(s)
  PROVE  IInv'
<1> DEFINE z == cur[s]
<1>1. /\ z \in Threads /\ InHand(z) /\ state[z] = "ZOMBIE" /\ yield_target[z] = NULL
      /\ z \notin Elements(runnable) \cup Elements(joining) \cup Elements(zombies)
  BY ParkedFacts DEF ZombieWait, Exiting
<1>2. /\ zombies' \in Seq(Threads) /\ NoDuplicate(zombies')
      /\ Elements(zombies') = Elements(zombies) \cup {z}
  BY <1>1, ElementsAppend, NoDuplicateAppend DEF ZombieWait, IInv, TypeOK, JoinInv, Lists
<1>3. \A x \in Elements(joining) : joined_target[x] # z
  <2>1. Elements(JoinersOf(z)) = Elements(joining) \cap {x \in Threads : joined_target[x] = z}
    BY JoinersFacts DEF IInv
  <2>2. Elements(JoinersOf(z)) = {}
    BY ElementsEmpty DEF ZombieWait
  <2> QED BY <2>1, <2>2, ListFacts
<1>4. /\ UNCHANGED <<state, runnable, joining, errno, joined_target, got>>
      /\ spc[s] = "park" /\ cur[s] # NULL /\ cur' = [cur EXCEPT ![s] = NULL]
      /\ UNCHANGED <<lock_type, current, spc, next, lock_tpe>>
      /\ UNCHANGED <<allocated, exists, yield_target, calls>>
  BY DEF ZombieWait, Exiting
<1>5. z = cur[s]
  OBVIOUS
<1> HIDE DEF z
<1>6. TypeOK'
  <2>1. SchedTypeOK'
    BY <1>4 DEF IInv, TypeOK, SchedTypeOK
  <2> QED BY <1>2, <1>4, <2>1 DEF IInv, TypeOK
<1>7. cur'[s] = NULL
  BY <1>4 DEF IInv, TypeOK, SchedTypeOK
<1>8. Handles(s)
  <2>1. NoDuplicate(runnable) /\ \A x \in Elements(runnable) : state[x] = "RUNNABLE"
    BY DEF IInv, SchedInv, OnePlace, StatesMatch
  <2> QED BY <1>4, <2>1 DEF Handles
<1>9. SchedInv' /\ \A x \in Threads : InHand(x)' <=> InHand(x) /\ x # z
  <2>1. SchedTypeOK'
    BY <1>6 DEF TypeOK
  <2> QED BY <2>1, <1>5, <1>7, <1>8, HandlesInv
<1>10. NoLocks' /\ YieldTargets' /\ Registered' /\ Joiners' /\ Collected' /\ DeadCollected'
  BY <1>4 DEF IInv, JoinInv, NoLocks, YieldTargets, OnCpu, Registered, Joiners, Collected,
              DeadCollected, CollectedBy
<1>11. Lists'
  <2>1. NoDuplicate(joining)
    BY DEF IInv, JoinInv, Lists
  <2>2. ASSUME NEW x \in Threads
        PROVE /\ x \in Elements(runnable) <=> state[x] = "RUNNABLE" /\ ~InHand(x)
              /\ x \in Elements(joining) <=> state[x] = "JOINING" /\ ~InHand(x)
              /\ x \in Elements(zombies) <=> state[x] = "ZOMBIE" /\ ~InHand(x)
    BY DEF IInv, JoinInv, Lists
  <2> QED BY <1>1, <1>2, <1>4, <1>9, <2>1, <2>2 DEF Lists
<1>12. NoStrandedJoiner'
  BY <1>2, <1>3, <1>4 DEF IInv, NoStrandedJoiner, CollectedBy
<1> QED BY <1>6, <1>9, <1>10, <1>11, <1>12 DEF IInv, JoinInv

(* A dead thread is unregistered and freed. *)
LEMMA ReapInv ==
  ASSUME IInv, NEW s \in Sys, Reap(s)
  PROVE  IInv'
<1> DEFINE z == cur[s]
<1>1. /\ z \in Threads /\ InHand(z) /\ state[z] = "DEAD" /\ yield_target[z] = NULL
      /\ z \notin Elements(runnable) \cup Elements(joining) \cup Elements(zombies)
  BY ParkedFacts DEF Reap
<1>2. /\ state' = [state EXCEPT ![z] = "FREE"] /\ exists' = exists \ {z}
      /\ spc[s] = "park" /\ cur[s] # NULL /\ cur' = [cur EXCEPT ![s] = NULL]
      /\ UNCHANGED <<lock_type, runnable, current, spc, next, lock_tpe>>
      /\ UNCHANGED <<zombies, joining, yield_target, joined_target, errno>>
      /\ UNCHANGED <<allocated, calls, got>>
  BY DEF Reap, history
<1>3. z = cur[s]
  OBVIOUS
<1> HIDE DEF z
<1>4. \A x \in Threads : state'[x] = IF x = z THEN "FREE" ELSE state[x]
  BY <1>1, <1>2 DEF IInv, TypeOK, SchedTypeOK
<1>5. TypeOK'
  <2>1. SchedTypeOK'
    BY <1>1, <1>2 DEF IInv, TypeOK, SchedTypeOK, ThreadState
  <2> QED BY <1>2, <2>1 DEF IInv, TypeOK
<1>6. cur'[s] = NULL
  BY <1>2 DEF IInv, TypeOK, SchedTypeOK
<1>7. Handles(s)
  <2>1. NoDuplicate(runnable) /\ \A x \in Elements(runnable) : state'[x] = "RUNNABLE"
    BY <1>1, <1>4, ListFacts DEF IInv, SchedInv, OnePlace, StatesMatch
  <2> QED BY <1>2, <1>3, <1>4, <2>1 DEF Handles
<1>8. SchedInv' /\ \A x \in Threads : InHand(x)' <=> InHand(x) /\ x # z
  <2>1. SchedTypeOK'
    BY <1>5 DEF TypeOK
  <2> QED BY <2>1, <1>3, <1>6, <1>7, HandlesInv
<1>9. NoLocks' /\ YieldTargets'
  <2>1. \A x \in Threads, r \in Sys : OnCpu(r, x)' <=> OnCpu(r, x)
    BY <1>2 DEF OnCpu
  <2> QED BY <1>1, <1>2, <1>4, <2>1 DEF IInv, JoinInv, YieldTargets, NoLocks
<1>10. Lists'
  <2>1. NoDuplicate(joining) /\ NoDuplicate(zombies)
    BY DEF IInv, JoinInv, Lists
  <2>2. ASSUME NEW x \in Threads
        PROVE /\ x \in Elements(runnable) <=> state[x] = "RUNNABLE" /\ ~InHand(x)
              /\ x \in Elements(joining) <=> state[x] = "JOINING" /\ ~InHand(x)
              /\ x \in Elements(zombies) <=> state[x] = "ZOMBIE" /\ ~InHand(x)
    BY DEF IInv, JoinInv, Lists
  <2> QED BY <1>1, <1>2, <1>4, <1>8, <2>1, <2>2 DEF Lists
<1>11. Registered' /\ Joiners'
  BY <1>1, <1>2, <1>4 DEF IInv, JoinInv, Registered, Joiners
<1>12. Collected' /\ DeadCollected'
  BY <1>1, <1>2, <1>4 DEF IInv, JoinInv, Collected, DeadCollected, CollectedBy
<1>13. NoStrandedJoiner'
  <2>1. CollectedBy(z) # {}
    BY <1>1 DEF IInv, JoinInv, DeadCollected
  <2>2. \A w \in exists \ {z} : state'[w] = state[w]
    BY <1>4 DEF IInv, TypeOK
  <2> QED BY <1>1, <1>2, <2>1, <2>2 DEF IInv, NoStrandedJoiner, CollectedBy
<1> QED BY <1>5, <1>8, <1>9, <1>10, <1>11, <1>12, <1>13 DEF IInv, JoinInv

(* Putting a list behind another. *)
LEMMA ElementsConcat ==
  ASSUME NEW S, NEW q \in Seq(S), NEW r \in Seq(S)
  PROVE  /\ q \o r \in Seq(S)
         /\ Elements(q \o r) = Elements(q) \cup Elements(r)
         /\ NoDuplicate(q) /\ NoDuplicate(r) /\ Elements(q) \cap Elements(r) = {}
              => NoDuplicate(q \o r)
<1> DEFINE p == q \o r
           m == Len(q)
           k == Len(r)
<1>1. /\ p \in Seq(S) /\ m \in Nat /\ k \in Nat
      /\ DOMAIN q = 1 .. m /\ DOMAIN r = 1 .. k /\ DOMAIN p = 1 .. m + k
      /\ \A i \in 1 .. m : p[i] = q[i]
      /\ \A i \in 1 .. k : p[m + i] = r[i]
  OBVIOUS
<1> HIDE DEF p, m, k
<1>2. \A i \in 1 .. m + k : i \in 1 .. m \/ (i - m \in 1 .. k /\ p[i] = r[i - m])
  <2> TAKE i \in 1 .. m + k
  <2>1. CASE i > m
    <3>1. i - m \in 1 .. k /\ m + (i - m) = i
      BY <1>1, <2>1
    <3> QED BY <1>1, <3>1
  <2> QED BY <1>1, <2>1
<1>3. Elements(p) = Elements(q) \cup Elements(r)
  <2>1. ASSUME NEW y \in Elements(p) PROVE y \in Elements(q) \cup Elements(r)
    <3>1. PICK i \in 1 .. m + k : y = p[i]
      BY <1>1, <2>1 DEF Elements
    <3>2. CASE i <= m
      BY <1>1, <1>2, <3>1, <3>2 DEF Elements
    <3>3. CASE i > m
      BY <1>1, <1>2, <3>1, <3>3 DEF Elements
    <3> QED BY <1>1, <3>2, <3>3
  <2>2. ASSUME NEW i \in 1 .. m PROVE q[i] \in Elements(p)
    <3>1. i \in DOMAIN p /\ p[i] = q[i]
      BY <1>1
    <3> QED BY <3>1 DEF Elements
  <2>3. ASSUME NEW i \in 1 .. k PROVE r[i] \in Elements(p)
    <3>1. m + i \in DOMAIN p /\ p[m + i] = r[i]
      BY <1>1
    <3> QED BY <3>1 DEF Elements
  <2>4. Elements(q) = {q[i] : i \in 1 .. m} /\ Elements(r) = {r[i] : i \in 1 .. k}
    BY <1>1 DEF Elements
  <2> QED BY <2>1, <2>2, <2>3, <2>4
<1>4. ASSUME NoDuplicate(q), NoDuplicate(r), Elements(q) \cap Elements(r) = {}
      PROVE  NoDuplicate(p)
  <2> SUFFICES ASSUME NEW i \in 1 .. m + k, NEW j \in 1 .. m + k, p[i] = p[j] PROVE i = j
    BY <1>1 DEF NoDuplicate
  <2>1. \A a \in 1 .. m, b \in 1 .. k : q[a] # r[b]
    BY <1>1, <1>4 DEF Elements
  <2>2. CASE i \in 1 .. m /\ j \in 1 .. m
    BY <1>1, <1>4, <2>2 DEF NoDuplicate
  <2>3. CASE i \in 1 .. m /\ j \notin 1 .. m
    BY <1>1, <1>2, <2>1, <2>3
  <2>4. CASE i \notin 1 .. m /\ j \in 1 .. m
    BY <1>1, <1>2, <2>1, <2>4
  <2>5. CASE i \notin 1 .. m /\ j \notin 1 .. m
    <3> DEFINE a == i - m
               b == j - m
    <3>1. a \in DOMAIN r /\ b \in DOMAIN r /\ r[a] = r[b]
      BY <1>1, <1>2, <2>5
    <3>2. a = b => i = j
      BY <1>1
    <3> HIDE DEF a, b
    <3> QED BY <1>4, <3>1, <3>2 DEF NoDuplicate
  <2> QED BY <2>2, <2>3, <2>4, <2>5
<1> QED BY <1>1, <1>3, <1>4 DEF p

(* An exiting thread has joiners: they all end their wait, and it dies. *)
LEMMA ZombieJoinedInv ==
  ASSUME IInv, NEW s \in Sys, ZombieJoined(s)
  PROVE  IInv' /\ Results
<1> DEFINE z == cur[s]
           js == JoinersOf(z)
           t == Head(js)
           J == Elements(js)
<1>1. /\ z \in Threads /\ InHand(z) /\ state[z] = "ZOMBIE" /\ yield_target[z] = NULL
      /\ z \notin Elements(runnable) \cup Elements(joining) \cup Elements(zombies)
  BY ParkedFacts DEF ZombieJoined, Exiting
<1>2. /\ js \in Seq(Threads) /\ NoDuplicate(js)
      /\ J = Elements(joining) \cap {x \in Threads : joined_target[x] = z}
  <2> DEFINE S == {x \in Threads : joined_target[x] = z}
  <2>1. joining \in Seq(Threads) /\ NoDuplicate(joining) /\ js = Only(joining, S)
    BY DEF JoinersOf, IInv, TypeOK, JoinInv, Lists
  <2> HIDE DEF S, js
  <2>2. /\ js \in Seq(Threads) /\ NoDuplicate(js)
        /\ Elements(js) = Elements(joining) \cap S
    BY <2>1, OnlyFacts
  <2> QED BY <2>2 DEF S
<1>3. /\ Tail(js) \in Seq(Threads) /\ NoDuplicate(Tail(js)) /\ t \in Threads
      /\ t \notin Elements(Tail(js)) /\ J = Elements(Tail(js)) \cup {t}
  <2>1. js # <<>>
    BY DEF ZombieJoined
  <2> HIDE DEF js
  <2> QED BY <1>2, <2>1, ElementsTail, NoDuplicateTail
<1>4. /\ joining' \in Seq(Threads) /\ NoDuplicate(joining')
      /\ Elements(joining') = Elements(joining) \cap {x \in Threads : joined_target[x] # z}
  BY OnlyFacts DEF ZombieJoined, IInv, TypeOK, JoinInv, Lists
<1>5. /\ state' = [x \in Threads |-> IF x \in J THEN "RUNNABLE"
                                     ELSE IF x = z THEN "DEAD" ELSE state[x]]
      /\ errno' = [x \in Threads |-> IF x = t THEN "SUCCESS"
                                     ELSE IF x \in J THEN "ERRINVAL" ELSE errno[x]]
      /\ joined_target' = [x \in Threads |-> IF x \in J THEN NULL ELSE joined_target[x]]
      /\ got' = [got EXCEPT ![t][z] = @ + 1]
      /\ runnable' = runnable \o Tail(js) \o <<t>>
      /\ spc[s] = "park" /\ cur[s] # NULL /\ cur' = cur
      /\ UNCHANGED <<lock_type, current, spc, next, lock_tpe, zombies>>
      /\ UNCHANGED <<allocated, exists, yield_target, calls>>
  BY DEF ZombieJoined, Exiting
<1>6. z = cur[s]
  OBVIOUS
<1> HIDE DEF z, js, t, J
<1>7. \A x \in J : /\ x \in Threads /\ state[x] = "JOINING" /\ ~InHand(x) /\ x # z
                   /\ joined_target[x] = z /\ yield_target[x] = NULL /\ x \notin Elements(runnable)
  BY <1>1, <1>2 DEF IInv, JoinInv, Lists, YieldTargets
<1>8. t \in J
  BY <1>3
<1>9. /\ runnable' \in Seq(Threads) /\ NoDuplicate(runnable')
      /\ Elements(runnable') = Elements(runnable) \cup J
  <2> DEFINE q == runnable \o Tail(js)
  <2>1. runnable \in Seq(Threads) /\ NoDuplicate(runnable)
    BY DEF IInv, TypeOK, SchedTypeOK, SchedInv, OnePlace
  <2>2. Elements(runnable) \cap J = {}
    BY <1>7
  <2>3. Elements(runnable) \cap Elements(Tail(js)) = {} /\ t \notin Elements(runnable)
    BY <1>3, <2>2
  <2>4. /\ q \in Seq(Threads) /\ NoDuplicate(q)
        /\ Elements(q) = Elements(runnable) \cup Elements(Tail(js))
    <3>1. PICK r \in Seq(Threads) : r = Tail(js) /\ NoDuplicate(r)
      BY <1>3
    <3>2. /\ runnable \o r \in Seq(Threads)
          /\ Elements(runnable \o r) = Elements(runnable) \cup Elements(r)
          /\ NoDuplicate(runnable \o r)
      <4>1. /\ runnable \in Seq(Threads) /\ r \in Seq(Threads)
            /\ NoDuplicate(runnable) /\ NoDuplicate(r) /\ Elements(runnable) \cap Elements(r) = {}
        BY <2>1, <2>3, <3>1
      <4> HIDE DEF js, J
      <4> QED BY <4>1, ElementsConcat
    <3> QED BY <3>1, <3>2
  <2>5. runnable' = q \o <<t>>
    BY <1>5
  <2> HIDE DEF q
  <2>6. /\ runnable' \in Seq(Threads) /\ NoDuplicate(runnable')
        /\ Elements(runnable') = Elements(q) \cup {t}
    <3>1. runnable' = Append(q, t)
      BY <1>3, <2>4, <2>5
    <3>2. t \notin Elements(q)
      BY <1>3, <2>3, <2>4
    <3> QED BY <1>3, <2>4, <3>1, <3>2, ElementsAppend, NoDuplicateAppend
  <2> QED BY <1>3, <2>4, <2>6
<1>10. \A x \in Threads :
         state'[x] = IF x \in J THEN "RUNNABLE" ELSE IF x = z THEN "DEAD" ELSE state[x]
  BY <1>5
<1>11. MaxCalls \in Nat \ {0}
  BY <1>7, <1>8, JoinAssumption DEF IInv, TypeOK, JoinInv, Joiners
<1>12. ~(\E x \in Threads : got[x][z] > 0) /\ z \in allocated
  BY <1>1 DEF IInv, TypeOK, JoinInv, Collected, Registered
<1>13. got[t][z] = 0
  <2>1. got[t][z] \in 0 .. MaxCalls
    BY <1>1, <1>3 DEF IInv, TypeOK
  <2> QED BY <1>3, <1>11, <1>12, <2>1
<1>14. got' = [got EXCEPT ![t] = [got[t] EXCEPT ![z] = 1]]
  BY <1>3, <1>5, <1>13 DEF IInv, TypeOK
<1>15. got' \in [Threads -> [Threads -> 0 .. MaxCalls]]
  <2>1. got \in [Threads -> [Threads -> 0 .. MaxCalls]] /\ 1 \in 0 .. MaxCalls
    BY <1>11 DEF IInv, TypeOK
  <2>2. [got[t] EXCEPT ![z] = 1] \in [Threads -> 0 .. MaxCalls]
    BY <1>3, <2>1
  <2> QED BY <1>3, <1>14, <2>1, <2>2
<1>16. \A x, y \in Threads : got'[x][y] = IF x = t /\ y = z THEN 1 ELSE got[x][y]
  <2>1. got \in [Threads -> [Threads -> 0 .. MaxCalls]] /\ got[t] \in [Threads -> 0 .. MaxCalls]
    BY <1>3 DEF IInv, TypeOK
  <2> QED BY <1>1, <1>3, <1>14, <2>1
<1>17. TypeOK'
  <2>1. SchedTypeOK'
    BY <1>5, <1>9 DEF IInv, TypeOK, SchedTypeOK, ThreadState
  <2> QED BY <1>4, <1>5, <1>15, <2>1 DEF IInv, TypeOK
<1>18. Handles(s)
  <2>1. \A x \in Threads : InHand(x) /\ x # z => state'[x] = state[x]
    BY <1>7, <1>10
  <2>2. \A x \in Elements(runnable') :
          state'[x] = "RUNNABLE" /\ (x \in Elements(runnable) \/ ~InHand(x))
    BY <1>1, <1>7, <1>9, <1>10, ListFacts DEF IInv, JoinInv, Lists
  <2>3. state'[z] = "DEAD"
    BY <1>1, <1>7, <1>10
  <2> QED BY <1>5, <1>6, <1>9, <2>1, <2>2, <2>3 DEF Handles
<1>19. SchedInv' /\ \A x \in Threads : InHand(x)' <=> InHand(x)
  <2>1. SchedTypeOK'
    BY <1>17 DEF TypeOK
  <2> QED BY <2>1, <1>5, <1>18, HandlesInv
<1>20. NoLocks' /\ YieldTargets'
  <2>1. NoLocks'
    BY <1>5, <1>10 DEF IInv, JoinInv, NoLocks
  <2>2. \A x \in Threads, r \in Sys : OnCpu(r, x)' <=> OnCpu(r, x)
    BY <1>5 DEF OnCpu
  <2>3. YieldTargets'
    BY <1>1, <1>5, <1>7, <1>10, <2>2 DEF IInv, JoinInv, YieldTargets
  <2> QED BY <2>1, <2>3
<1>21. Lists'
  <2>1. NoDuplicate(zombies')
    BY <1>5 DEF IInv, JoinInv, Lists
  <2>2. ASSUME NEW x \in Threads
        PROVE /\ x \in Elements(runnable) <=> state[x] = "RUNNABLE" /\ ~InHand(x)
              /\ x \in Elements(joining) <=> state[x] = "JOINING" /\ ~InHand(x)
              /\ x \in Elements(zombies) <=> state[x] = "ZOMBIE" /\ ~InHand(x)
    BY DEF IInv, JoinInv, Lists
  <2>3. \A x \in Threads : x \in Elements(joining') <=> x \in Elements(joining) /\ x \notin J
    BY <1>2, <1>4
  <2>4. zombies' = zombies
    BY <1>5
  <2> QED BY <1>1, <1>4, <1>7, <1>9, <1>10, <1>19, <2>1, <2>2, <2>3, <2>4 DEF Lists
<1>22. Registered' /\ Joiners'
  <2>1. Registered'
    BY <1>1, <1>5, <1>7, <1>10 DEF IInv, JoinInv, Registered
  <2>2. Joiners'
    BY <1>5, <1>10 DEF IInv, JoinInv, Joiners
  <2> QED BY <2>1, <2>2
<1>23. Collected'
  <2>1. ASSUME NEW x \in Threads, NEW y \in Threads, got'[x][y] > 0
        PROVE  /\ got'[x][y] = 1 /\ y \in allocated /\ state'[y] \in {"DEAD", "FREE"}
               /\ \A w \in Threads : got'[w][y] > 0 => w = x
    <3>1. CASE y = z
      BY <1>7, <1>10, <1>12, <1>16, <2>1, <3>1
    <3>2. CASE y # z
      <4>1. got[x][y] > 0 /\ \A w \in Threads : got'[w][y] = got[w][y]
        BY <1>16, <2>1, <3>2
      <4> QED BY <1>7, <1>10, <3>2, <4>1 DEF IInv, JoinInv, Collected
    <3> QED BY <3>1, <3>2
  <2> QED BY <1>5, <2>1 DEF Collected
<1>24. \A x \in Threads : x = z \/ CollectedBy(x) # {} => CollectedBy(x)' # {}
  BY <1>3, <1>16 DEF CollectedBy
<1>25. DeadCollected'
  BY <1>10, <1>24 DEF IInv, JoinInv, DeadCollected
<1>26. NoStrandedJoiner'
  <2>1. ASSUME NEW x \in Elements(joining), NEW w, w = joined_target[x], CollectedBy(w)' = {}
        PROVE  w \in exists /\ state'[w] # "DEAD" /\ w \notin Elements(zombies)
    <3>1. w \in Threads
      BY <2>1, ListFacts DEF IInv, TypeOK, JoinInv, Joiners, Lists
    <3>2. CollectedBy(w) = {} /\ w # z
      BY <1>24, <2>1, <3>1
    <3> QED BY <1>10, <2>1, <3>1, <3>2 DEF IInv, NoStrandedJoiner
  <2>2. \A x \in Elements(joining') : x \in Elements(joining) /\ joined_target'[x] = joined_target[x]
    BY <1>2, <1>4, <1>5
  <2>3. ASSUME NEW x \in Elements(joining'), NEW u, u = joined_target'[x],
               {y \in Threads : got'[y][u] > 0} = {}
        PROVE  u \in exists' /\ state'[u] # "DEAD" /\ u \notin Elements(zombies')
    <3>1. x \in Elements(joining) /\ u = joined_target[x]
      BY <2>2, <2>3
    <3>2. CollectedBy(u)' = {}
      BY <2>3 DEF CollectedBy
    <3>3. exists' = exists /\ zombies' = zombies
      BY <1>5
    <3> QED BY <2>1, <3>1, <3>2, <3>3
  <2> QED BY <2>3 DEF NoStrandedJoiner, CollectedBy
<1>27. Results
  <2> SUFFICES ASSUME NEW x \in Threads, Ends(x) PROVE Result(x)
    BY DEF Results
  <2>1. x \in J /\ joined_target[x] = z
    BY <1>7, <1>10 DEF Ends
  <2>2. \A y \in Threads : got'[y][z] > 0 <=> y = t
    BY <1>1, <1>3, <1>12, <1>16
  <2>3. {y \in Threads : got'[y][z] > 0} = {t}
    BY <1>3, <2>2
  <2>4. errno'[x] = IF x = t THEN "SUCCESS" ELSE "ERRINVAL"
    BY <1>5, <2>1
  <2> QED BY <1>1, <2>1, <2>3, <2>4 DEF Result
<1> QED BY <1>17, <1>19, <1>20, <1>21, <1>22, <1>23, <1>25, <1>26, <1>27 DEF IInv, JoinInv

(* A step that changes nothing. *)
LEMMA StutterInv ==
  ASSUME IInv, UNCHANGED vars
  PROVE  IInv' /\ Results
<1> USE DEF vars, schedVars, lifeVars, history
<1>1. SchedInv'
  BY DEF IInv, SchedInv, SchedTypeOK, Hands, StatesMatch, OnePlace, Held
<1>2. TypeOK'
  BY DEF IInv, TypeOK, SchedTypeOK
<1>3. JoinInv'
  <2>1. \A t \in Threads : InHand(t)' <=> InHand(t)
    BY DEF InHand, Held
  <2> QED BY <2>1 DEF IInv, JoinInv, NoLocks, YieldTargets, OnCpu, Lists, Registered, Joiners,
                      Collected, DeadCollected, CollectedBy
<1>4. NoStrandedJoiner'
  BY DEF IInv, NoStrandedJoiner, CollectedBy
<1>5. Results
  BY DEF Results, Ends
<1> QED BY <1>1, <1>2, <1>3, <1>4, <1>5 DEF IInv

(* Only three steps end a join. *)
LEMMA NoJoinEnds ==
  ASSUME IInv, NEW t \in Threads, Ends(t), Next
  PROVE  \E s \in Sys : JoinZombie(s) \/ JoinFail(s) \/ ZombieJoined(s)
<1> SUFFICES ASSUME ~\E s \in Sys : JoinZombie(s) \/ JoinFail(s) \/ ZombieJoined(s)
             PROVE  FALSE
  OBVIOUS
<1> USE DEF Ends, TypeOK, SchedTypeOK
<1>1. state \in [Threads -> ThreadState]
  BY DEF IInv
<1>2. ASSUME NEW x \in Threads, NEW u \in Threads, Create(x, u) PROVE FALSE
  <2>1. state[u] = "FREE"
    BY <1>2 DEF Create, IInv, JoinInv, Registered
  <2> QED BY <1>1, <1>2, <2>1 DEF Create
<1>3. ASSUME NEW x \in Threads, NEW s \in Sys, NEW st \in {"RUNNING", "JOINING", "ZOMBIE"},
             yield(s, x, st)
      PROVE  FALSE
  BY <1>1, <1>3 DEF yield
<1>4. ASSUME NEW x \in Threads, Thread(x) PROVE FALSE
  <2>1. CASE \E u \in Threads : Create(x, u)
    BY <1>2, <2>1
  <2>2. CASE \E s \in Sys : yield(s, x, "RUNNING") \/ yield(s, x, "JOINING") \/ yield(s, x, "ZOMBIE")
    BY <1>3, <2>2
  <2> QED BY <1>4, <2>1, <2>2 DEF Thread, ThreadJoin, Yield, Exit
<1>5. ASSUME NEW s \in Sys, Enter(s) PROVE FALSE
  BY <1>1, <1>5 DEF Enter, EnterUnblocked
<1>6. ASSUME NEW s \in Sys, EnterYield(s) PROVE FALSE
  <2>1. current[s] \in Threads \cup {NULL} /\ spc[s] = "enter" /\ current[s] # NULL
    BY <1>6 DEF EnterYield, IInv
  <2>2. state[current[s]] = "RUNNING"
    BY <1>6, <2>1 DEF EnterYield, IInv, JoinInv, YieldTargets
  <2> QED BY <1>1, <1>6, <2>1, <2>2 DEF EnterYield
<1>7. ASSUME NEW s \in Sys, Loop(s) PROVE FALSE
  BY <1>1, <1>7 DEF Loop, SelectTarget, SelectNext, SelectNone, Park
<1>8. ASSUME NEW s \in Sys, JoinWait(s) \/ ZombieWait(s) \/ Reap(s) PROVE FALSE
  BY <1>1, <1>8 DEF JoinWait, ZombieWait, Reap
<1>9. ASSUME NEW s \in Sys, System(s) PROVE FALSE
  BY <1>5, <1>6, <1>7, <1>8, <1>9 DEF System
<1> QED BY <1>4, <1>9 DEF Next

(* Every step preserves the invariant. *)
LEMMA StepInv ==
  ASSUME IInv, [Next]_vars
  PROVE  IInv'
<1>1. ASSUME NEW t \in Threads, Thread(t) PROVE IInv'
  BY <1>1, CreateInv, ThreadJoinInv, YieldStepInv, ExitInv DEF Thread
<1>2. ASSUME NEW s \in Sys, Loop(s) PROVE IInv'
  BY <1>2, SelectInv, LoopParkInv DEF Loop
<1>3. ASSUME NEW s \in Sys, System(s) PROVE IInv'
  BY <1>2, <1>3, EnterInv, EnterYieldInv, JoinZombieInv, JoinWaitInv, JoinFailInv,
     ZombieJoinedInv, ZombieWaitInv, ReapInv DEF System
<1> QED BY <1>1, <1>3, StutterInv DEF Next

(* IInv holds in every state. *)
THEOREM Invariance == Spec => []IInv
<1>1. Init => IInv
  BY InitIInv
<1>2. IInv /\ [Next]_vars => IInv'
  BY StepInv
<1> QED BY <1>1, <1>2, PTL DEF Spec

(* No thread is lost, and none is in two lists: the lists of scheduler_state.c agree
   with the states, and a freed thread is nowhere. *)
THEOREM ListsAgree == Spec => []ListsMatchStates
<1>1. IInv => ListsMatchStates
  <2> SUFFICES ASSUME IInv PROVE ListsMatchStates
    OBVIOUS
  <2>1. \A t \in Threads : t \in HeldThreads <=> InHand(t)
    BY DEF HeldThreads, InHand
  <2>2. \A t \in Threads : InHand(t) => state[t] # "FREE"
    BY HandFacts DEF InHand, IInv
  <2> QED BY <2>1, <2>2 DEF IInv, SchedInv, JoinInv, Lists, Registered, ListsMatchStates
<1> QED BY <1>1, Invariance, PTL

(* A return value is handed out once (thread.h:39-41). *)
THEOREM OneCollector == Spec => []CollectedOnce
<1>1. IInv => CollectedOnce
  BY DEF IInv, JoinInv, Collected, CollectedOnce, CollectedBy
<1> QED BY <1>1, Invariance, PTL

(* The search of a joiner (schedule.c:245-259) and that of an exiting thread (270-297)
   do not miss each other. *)
THEOREM NobodyStranded == Spec => []NoStrandedJoiner
<1>1. IInv => NoStrandedJoiner
  BY DEF IInv
<1> QED BY <1>1, Invariance, PTL

(* A join that ends has collected its target, or tells its caller why not
   (thread.h:31-48). *)
THEOREM JoinTellsResult == Spec => JoinResult
<1>1. IInv /\ [Next]_vars => [\A t \in Threads :
       state[t] = "JOINING" /\ state'[t] = "RUNNABLE" =>
         LET u == joined_target[t]
             Collector == {x \in Threads : got'[x][u] > 0}
         IN  CASE errno'[t] = "SUCCESS"  -> state[u] = "ZOMBIE" /\ Collector = {t}
               [] errno'[t] = "ERRINVAL" -> u \notin exists \/ Collector \ {t} # {}]_vars
  <2> SUFFICES ASSUME IInv, Next, NEW t \in Threads, Ends(t)
               PROVE  LET u == joined_target[t]
                          Collector == {x \in Threads : got'[x][u] > 0}
                      IN  CASE errno'[t] = "SUCCESS"  -> state[u] = "ZOMBIE" /\ Collector = {t}
                            [] errno'[t] = "ERRINVAL" -> u \notin exists \/ Collector \ {t} # {}
    BY DEF Ends
  <2>1. Results
    BY NoJoinEnds, JoinZombieInv, JoinFailInv, ZombieJoinedInv
  <2>2. Result(t)
    BY <2>1 DEF Results
  <2> QED BY <2>2 DEF Result
<1> QED BY <1>1, Invariance, PTL DEF Spec, JoinResult
=============================================================================
