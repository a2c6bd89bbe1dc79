-------------------------------- MODULE Join --------------------------------
(***************************************************************************)
(* The life of a green thread of lab 2: creation, yield to a target, exit, *)
(* and join (handle_non_runnable and unblock_thread of schedule.c, the     *)
(* lists of scheduler_state.c).  A joiner looks for its target with the    *)
(* locks of all lists held; an exiting thread looks for its joiners with   *)
(* the locks of ZOMBIE and JOINING held.  Each of the two is one step: no  *)
(* other system thread can look at these lists in between, and the threads *)
(* it unblocks enter RUNNABLE in the order of the code.                    *)
(*                                                                         *)
(* l2_thread_create, l2_thread_join and the start of a thread are in a     *)
(* library whose source is not in the repository: they are modelled from   *)
(* thread.h and from what schedule.c expects of them.                      *)
(***************************************************************************)
EXTENDS Schedule

CONSTANT MaxCalls    \* the bound on the calls a thread makes before it returns

ASSUME JoinAssumption == MaxCalls \in Nat

VARIABLES
  allocated,      \* the identifiers get_uniq_tid has returned
  exists,         \* scheduler_state_t.exists
  zombies,        \* thread_arrays[ZOMBIE]
  joining,        \* thread_arrays[JOINING]
  yield_target,   \* thread_info_t.yield_target
  joined_target,  \* thread_info_t.joined_target
  errno,          \* thread_info_t.errno
  calls,          \* how many calls each thread has made
  got             \* history: got[t][u] counts the joins of t that returned u's retval

lifeVars == <<exists, zombies, joining, yield_target, joined_target, errno>>
history == <<allocated, calls, got>>
vars == <<schedVars, lifeVars, history>>

TypeOK ==
  /\ SchedTypeOK
  /\ allocated \subseteq Threads
  /\ exists \subseteq allocated
  /\ zombies \in Seq(Threads) /\ joining \in Seq(Threads)
  /\ yield_target \in [Threads -> Threads \cup {NULL}]
  /\ joined_target \in [Threads -> Threads \cup {NULL}]
  /\ errno \in [Threads -> {"SUCCESS", "ERRINVAL"}]
  /\ calls \in [Threads -> 0 .. MaxCalls]
  /\ got \in [Threads -> [Threads -> 0 .. MaxCalls]]

Init ==
  /\ SchedInit
  /\ allocated = Elements(Created)
  /\ exists = allocated
  /\ zombies = <<>> /\ joining = <<>>
  /\ yield_target = [t \in Threads |-> NULL]
  /\ joined_target = [t \in Threads |-> NULL]
  /\ errno = [t \in Threads |-> "SUCCESS"]
  /\ calls = [t \in Threads |-> 0]
  /\ got = [t \in Threads |-> [u \in Threads |-> 0]]

-----------------------------------------------------------------------------
(* What a running thread calls. *)

Call(t) ==
  /\ Running(t)
  /\ calls[t] < MaxCalls
  /\ calls' = [calls EXCEPT ![t] = @ + 1]

(* l2_thread_create: register_thread, then add_to_scheduler. *)
Create(t, u) ==
  /\ Call(t)
  /\ u \notin allocated
  /\ allocated' = allocated \cup {u}
  /\ exists' = exists \cup {u}
  /\ state' = [state EXCEPT ![u] = "RUNNABLE"]
  /\ runnable' = Append(runnable, u)
  /\ UNCHANGED <<lock_type, current, spc, cur, next, lock_tpe>>
  /\ UNCHANGED <<zombies, joining, yield_target, joined_target, errno, got>>

Yield(t, u) ==
  /\ Call(t)
  /\ yield_target' = [yield_target EXCEPT ![t] = u]
  /\ \E s \in Sys : yield(s, t, "RUNNING")
  /\ UNCHANGED <<allocated, exists, zombies, joining, joined_target, errno, got>>

(* l2_thread_join(u): any identifier, of a thread or of none. *)
ThreadJoin(t, u) ==
  /\ Call(t)
  /\ joined_target' = [joined_target EXCEPT ![t] = u]
  /\ \E s \in Sys : yield(s, t, "JOINING")
  /\ UNCHANGED <<allocated, exists, zombies, joining, yield_target, errno, got>>

(* The thread's function returns. *)
Exit(t) ==
  /\ \E s \in Sys : yield(s, t, "ZOMBIE")
  /\ UNCHANGED <<lifeVars, history>>

-----------------------------------------------------------------------------
(* What is left of a list when thread_list_remove has taken out the threads that are
   not in S, in the order of the list. *)
Only(list, S) ==
  LET only[n \in 0 .. Len(list)] ==
        IF n = 0 THEN <<>>
        ELSE IF list[n] \in S THEN Append(only[n - 1], list[n])
                              ELSE only[n - 1]
  IN only[Len(list)]

-----------------------------------------------------------------------------
(* schedule() *)

(* No target: the base action, and errno is reset (line 89). *)
Enter(s) ==
  /\ EnterUnblocked(s)
  /\ yield_target[current[s]] = NULL
  /\ errno' = [errno EXCEPT ![current[s]] = "SUCCESS"]
  /\ UNCHANGED <<exists, zombies, joining, yield_target, joined_target, history>>

(* Look for the target in RUNNABLE: only a thread that waits there can be
   yielded to. *)
EnterYield(s) ==
  LET t == current[s]
      u == yield_target[t]
      found == u \in Elements(runnable) IN
  /\ spc[s] = "enter"
  /\ u # NULL
  /\ state' = [state EXCEPT ![t] = "RUNNABLE"]
  /\ runnable' = IF found THEN Only(runnable, Threads \ {u}) ELSE runnable
  /\ next' = [next EXCEPT ![s] = IF found THEN u ELSE NULL]
  /\ errno' = [errno EXCEPT ![t] = IF found THEN "SUCCESS" ELSE "ERRINVAL"]
  /\ yield_target' = [yield_target EXCEPT ![t] = NULL]
  /\ cur' = [cur EXCEPT ![s] = t]
  /\ current' = [current EXCEPT ![s] = NULL]
  /\ spc' = [spc EXCEPT ![s] = "select"]
  /\ UNCHANGED <<lock_type, lock_tpe, exists, zombies, joining, joined_target, history>>

(* handle_non_runnable of a joiner (lines 235-265) ... *)
Joiner(s) ==
  /\ spc[s] = "park"
  /\ cur[s] # NULL
  /\ state[cur[s]] = "JOINING"
  /\ cur' = [cur EXCEPT ![s] = NULL]
  /\ UNCHANGED <<lock_type, current, spc, next, lock_tpe>>
  /\ UNCHANGED <<allocated, exists, yield_target, calls>>

(* Mutant: the zombie stays in its list. *)
JoinZombie_KeepsZombie(s) ==
  LET t == cur[s] IN
  /\ Joiner(s)
  /\ joined_target[t] \in Elements(zombies)
  /\ got' = [got EXCEPT ![t][joined_target[t]] = @ + 1]
  /\ state' = [state EXCEPT ![t] = "RUNNABLE"]
  /\ errno' = [errno EXCEPT ![t] = "SUCCESS"]
  /\ joined_target' = [joined_target EXCEPT ![t] = NULL]
  /\ runnable' = Append(runnable, t)
  /\ UNCHANGED <<zombies, joining>>

(* ... whose target waits in ZOMBIE: unblock_thread(current, joined). *)
JoinZombie(s) ==
  LET t == cur[s]
      u == joined_target[t] IN
  /\ Joiner(s)
  /\ u \in Elements(zombies)
  /\ zombies' = Only(zombies, Threads \ {u})
  /\ got' = [got EXCEPT ![t][u] = @ + 1]
  /\ state' = [state EXCEPT ![t] = "RUNNABLE", ![u] = "DEAD"]
  /\ errno' = [errno EXCEPT ![t] = "SUCCESS"]
  /\ joined_target' = [joined_target EXCEPT ![t] = NULL]
  /\ runnable' = Append(runnable, t)
  /\ UNCHANGED joining

(* ... whose target has not exited: wait for it. *)
JoinWait(s) ==
  /\ Joiner(s)
  /\ joined_target[cur[s]] \notin Elements(zombies)
  /\ joined_target[cur[s]] \in exists
  /\ joining' = Append(joining, cur[s])
  /\ UNCHANGED <<state, runnable, zombies, errno, joined_target, got>>

(* Mutant: does_thread_exists is not asked. *)
JoinFail_NoLookup(s) ==
  /\ Joiner(s)
  /\ joined_target[cur[s]] \notin Elements(zombies)
  /\ state' = [state EXCEPT ![cur[s]] = "RUNNABLE"]
  /\ errno' = [errno EXCEPT ![cur[s]] = "ERRINVAL"]
  /\ joined_target' = [joined_target EXCEPT ![cur[s]] = NULL]
  /\ runnable' = Append(runnable, cur[s])
  /\ UNCHANGED <<zombies, joining, got>>

(* ... whose target does not exist: unblock_thread(current, NULL). *)
JoinFail(s) ==
  LET t == cur[s] IN
  /\ Joiner(s)
  /\ joined_target[t] \notin Elements(zombies) \cup exists
  /\ state' = [state EXCEPT ![t] = "RUNNABLE"]
  /\ errno' = [errno EXCEPT ![t] = "ERRINVAL"]
  /\ joined_target' = [joined_target EXCEPT ![t] = NULL]
  /\ runnable' = Append(runnable, t)
  /\ UNCHANGED <<zombies, joining, got>>

(* handle_non_runnable of an exiting thread (lines 267-298) ... *)
Exiting(s) ==
  /\ spc[s] = "park"
  /\ cur[s] # NULL
  /\ state[cur[s]] = "ZOMBIE"
  /\ UNCHANGED <<lock_type, current, spc, next, lock_tpe>>
  /\ UNCHANGED <<allocated, exists, yield_target, calls>>

JoinersOf(u) == Only(joining, {x \in Threads : joined_target[x] = u})

(* ... that is joined: the first joiner gets the return value and enters
   RUNNABLE after the others, which fail. *)
ZombieJoined(s) ==
  LET z  == cur[s]
      js == JoinersOf(z)
      t  == Head(js) IN
  /\ Exiting(s)
  /\ js # <<>>
  /\ joining' = Only(joining, {x \in Threads : joined_target[x] # z})
  /\ runnable' = runnable \o Tail(js) \o <<t>>
  /\ state' = [x \in Threads |-> IF x \in Elements(js) THEN "RUNNABLE"
                                 ELSE IF x = z THEN "DEAD" ELSE state[x]]
  /\ errno' = [x \in Threads |-> IF x = t THEN "SUCCESS"
                                 ELSE IF x \in Elements(js) THEN "ERRINVAL" ELSE errno[x]]
  /\ joined_target' = [x \in Threads |-> IF x \in Elements(js) THEN NULL
                                         ELSE joined_target[x]]
  /\ got' = [got EXCEPT ![t][z] = @ + 1]
  /\ UNCHANGED <<cur, zombies>>

(* Mutant: it waits in ZOMBIE without a look at its joiners. *)
ZombieWait_NoLookup(s) ==
  /\ Exiting(s)
  /\ zombies' = Append(zombies, cur[s])
  /\ cur' = [cur EXCEPT ![s] = NULL]
  /\ UNCHANGED <<state, runnable, joining, errno, joined_target, got>>

(* ... that is not: it waits in ZOMBIE. *)
ZombieWait(s) ==
  /\ Exiting(s)
  /\ JoinersOf(cur[s]) = <<>>
  /\ zombies' = Append(zombies, cur[s])
  /\ cur' = [cur EXCEPT ![s] = NULL]
  /\ UNCHANGED <<state, runnable, joining, errno, joined_target, got>>

(* Mutant: freed, but still registered. *)
Reap_KeepsRegistered(s) ==
  /\ spc[s] = "park"
  /\ cur[s] # NULL
  /\ state[cur[s]] = "DEAD"
  /\ state' = [state EXCEPT ![cur[s]] = "FREE"]
  /\ cur' = [cur EXCEPT ![s] = NULL]
  /\ UNCHANGED <<exists, lock_type, runnable, current, spc, next, lock_tpe>>
  /\ UNCHANGED <<zombies, joining, yield_target, joined_target, errno, history>>

(* Lines 163-168: unregister_thread and free. *)
Reap(s) ==
  LET z == cur[s] IN
  /\ spc[s] = "park"
  /\ z # NULL
  /\ state[z] = "DEAD"
  /\ exists' = exists \ {z}
  /\ state' = [state EXCEPT ![z] = "FREE"]
  /\ cur' = [cur EXCEPT ![s] = NULL]
  /\ UNCHANGED <<lock_type, runnable, current, spc, next, lock_tpe>>
  /\ UNCHANGED <<zombies, joining, yield_target, joined_target, errno, history>>

(* The rest of the loop. *)
Loop(s) ==
  /\ \/ SelectTarget(s)
     \/ SelectNext(s)
     \/ SelectNone(s)
     \/ cur[s] \in {NULL} \cup {t \in Threads : state[t] = "RUNNABLE"} /\ Park(s)
  /\ UNCHANGED <<lifeVars, history>>

-----------------------------------------------------------------------------
Thread(t) ==
  \/ \E u \in Threads : Create(t, u) \/ ThreadJoin(t, u)
  \/ \E u \in Threads \cup {NULL} : Yield(t, u)
  \/ Exit(t)

System(s) ==
  \/ Enter(s) \/ EnterYield(s) \/ Loop(s)
  \/ JoinZombie(s) \/ JoinWait(s) \/ JoinFail(s)
  \/ ZombieJoined(s) \/ ZombieWait(s) \/ Reap(s)

Next ==
  \/ \E t \in Threads : Thread(t)
  \/ \E s \in Sys : System(s)

Spec == Init /\ [][Next]_vars

(* The kernel keeps running a system thread that is in schedule(); a green
   thread may compute for ever between two calls. *)
FairSpec == Spec /\ \A s \in Sys : WF_vars(System(s))

-----------------------------------------------------------------------------
(* Safety. *)

HeldThreads == UNION {Held(s) : s \in Sys}

(* The types hold, and the lists agree with the states: a thread is in the list
   of its state or in the hands of one system thread, never lost and never in two
   lists; a freed thread is in no list and no longer registered (a use after free
   at schedule.c:163-168 would show here). *)
ListsMatchStates ==
  /\ TypeOK /\ OnePlace
  /\ NoDuplicate(joining) /\ NoDuplicate(zombies)
  /\ \A t \in Threads :
       LET InState(st) == state[t] = st /\ t \notin HeldThreads
       IN  /\ t \in Elements(runnable) <=> InState("RUNNABLE")
           /\ t \in Elements(joining) <=> InState("JOINING")
           /\ t \in Elements(zombies) <=> InState("ZOMBIE")
           /\ t \in exists <=> state[t] # "FREE"
           /\ t \in HeldThreads => state[t] # "FREE"

CollectedBy(u) == {t \in Threads : got[t][u] > 0}

(* The return value of a thread is handed out once, whoever joins it and
   however often (thread.h:39-41). *)
CollectedOnce ==
  \A u \in Threads : \A t1, t2 \in CollectedBy(u) : t1 = t2 /\ got[t1][u] = 1

(* A joiner does not wait for a thread that has already looked for its joiners
   and is gone, unless it is a second joiner, which thread.h:40-41 rules out:
   the search of the joiner (schedule.c:245-259) and that of the exiting
   thread (270-297) cannot miss each other.  (The second joiner may come after
   the value was handed out (290) and before the thread is unregistered (164):
   it finds it in exists, and waits for ever.) *)
NoStrandedJoiner ==
  \A t \in Elements(joining) :
    LET u == joined_target[t]
    IN  \/ u \in exists /\ state[u] # "DEAD" /\ u \notin Elements(zombies)
        \/ CollectedBy(u) # {}

(* A join that ends has collected its target, or fails because the target does
   not exist or has been joined by another thread (thread.h:31-48). *)
JoinResult ==
  [][\A t \in Threads :
       state[t] = "JOINING" /\ state'[t] = "RUNNABLE" =>
         LET u == joined_target[t]
             Collected == {x \in Threads : got'[x][u] > 0}
         IN  CASE errno'[t] = "SUCCESS"  -> state[u] = "ZOMBIE" /\ Collected = {t}
               [] errno'[t] = "ERRINVAL" -> u \notin exists \/ Collected \ {t} # {}]_vars

(* unblock_thread says it marks the zombie dead "to free it in schedule"
   (schedule.c:325), and schedule.h:76 that the zombie "will be freed by the
   end of the function": somebody is about to free every dead thread.  The
   code does not when the joiner comes after the exit (lines 246-251): its
   thread_info_t stays registered for ever. *)
DeadIsFreed ==
  \A t \in Threads : state[t] = "DEAD" => \E s \in Sys : cur[s] = t

-----------------------------------------------------------------------------
(* Liveness, under FairSpec. *)

(* A joiner whose target exits is unblocked. *)
JoinReturns ==
  \A t \in Threads :
    (t \in Elements(joining) /\ state[joined_target[t]] = "ZOMBIE")
      ~> t \notin Elements(joining)
=============================================================================
