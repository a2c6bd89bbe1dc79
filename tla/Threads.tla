------------------------------ MODULE Threads ------------------------------
(***************************************************************************)
(* The green threads of lab 1 (thread.c and schedule.c of                  *)
(* src/os21-lab1/done): one system thread, tsys, which runs schedule(), and*)
(* threads that create, join and yield to each other and end.  Nothing     *)
(* runs in parallel, so that an action is a call of a running thread up to *)
(* its switch, or one round of the loop of schedule() up to its switch.    *)
(*                                                                         *)
(* What schedule() and its helpers change is a record m: the links of the  *)
(* lists, the thread_info structs, whether an error check has ended the    *)
(* program (exit(-1)), and the history of the joins.  The helpers map such *)
(* a record to the next, in the order in which the code calls them.        *)
(***************************************************************************)
EXTENDS Integers, FiniteSets, Sequences

CONSTANTS Tids,      \* the identifiers of the threads
          Main,      \* the thread that exists when schedule() is called
          NULL,      \* no thread; as an identifier, -1
          tsys,
          MaxCalls   \* the bound on the calls of all threads

ListNames == {"RUNNABLE", "BLOCKED", "ZOMBIE"}

INSTANCE ThreadList WITH Threads <- Tids, Lists <- ListNames

ASSUME ThreadsAssumption ==
  /\ IsFiniteSet(Tids) /\ Main \in Tids
  /\ NULL \notin Tids /\ tsys \notin Tids \cup {NULL}
  /\ MaxCalls \in Nat

VARIABLES
  m,             \* the scheduler's memory, see above
  current,       \* scheduler->current
  onTsys,        \* tsys runs, not current
  yield_target,  \* yield_target of each thread
  created,       \* the threads that have been created
  calls          \* how many calls the threads have made

vars == <<m, current, onTsys, yield_target, created, calls>>

ThreadState == {"FREE", "RUNNING", "RUNNABLE", "BLOCKED", "ZOMBIE", "DEAD"}

Info == [state : ThreadState, errno : {"SUCCESS", "ERRINVAL"},
         joined_target : Tids \cup {NULL}]

TypeOK ==
  /\ m.lists \in Links
  /\ m.info \in [Tids -> Info]
  /\ m.exit \in BOOLEAN
  /\ m.served \in [Tids -> Nat]
  /\ m.got \in [Tids -> Nat]
  /\ current \in Tids \cup {tsys, NULL}
  /\ onTsys \in BOOLEAN
  /\ yield_target \in [Tids -> Tids \cup {NULL}]
  /\ created \subseteq Tids
  /\ calls \in 0 .. MaxCalls

State(t) == m.info[t].state

(* initialize_scheduler, and main() has created one thread. *)
Init ==
  /\ m = [lists  |-> thread_list_add(EmptyLists, "RUNNABLE", Main),
          info   |-> [t \in Tids |-> [state |-> IF t = Main THEN "RUNNABLE" ELSE "FREE",
                                      errno |-> "SUCCESS", joined_target |-> NULL]],
          exit   |-> FALSE,
          served |-> [t \in Tids |-> 0],
          got    |-> [t \in Tids |-> 0]]
  /\ current = tsys
  /\ onTsys = TRUE
  /\ yield_target = [t \in Tids |-> NULL]
  /\ created = {Main}
  /\ calls = 0

-----------------------------------------------------------------------------
(* What the running thread t calls. *)

Call(t) ==
  /\ ~onTsys /\ current = t
  /\ calls < MaxCalls
  /\ calls' = calls + 1

(* l1_thread_create, of a thread that has not been created before: identifiers
   are unique. *)
Create(t, u) ==
  /\ Call(t)
  /\ u \notin created
  /\ created' = created \cup {u}
  /\ m' = [m EXCEPT !.info[u].state = "RUNNABLE",
                    !.lists = thread_list_add(@, "RUNNABLE", u)]
  /\ UNCHANGED <<current, onTsys, yield_target>>

(* yield(u), the state of t being left as st. *)
Yield(t, u, st, joined) ==
  /\ m' = [m EXCEPT !.info[t].state = st, !.info[t].joined_target = joined]
  /\ yield_target' = [yield_target EXCEPT ![t] = u]
  /\ onTsys' = TRUE
  /\ UNCHANGED <<current, created>>

YieldTo(t, u) == Call(t) /\ Yield(t, u, "RUNNING", NULL)

(* l1_thread_join(u), up to its yield.  What follows the yield resets what the
   next call of the thread writes again. *)
Join(t, u) == Call(t) /\ Yield(t, NULL, "BLOCKED", u)

(* l1_start, when the thread's function has returned. *)
Exit(t) ==
  /\ ~onTsys /\ current = t
  /\ Yield(t, NULL, "ZOMBIE", NULL)
  /\ UNCHANGED calls

-----------------------------------------------------------------------------
(* The helpers of schedule(). *)

Remove(k, l, t) == [k EXCEPT !.lists = thread_list_remove(@, l, t)]

(* thread_list_add ends the program when t is still linked. *)
AddTo(k, l, t) == [k EXCEPT !.lists = thread_list_add(@, l, t),
                            !.exit = @ \/ ~Unlinked(k.lists, t)]

Prepend(k, l, t) == [k EXCEPT !.lists = thread_list_prepend(@, l, t),
                              !.exit = @ \/ ~Unlinked(k.lists, t)]

Find(k, l, t) == thread_list_find(k.lists, l, t)

(* Mutant: the thread is removed from the wrong list. *)
unblock_thread_WrongList(k, b, z) ==
  LET info == [state |-> "RUNNABLE", joined_target |-> NULL, errno |-> "ERRINVAL"]
  IN  AddTo(Remove([k EXCEPT !.info[b] = info], "ZOMBIE", b), "RUNNABLE", b)

(* b returns from its join: with the return value of z, which is dead then, or
   with an error when there is no z. *)
unblock_thread(k, b, z) ==
  LET target == k.info[b].joined_target
      info  == [state |-> "RUNNABLE", joined_target |-> NULL,
                errno |-> IF z = NULL THEN "ERRINVAL" ELSE "SUCCESS"]
      woken == AddTo(Remove([k EXCEPT !.info[b] = info], "BLOCKED", b), "RUNNABLE", b)
  IN  IF z = NULL
      THEN IF target = NULL THEN woken ELSE [woken EXCEPT !.served[target] = @ + 1]
      ELSE [Remove(woken, "ZOMBIE", z) EXCEPT
              !.info[z].state = "DEAD",
              !.exit = @ \/ k.info[z].state # "ZOMBIE",
              !.served[z] = @ + 1,
              !.got[z] = @ + 1]

(* Mutant: ZOMBIE is not searched. *)
Blocks_NoZombie(k, c) ==
  LET target == k.info[c].joined_target
  IN  IF Find(k, "BLOCKED", target) # NULL \/ Find(k, "RUNNABLE", target) # NULL
      THEN k ELSE unblock_thread(k, c, NULL)

(* Lines 172-197: c joins its target. *)
Blocks(k, c) ==
  LET target == k.info[c].joined_target
  IN  IF target = NULL THEN unblock_thread(k, c, NULL)
      ELSE IF Find(k, "ZOMBIE", target) # NULL THEN unblock_thread(k, c, target)
      ELSE IF Find(k, "BLOCKED", target) # NULL THEN k
      ELSE IF Find(k, "RUNNABLE", target) # NULL THEN k
      ELSE unblock_thread(k, c, NULL)

(* Mutant: only one thread that joins c is looked for. *)
Ends_FirstOnly(k, c) ==
  LET w == SelectSeq(Walk(k.lists, "BLOCKED"), LAMBDA t : k.info[t].joined_target = c)
  IN  IF w = <<>> THEN k ELSE unblock_thread(k, Head(w), c)

(* Lines 199-215: c has ended.  The first thread found in BLOCKED that joins it
   is kept for the end, the others fail; the traversal goes on from the next
   pointer of a thread that unblock_thread has moved to RUNNABLE. *)
Ends(k, c) ==
  LET N == Cardinality(Tids)
      visit(r) ==
        IF r.bl = NULL THEN r
        ELSE LET joins == r.k.info[r.bl].joined_target = c
                 k2 == IF joins /\ r.joined # NULL THEN unblock_thread(r.k, r.bl, NULL)
                                                   ELSE r.k
             IN  [k |-> k2, bl |-> k2.lists.next[r.bl],
                  joined |-> IF joins /\ r.joined = NULL THEN r.bl ELSE r.joined]
      scan[n \in 0 .. N] ==
        IF n = 0 THEN [k |-> k, bl |-> k.lists.head["BLOCKED"], joined |-> NULL]
                 ELSE visit(scan[n - 1])
      end == scan[N]
  IN  IF end.joined = NULL THEN end.k ELSE unblock_thread(end.k, end.joined, c)

(* Mutant: the thread stays in RUNNABLE while it is added to its new list. *)
handle_non_runnable_NotRemoved(k, c) ==
  LET moved == AddTo(k, k.info[c].state, c)
  IN  IF k.info[c].state = "BLOCKED" THEN Blocks(moved, c) ELSE Ends(moved, c)

handle_non_runnable(k, c) ==
  LET moved == AddTo(Remove(k, "RUNNABLE", c), k.info[c].state, c)
  IN  IF k.info[c].state = "BLOCKED" THEN Blocks(moved, c) ELSE Ends(moved, c)

(* Lines 107-120: a yielder goes to the tail of RUNNABLE, where it has been
   while it ran. *)
Descheduled(k, c) ==
  LET found == yield_target[c] = NULL \/ Find(k, "RUNNABLE", yield_target[c]) # NULL
      info == [k.info EXCEPT ![c].state = "RUNNABLE",
                             ![c].errno = IF found THEN "SUCCESS" ELSE "ERRINVAL"]
  IN  AddTo(Remove([k EXCEPT !.info = info], "RUNNABLE", c), "RUNNABLE", c)

(* Lines 95-126: what becomes of the thread that has just run. *)
Left(k, c) ==
  IF c = tsys THEN k
  ELSE IF k.info[c].state = "RUNNING" THEN Descheduled(k, c)
  ELSE handle_non_runnable([k EXCEPT !.info[c].errno = "SUCCESS"], c)

(* What a policy may return: a thread of RUNNABLE, if there is one.  Policies
   may ignore the thread yielded to.  (Round robin rotates the list, which the
   move of the selected thread to its head undoes.) *)
select_next(k) ==
  IF Members(k.lists, "RUNNABLE") = {} THEN {NULL} ELSE Members(k.lists, "RUNNABLE")

(* Lines 130-135. *)
Freed(k, c) ==
  IF c # tsys /\ k.info[c].state = "DEAD" THEN [k EXCEPT !.info[c].state = "FREE"] ELSE k

(* Lines 137-146: the selected thread runs and is the head of RUNNABLE. *)
Switched(k, n) ==
  IF n = NULL THEN k
  ELSE Prepend(Remove([k EXCEPT !.info[n].state = "RUNNING"], "RUNNABLE", n), "RUNNABLE", n)

(* One round of the loop. *)
schedule ==
  /\ onTsys /\ current # NULL /\ ~m.exit
  /\ ~thread_list_is_empty(m.lists, "RUNNABLE")
  /\ LET left == Left(m, current)
     IN  \E n \in select_next(left) :
           /\ m' = Switched(Freed(left, current), n)
           /\ current' = n
           /\ onTsys' = (n = NULL)
  /\ UNCHANGED <<yield_target, created, calls>>

(* schedule() has returned. *)
Terminated == current = NULL /\ UNCHANGED vars

Thread(t) ==
  \/ \E u \in Tids : Create(t, u)
  \/ \E u \in Tids \cup {NULL} : YieldTo(t, u) \/ Join(t, u)
  \/ Exit(t)

Next == (\E t \in Tids : Thread(t)) \/ schedule \/ Terminated

Spec == Init /\ [][Next]_vars

-----------------------------------------------------------------------------
(* Safety. *)

(* The types hold, the lists are well formed and agree with the states of the
   threads: the running thread is in RUNNABLE, at its head; a dead or freed
   thread is in no list.  The links are shared by the lists and no operation
   checks that a thread is in the list it is removed from (thread_list.h:22-31). *)
ListsMatchStates ==
  /\ TypeOK
  /\ \A l \in ListNames : WellLinked(m.lists, l)
  /\ \A t \in Tids :
       LET In(l) == t \in Members(m.lists, l)
           left == onTsys /\ current = t
       IN  /\ In("RUNNABLE") <=> State(t) \in {"RUNNING", "RUNNABLE"} \/ left
           /\ In("BLOCKED") <=> State(t) = "BLOCKED" /\ ~left
           /\ In("ZOMBIE") <=> State(t) = "ZOMBIE" /\ ~left
  /\ current \in Tids => m.lists.head["RUNNABLE"] = current

(* No check of schedule.c or thread_list.c ends the program (exit(-1)):
   threads are unlinked when they are added to a list, and what is collected is
   a zombie (thread_list.c:70-73, schedule.c:226-229). *)
NoErrorExit == ~m.exit

(* A join that ends with SUCCESS has got the return value of a thread that has
   ended, and is the only one; it fails only when its target does not exist or
   another thread has got the value (thread.h:37-54). *)
JoinOutcome ==
  [][\A t \in Tids :
       State(t) = "BLOCKED" /\ m'.info[t].state \in {"RUNNABLE", "RUNNING"} =>
         LET u == m.info[t].joined_target
         IN  IF m'.info[t].errno = "SUCCESS"
             THEN State(u) = "ZOMBIE" /\ m.got[u] = 0 /\ m'.got[u] = 1
             ELSE u \notin created \/ m'.got[u] = 1]_vars

Alive(u) == State(u) \in {"RUNNING", "RUNNABLE", "BLOCKED"} \/ (onTsys /\ current = u)

(* A blocked thread waits for one that is still going to end, unless two other
   threads have already returned from a join of the same thread. *)
StrandedOnlyByOthers ==
  \A t \in Members(m.lists, "BLOCKED") :
    LET u == m.info[t].joined_target
    IN  Alive(u) \/ m.served[u] >= 2

(* "We are a zombie and need to unblock people" (schedule.c:199): no thread is
   left blocked for one that has ended.  The code fails when three threads join
   the same target: the second is moved to RUNNABLE, and the traversal of
   BLOCKED goes on behind it there (line 211), at the end of that list. *)
NoStrandedJoiner ==
  \A t \in Members(m.lists, "BLOCKED") : Alive(m.info[t].joined_target)
=============================================================================
