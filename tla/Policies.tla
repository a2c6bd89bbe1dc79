------------------------------ MODULE Policies ------------------------------
(***************************************************************************)
(* The scheduling policies of lab 1 (sched_policy.c, priority.c) in the    *)
(* loop of schedule() that calls them: round robin, fewest cycles, and the *)
(* multi-level feedback queue.  A step is a slice of the running thread,   *)
(* up to the switch to the next one.  Time is counted in small units, and  *)
(* the constants of priority.h and schedule.h are scaled down.             *)
(***************************************************************************)
EXTENDS Naturals, FiniteSets, Sequences, SequencesExt

CONSTANTS
  NThreads,                 \* threads are named in the order of their creation
  TOP_PRIORITY, SCHED_PERIOD, MIN_SLICE, TIME_PRIORITY_THRESHOLD,
  Durations,                \* how long a slice may take
  MaxTotal                  \* the bound on total_time, where nothing resets it

VARIABLES
  select_next,     \* the policy
  runnable,        \* the list RUNNABLE; the running thread is its head
  blocked,         \* the threads that wait in a join
  created,         \* how many threads have been created
  running,         \* scheduler->current, or 0 before the first slice
  priority_level, got_scheduled, total_time,   \* of each thread
  sched_ticks,
  since,           \* history: who was scheduled while the thread waits
  idle,            \* history: how many calls of schedule() it has waited
  steady,          \* history: it has never blocked nor been yielded to
  overtaken        \* history: the last selection overtook a thread

policyVars == <<select_next, runnable, blocked, created, running, priority_level,
                got_scheduled, total_time, sched_ticks, since, idle, steady, overtaken>>

PolicyThreads == 1..NThreads

ASSUME PolicyAssumption ==
  /\ NThreads \in Nat \ {0}
  /\ TOP_PRIORITY \in Nat /\ SCHED_PERIOD \in Nat \ {0}
  /\ Durations \subseteq Nat /\ Durations # {}

PolicyInit(policies) ==
  /\ select_next \in policies
  /\ created \in PolicyThreads
  /\ runnable = [i \in 1..created |-> i]
  /\ blocked = {} /\ running = 0 /\ sched_ticks = 0
  /\ priority_level = [t \in PolicyThreads |-> TOP_PRIORITY]
  /\ got_scheduled = [t \in PolicyThreads |-> 0]
  /\ total_time = [t \in PolicyThreads |-> 0]
  /\ since = [t \in PolicyThreads |-> {}]
  /\ idle = [t \in PolicyThreads |-> 0]
  /\ steady = [t \in PolicyThreads |-> t <= created]
  /\ overtaken = FALSE
-----------------------------------------------------------------------------
(* l1_thread_create: a new thread has the top priority.                    *)
PolicyCreate ==
  /\ running # 0
  /\ created + 1 \in PolicyThreads
  /\ created' = created + 1
  /\ runnable' = Append(runnable, created')
  /\ UNCHANGED <<select_next, blocked, running, priority_level, got_scheduled,
                 total_time, sched_ticks, since, idle, steady, overtaken>>

(* The first thread of list that is one of best.                           *)
FirstIn(list, best) ==
  list[CHOOSE i \in DOMAIN list : /\ list[i] \in best
                                  /\ \A j \in 1..i - 1 : list[j] \notin best]

(* list without t, which is in it once.                                    *)
Removed(list, t) == RemoveAt(list, CHOOSE i \in DOMAIN list : list[i] = t)

l1_round_robin_policy(list, target) == IF target # 0 THEN target ELSE Head(list)

l1_smallest_cycles_policy(list, target, total) ==
  IF target # 0 THEN target
  ELSE FirstIn(list, {t \in Range(list) : \A u \in Range(list) : total[t] <= total[u]})

(* Mutant: the test of got_scheduled is the wrong way round.               *)
mlfq_boost_Inverted(list) == {t \in Range(list) : got_scheduled[t] # 0}

(* Threads whose got_scheduled is 0 go up by a level and start afresh.     *)
mlfq_boost(list) == {t \in Range(list) : got_scheduled[t] = 0}

mlfq_next_thread(list, priority) ==
  FirstIn(list, {t \in Range(list) : \A u \in Range(list) : priority[u] <= priority[t]})

(* Beyond that many calls of schedule() a waiting thread is at the top.    *)
MaxIdle == SCHED_PERIOD * TOP_PRIORITY

l1_priority_slice_size(priority) == MIN_SLICE * (TOP_PRIORITY - priority + 1)

l1_priority_increase(priority) == IF priority = TOP_PRIORITY THEN priority ELSE priority + 1

l1_priority_decrease(priority) == IF priority = 0 THEN priority ELSE priority - 1

(* What l1_mlfq_policy makes of the threads: at tick 0 the waiting ones    *)
(* are boosted (rule 5), then the previous one is demoted when its slice   *)
(* (rule 4) or its total time (rule 6) is used up.                         *)
Boosted(list, t) == sched_ticks = 0 /\ t \in mlfq_boost(list)

Level(list, t) == IF Boosted(list, t) THEN l1_priority_increase(priority_level[t])
                                      ELSE priority_level[t]

Demoted(list, t, slice, total) ==
  /\ t = running
  /\ \/ l1_priority_slice_size(Level(list, t)) <= slice
     \/ ~Boosted(list, t) /\ TIME_PRIORITY_THRESHOLD < total[t]

l1_mlfq_policy(list, slice, total) ==
  /\ priority_level' = [t \in PolicyThreads |->
       IF Demoted(list, t, slice, total) THEN l1_priority_decrease(Level(list, t))
                                         ELSE Level(list, t)]
  /\ total_time' = [t \in PolicyThreads |->
       IF Boosted(list, t) \/ Demoted(list, t, slice, total) THEN 0 ELSE total[t]]
-----------------------------------------------------------------------------
(* The history: next is selected from list, for a yield to target or by    *)
(* the policy.  It overtakes a thread that waits, was waiting when next    *)
(* ran before, and has at least its level.                                 *)
History(list, next, target) ==
  LET waits == Range(list) \ {next, running} IN
  /\ since' = [t \in PolicyThreads |->
       CASE t \in waits -> since[t] \cup {next}
         [] t = running /\ t # next /\ t \in Range(list) -> {next}
         [] OTHER -> {}]
  /\ idle' = [t \in PolicyThreads |-> IF t \notin waits THEN 0
                                      ELSE IF idle[t] = MaxIdle THEN MaxIdle ELSE idle[t] + 1]
  /\ overtaken' = (next # target /\ \E t \in waits :
                     next \in since[t] /\ priority_level'[t] >= priority_level'[next])

(* The rest of schedule(): list is RUNNABLE when the policy is called, and *)
(* target the thread found for a yield, or 0.  The selected thread becomes *)
(* the head of the list.                                                   *)
Dispatch(list, target, slice, total) ==
  LET next == CASE select_next = "round_robin" -> l1_round_robin_policy(list, target)
                [] select_next = "smallest_cycles" ->
                     l1_smallest_cycles_policy(list, target, total)
                [] select_next = "mlfq" -> mlfq_next_thread(list, priority_level')
      demoted(t) == select_next = "mlfq" /\ Demoted(list, t, slice, total)
  IN
  /\ IF select_next = "mlfq" THEN l1_mlfq_policy(list, slice, total)
     ELSE total_time' = total /\ UNCHANGED priority_level
  /\ running' = next
  /\ runnable' = <<running'>> \o Removed(list, running')
  /\ got_scheduled' = [t \in PolicyThreads |-> CASE t = running' -> sched_ticks
                                                 [] t # running' /\ demoted(t) -> 0
                                                 [] OTHER -> got_scheduled[t]]
  /\ sched_ticks' = (sched_ticks + 1) % SCHED_PERIOD
  /\ History(list, running', target)

(* The first call of schedule(), by tsys, whose own slice is of no account. *)
FirstSlice ==
  /\ running = 0
  /\ Dispatch(runnable, 0, 0, total_time)
  /\ UNCHANGED <<select_next, blocked, created, steady>>

Ran(slice) == [total_time EXCEPT ![running] = @ + slice]

Slice(slice) ==
  /\ running # 0
  /\ select_next = "mlfq" \/ Ran(slice)[running] <= MaxTotal

(* Mutant: the yielder stays where it is in the list.                      *)
ToTail_Stays(list, t) == list

(* The fake rotation: a thread that yields goes to the end of RUNNABLE.    *)
ToTail(list, t) == Append(Removed(list, t), t)

(* The thread yields, to nobody or to a target that is RUNNABLE or not.    *)
PolicyYield(slice, target) ==
  /\ Slice(slice)
  /\ Dispatch(ToTail(runnable, running),
              IF target \in Range(runnable) THEN target ELSE 0, slice, Ran(slice))
  /\ steady' = IF target = 0 THEN steady ELSE [steady EXCEPT ![target] = FALSE]
  /\ UNCHANGED <<select_next, blocked, created>>

(* It waits in a join.                                                     *)
PolicyBlock(slice) ==
  /\ Slice(slice)
  /\ Tail(runnable) # <<>>
  /\ blocked' = blocked \cup {running}
  /\ Dispatch(Tail(runnable), 0, slice, Ran(slice))
  /\ steady' = [steady EXCEPT ![running] = FALSE]
  /\ UNCHANGED <<select_next, created>>

(* It ends, and its joiners are RUNNABLE again before the next is selected. *)
PolicyExit(slice, joiners) ==
  /\ Slice(slice)
  /\ Range(joiners) \subseteq blocked
  /\ Tail(runnable) \o joiners # <<>>
  /\ blocked' = blocked \ Range(joiners)
  /\ Dispatch(Tail(runnable) \o joiners, 0, slice, Ran(slice))
  /\ UNCHANGED <<select_next, created, steady>>

PolicyNext ==
  \/ PolicyCreate
  \/ FirstSlice
  \/ \E slice \in Durations :
       \/ \E target \in {0} \cup 1..created : PolicyYield(slice, target)
       \/ PolicyBlock(slice)
       \/ \E W \in SUBSET blocked : \E joiners \in SetToSeqs(W) : PolicyExit(slice, joiners)
-----------------------------------------------------------------------------
(* Every policy shares out the processor.  Round robin and the feedback    *)
(* queue never select a thread twice while another one of at least its     *)
(* level waits, wherever yields, joins and exits have put them in the list *)
(* (rule 2).  With fewest cycles, threads that always were RUNNABLE are    *)
(* never further apart than one slice.                                     *)
FairShare ==
  /\ select_next \in {"round_robin", "mlfq"} => ~overtaken
  /\ select_next = "smallest_cycles" =>
       \A t, u \in 1..created :
         (steady[t] /\ steady[u] /\ {t, u} \subseteq Range(runnable)) =>
           \E most \in Durations : total_time[t] <= total_time[u] + most

(* Rule 5, as far as the code goes: a thread that waits with got_scheduled *)
(* at 0, as every demoted and every new thread does, goes up by one level  *)
(* in every SCHED_PERIOD calls of schedule().  The others wait without it: *)
(* a thread that was not demoted keeps the tick of its last slice there,   *)
(* though the boost is for "threads that did not run during SCHED_PERIOD   *)
(* slices" (sched_policy.c:78).                                            *)
WaitersBoosted ==
  select_next = "mlfq" =>
    \A t \in 1..created :
      got_scheduled[t] = 0 /\ t # running =>
        \/ priority_level[t] = TOP_PRIORITY
        \/ priority_level[t] >= idle[t] \div SCHED_PERIOD

PoliciesFair == FairShare /\ WaitersBoosted
=============================================================================
