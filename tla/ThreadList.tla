----------------------------- MODULE ThreadList -----------------------------
(***************************************************************************)
(* The doubly linked lists of threads (thread_list.c of labs 1 and 2) on   *)
(* the level of their pointers.  A thread has one pair of links, shared by *)
(* all lists, and no operation checks that a thread is in the list it is   *)
(* removed from: that is up to the callers, see Threads.                   *)
(*                                                                         *)
(* The state of all lists is a record h of functions: next and prev of the *)
(* threads, head, tail and size of the lists.                              *)
(***************************************************************************)
EXTENDS Integers, FiniteSets, Sequences

CONSTANTS Threads, Lists, NULL

Links == [next : [Threads -> Threads \cup {NULL}],
          prev : [Threads -> Threads \cup {NULL}],
          head : [Lists -> Threads \cup {NULL}],
          tail : [Lists -> Threads \cup {NULL}],
          size : [Lists -> 0 .. Cardinality(Threads)]]

EmptyLists == [next |-> [t \in Threads |-> NULL],
               prev |-> [t \in Threads |-> NULL],
               head |-> [l \in Lists |-> NULL],
               tail |-> [l \in Lists |-> NULL],
               size |-> [l \in Lists |-> 0]]

thread_list_is_empty(h, l) == h.size[l] = 0

(* What thread_list_add asks of t. *)
Unlinked(h, t) == h.prev[t] = NULL /\ h.next[t] = NULL

(* Mutant: the predecessor of the removed thread keeps its next pointer. *)
thread_list_remove_Dangling(h, l, t) ==
  LET p == h.prev[t]
      n == h.next[t]
  IN  [h EXCEPT
        !.head[l] = IF p = NULL THEN n ELSE @,
        !.tail[l] = IF n = NULL THEN p ELSE @,
        !.next = [@ EXCEPT ![t] = NULL],
        !.prev = [x \in Threads |-> CASE x = t -> NULL [] x = n -> p [] OTHER -> @[x]],
        !.size[l] = @ - 1]

(* The neighbours of t, or the ends of the list where it has none, are linked
   with each other. *)
thread_list_remove(h, l, t) ==
  LET p == h.prev[t]
      n == h.next[t]
  IN  [h EXCEPT
        !.head[l] = IF p = NULL THEN n ELSE @,
        !.tail[l] = IF n = NULL THEN p ELSE @,
        !.next = [x \in Threads |-> CASE x = t -> NULL [] x = p -> n [] OTHER -> @[x]],
        !.prev = [x \in Threads |-> CASE x = t -> NULL [] x = n -> p [] OTHER -> @[x]],
        !.size[l] = @ - 1]

thread_list_add(h, l, t) ==
  IF thread_list_is_empty(h, l)
  THEN [h EXCEPT !.head[l] = t, !.tail[l] = t, !.next[t] = NULL, !.size[l] = 1]
  ELSE [h EXCEPT !.next = [@ EXCEPT ![h.tail[l]] = t, ![t] = NULL],
                 !.prev[t] = h.tail[l],
                 !.tail[l] = t,
                 !.size[l] = @ + 1]

thread_list_prepend(h, l, t) ==
  IF thread_list_is_empty(h, l)
  THEN [h EXCEPT !.head[l] = t, !.tail[l] = t, !.prev[t] = NULL, !.size[l] = 1]
  ELSE [h EXCEPT !.prev = [@ EXCEPT ![h.head[l]] = t, ![t] = NULL],
                 !.next[t] = h.head[l],
                 !.head[l] = t,
                 !.size[l] = @ + 1]

-----------------------------------------------------------------------------
(* What the pointers mean. *)

(* The threads met on the way along the next pointers from the head of l, cut
   off after as many steps as there are threads. *)
Walk(h, l) ==
  LET N == Cardinality(Threads)
      at[n \in 1 .. N + 1] ==
        IF n = 1 THEN h.head[l]
        ELSE IF at[n - 1] = NULL THEN NULL ELSE h.next[at[n - 1]]
  IN  [n \in 1 .. Cardinality({i \in 1 .. N + 1 : at[i] # NULL}) |-> at[n]]

Members(h, l) == LET w == Walk(h, l) IN {w[i] : i \in DOMAIN w}

(* thread_list_find: the identifiers of the threads are the threads. *)
thread_list_find(h, l, t) == IF t \in Members(h, l) THEN t ELSE NULL

(* l is a well-formed list: the walk along next ends at the tail after size
   threads, all different, and prev is the way back. *)
WellLinked(h, l) ==
  LET w == Walk(h, l)
  IN  /\ Len(w) = h.size[l]
      /\ \A i, j \in DOMAIN w : w[i] = w[j] => i = j
      /\ h.tail[l] = IF w = <<>> THEN NULL ELSE w[Len(w)]
      /\ \A i \in DOMAIN w : h.prev[w[i]] = IF i = 1 THEN NULL ELSE w[i - 1]
=============================================================================
