---------------------------- MODULE ThreadsProofs ----------------------------
(***************************************************************************)
(* Proofs about the system threads of the two schedulers.  First lab 1     *)
(* (Threads): the pointers of its lists always are what the states of the  *)
(* threads say, no check ends the program, and every join is answered as   *)
(* promised or left for a known reason; for any number of threads and      *)
(* calls.  Then what those of lab 2 do when idle (SysSleep): sleep_count   *)
(* counts the sleepers, and the program does not end while there is work;  *)
(* for any number of system threads and of threads made RUNNABLE.          *)
(***************************************************************************)
EXTENDS Threads, SysSleep, NumberTheorems, FiniteSetTheorems, SequenceTheorems, TLAPS

(* The links of the threads, without the bound on the sizes. *)
LinkTypes == [next : [Tids -> Tids \cup {NULL}],
              prev : [Tids -> Tids \cup {NULL}],
              head : [ListNames -> Tids \cup {NULL}],
              tail : [ListNames -> Tids \cup {NULL}],
              size : [ListNames -> Nat]]

(* The threads of a list in their order, each once. *)
Threading(w) ==
  /\ w \in Seq(Tids)
  /\ \A i \in 1 .. Len(w), j \in 1 .. Len(w) : w[i] = w[j] => i = j

At(w, i) == IF i \in 1 .. Len(w) THEN w[i] ELSE NULL

(* The pointers of list l lead along w, forth and back. *)
Chain(h, l, w) ==
  /\ Threading(w) /\ h.size[l] = Len(w)
  /\ h.head[l] = At(w, 1) /\ h.tail[l] = At(w, Len(w))
  /\ \A i \in 1 .. Len(w) : h.next[w[i]] = At(w, i + 1) /\ h.prev[w[i]] = At(w, i - 1)

Elems(w) == {w[i] : i \in 1 .. Len(w)}

(* The lists are the chains W; no thread is in two, and those in none have no links. *)
Linked(h, W) ==
  /\ h \in LinkTypes
  /\ \A l \in ListNames : Chain(h, l, W[l])
  /\ \A l \in ListNames, o \in ListNames : l # o => Elems(W[l]) \cap Elems(W[o]) = {}
  /\ \A t \in Tids : (\A l \in ListNames : t \notin Elems(W[l])) => Unlinked(h, t)

-----------------------------------------------------------------------------
LEMMA CardUpTo ==
  ASSUME NEW n \in Nat
  PROVE  IsFiniteSet(1 .. n) /\ Cardinality(1 .. n) = n
<1>1. 1 \in Int /\ n \in Int
  OBVIOUS
<1>2. IsFiniteSet(1 .. n) /\ Cardinality(1 .. n) = IF 1 > n THEN 0 ELSE n - 1 + 1
  BY <1>1, FS_Interval
<1> QED BY <1>2

(* What the walk along a chain meets. *)
LEMMA ThreadingBound ==
  ASSUME NEW w, Threading(w)
  PROVE  Len(w) \in Nat /\ Len(w) <= Cardinality(Tids) /\ Cardinality(Tids) \in Nat
<1>1. IsFiniteSet(Tids) /\ Cardinality(Tids) \in Nat
  BY ThreadsAssumption, FS_CardinalityType
<1>2. /\ w \in [1 .. Len(w) -> Tids] /\ Len(w) \in Nat
      /\ \A i \in 1 .. Len(w), j \in 1 .. Len(w) : w[i] = w[j] => i = j
  BY DEF Threading
<1>3. IsFiniteSet(1 .. Len(w)) /\ Cardinality(1 .. Len(w)) = Len(w)
  BY <1>2, CardUpTo
<1>4. w \in Injection(1 .. Len(w), Tids)
  BY <1>2 DEF Injection, IsInjective
<1>5. Cardinality(1 .. Len(w)) <= Cardinality(Tids)
  BY <1>1, <1>3, <1>4, FS_Injection
<1> QED BY <1>1, <1>2, <1>3, <1>5

LEMMA WalkIs ==
  ASSUME NEW h \in LinkTypes, NEW l \in ListNames, NEW w, Chain(h, l, w)
  PROVE  Walk(h, l) = w /\ Members(h, l) = Elems(w)
<1> DEFINE N == Cardinality(Tids)
           F(f, n) == IF n = 1 THEN h.head[l]
                      ELSE IF f[n - 1] = NULL THEN NULL ELSE h.next[f[n - 1]]
           g == [n \in 1 .. N + 1 |-> At(w, n)]
           at == CHOOSE f : f = [n \in 1 .. N + 1 |-> F(f, n)]
<1>1. /\ Threading(w) /\ Len(w) \in Nat /\ N \in Nat /\ Len(w) <= N
      /\ w \in Seq(Tids) /\ \A i \in 1 .. Len(w) : w[i] \in Tids /\ w[i] # NULL
  BY ThreadingBound, ThreadsAssumption DEF Chain, Threading
<1> HIDE DEF N
<1>2. ASSUME NEW n \in 1 .. N + 1 PROVE g[n] = F(g, n)
  <2>1. CASE n = 1
    BY <2>1 DEF Chain
  <2>2. CASE n # 1
    <3> DEFINE k == n - 1
    <3>1. k \in 1 .. N + 1 /\ k \in Nat /\ n = k + 1 /\ k # 0
      BY <1>1, <2>2
    <3> HIDE DEF k
    <3>2. g[k] = At(w, k)
      BY <3>1
    <3>3. CASE k \in 1 .. Len(w)
      <4>1. g[k] = w[k] /\ g[k] # NULL /\ h.next[w[k]] = At(w, k + 1)
        BY <1>1, <3>2, <3>3 DEF At, Chain
      <4> QED BY <2>2, <3>1, <4>1 DEF k
    <3>4. CASE k \notin 1 .. Len(w)
      <4>1. g[k] = NULL /\ n \notin 1 .. Len(w)
        BY <1>1, <3>1, <3>2, <3>4 DEF At
      <4>2. g[n] = NULL
        BY <4>1 DEF At
      <4> QED BY <2>2, <4>1, <4>2 DEF k
    <3> QED BY <3>3, <3>4
  <2> QED BY <2>1, <2>2
<1>3. g = [n \in 1 .. N + 1 |-> F(g, n)]
  BY <1>2
<1>4. at = [n \in 1 .. N + 1 |-> F(at, n)]
  <2> HIDE DEF g, F
  <2> QED BY <1>3
<1>5. ASSUME NEW n \in 1 .. N + 1 PROVE at[n] = At(w, n)
  <2> DEFINE T == {j \in 1 .. N + 1 : at[j] # g[j]}
  <2> SUFFICES ASSUME T # {} PROVE FALSE
    OBVIOUS
  <2>1. PICK k \in T : \A j \in T : k <= j
    <3>1. T \subseteq Nat
      OBVIOUS
    <3> HIDE DEF T
    <3> QED BY <3>1, LeastNumber
  <2> HIDE DEF g, at
  <2>2. k \in 1 .. N + 1 /\ at[k] # g[k] /\ at[k] = F(at, k) /\ g[k] = F(g, k)
    BY <1>2, <1>4, <2>1
  <2>3. k # 1
    BY <2>2
  <2>4. k - 1 \in 1 .. N + 1 /\ ~(k <= k - 1)
    BY <1>1, <2>2, <2>3
  <2>5. at[k - 1] = g[k - 1]
    BY <2>1, <2>4
  <2> QED BY <2>2, <2>3, <2>5
<1>6. Walk(h, l) = [n \in 1 .. Cardinality({i \in 1 .. N + 1 : at[i] # NULL}) |-> at[n]]
  BY DEF Walk, N
<1> HIDE DEF at, g
<1>7. {i \in 1 .. N + 1 : at[i] # NULL} = 1 .. Len(w)
  BY <1>1, <1>5 DEF At
<1>8. Cardinality(1 .. Len(w)) = Len(w)
  BY <1>1, CardUpTo
<1>9. Walk(h, l) = [n \in 1 .. Len(w) |-> at[n]]
  BY <1>6, <1>7, <1>8
<1>10. \A n \in 1 .. Len(w) : at[n] = w[n]
  BY <1>1, <1>5 DEF At
<1>11. Walk(h, l) = w
  BY <1>1, <1>9, <1>10
<1>12. Members(h, l) = Elems(w)
  BY <1>1, <1>11 DEF Members, Elems
<1> QED BY <1>11, <1>12

-----------------------------------------------------------------------------
(* What the operations of thread_list.c do to the links. *)
LEMMA RemoveLinks ==
  ASSUME NEW h \in LinkTypes, NEW l \in ListNames, NEW t \in Tids,
         NEW p, p = h.prev[t], p # t, NEW n, n = h.next[t], n # t, h.size[l] # 0,
         NEW g, g = thread_list_remove(h, l, t)
  PROVE  /\ g \in LinkTypes
         /\ g.head[l] = IF p = NULL THEN n ELSE h.head[l]
         /\ g.tail[l] = IF n = NULL THEN p ELSE h.tail[l]
         /\ g.size[l] = h.size[l] - 1
         /\ \A o \in ListNames \ {l} :
              g.head[o] = h.head[o] /\ g.tail[o] = h.tail[o] /\ g.size[o] = h.size[o]
         /\ g.next[t] = NULL /\ g.prev[t] = NULL
         /\ \A x \in Tids \ {t} : /\ g.next[x] = IF x = p THEN n ELSE h.next[x]
                                  /\ g.prev[x] = IF x = n THEN p ELSE h.prev[x]
<1>1. /\ p \in Tids \cup {NULL} /\ n \in Tids \cup {NULL}
      /\ h.size[l] \in Nat /\ h.size[l] - 1 \in Nat
  BY DEF LinkTypes
<1> DEFINE next == [x \in Tids |-> CASE x = t -> NULL [] x = p -> n [] OTHER -> h.next[x]]
           prev == [x \in Tids |-> CASE x = t -> NULL [] x = n -> p [] OTHER -> h.prev[x]]
           head == [h.head EXCEPT ![l] = IF p = NULL THEN n ELSE h.head[l]]
           tail == [h.tail EXCEPT ![l] = IF n = NULL THEN p ELSE h.tail[l]]
           size == [h.size EXCEPT ![l] = h.size[l] - 1]
<1>2. g = [next |-> next, prev |-> prev, head |-> head, tail |-> tail, size |-> size]
  <2>1. g = [h EXCEPT !.head[l] = IF p = NULL THEN n ELSE @,
                      !.tail[l] = IF n = NULL THEN p ELSE @,
                      !.next = [x \in Tids |-> CASE x = t -> NULL [] x = p -> n [] OTHER -> @[x]],
                      !.prev = [x \in Tids |-> CASE x = t -> NULL [] x = n -> p [] OTHER -> @[x]],
                      !.size[l] = @ - 1]
    BY DEF thread_list_remove
  <2>2. g = [next |-> g.next, prev |-> g.prev, head |-> g.head, tail |-> g.tail, size |-> g.size]
    BY <2>1 DEF LinkTypes
  <2>3. g.head = head /\ g.tail = tail /\ g.size = size
    BY <2>1 DEF LinkTypes
  <2>4. g.next = next
    BY <2>1 DEF LinkTypes
  <2>5. g.prev = prev
    BY <2>1 DEF LinkTypes
  <2> QED BY <2>2, <2>3, <2>4, <2>5
<1>3. /\ next \in [Tids -> Tids \cup {NULL}] /\ prev \in [Tids -> Tids \cup {NULL}]
      /\ next[t] = NULL /\ prev[t] = NULL
      /\ \A x \in Tids \ {t} : /\ next[x] = IF x = p THEN n ELSE h.next[x]
                               /\ prev[x] = IF x = n THEN p ELSE h.prev[x]
  <2>1. ASSUME NEW x \in Tids
        PROVE  /\ next[x] = IF x = t THEN NULL ELSE IF x = p THEN n ELSE h.next[x]
               /\ prev[x] = IF x = t THEN NULL ELSE IF x = n THEN p ELSE h.prev[x]
    <3>1. CASE x = t
      BY <3>1
    <3>2. CASE x # t
      <4>1. next[x] = IF x = p THEN n ELSE h.next[x]
        BY <3>2
      <4>2. prev[x] = IF x = n THEN p ELSE h.prev[x]
        BY <3>2
      <4> QED BY <3>2, <4>1, <4>2
    <3> QED BY <3>1, <3>2
  <2>2. next = [x \in Tids |-> next[x]] /\ prev = [x \in Tids |-> prev[x]]
    OBVIOUS
  <2> HIDE DEF next, prev
  <2>3. \A x \in Tids : h.next[x] \in Tids \cup {NULL} /\ h.prev[x] \in Tids \cup {NULL}
    BY DEF LinkTypes
  <2>4. \A x \in Tids : next[x] \in Tids \cup {NULL} /\ prev[x] \in Tids \cup {NULL}
    BY <1>1, <2>1, <2>3
  <2> QED BY <2>1, <2>2, <2>4
<1>4. /\ head \in [ListNames -> Tids \cup {NULL}] /\ tail \in [ListNames -> Tids \cup {NULL}]
      /\ size \in [ListNames -> Nat]
      /\ head[l] = IF p = NULL THEN n ELSE h.head[l]
      /\ tail[l] = IF n = NULL THEN p ELSE h.tail[l]
      /\ size[l] = h.size[l] - 1
      /\ \A o \in ListNames \ {l} :
           head[o] = h.head[o] /\ tail[o] = h.tail[o] /\ size[o] = h.size[o]
  BY <1>1 DEF LinkTypes
<1> HIDE DEF next, prev, head, tail, size
<1>5. g \in LinkTypes
  BY <1>2, <1>3, <1>4 DEF LinkTypes
<1> QED BY <1>2, <1>3, <1>4, <1>5

LEMMA AddLinks ==
  ASSUME NEW h \in LinkTypes, NEW l \in ListNames, NEW t \in Tids, Unlinked(h, t),
         NEW e, e = h.tail[l], e # t,
         h.size[l] # 0 => e \in Tids, h.size[l] = 0 => e = NULL,
         NEW g, g = thread_list_add(h, l, t)
  PROVE  /\ g \in LinkTypes
         /\ g.head[l] = IF h.size[l] = 0 THEN t ELSE h.head[l]
         /\ g.tail[l] = t /\ g.size[l] = h.size[l] + 1
         /\ \A o \in ListNames \ {l} :
              g.head[o] = h.head[o] /\ g.tail[o] = h.tail[o] /\ g.size[o] = h.size[o]
         /\ g.next[t] = NULL /\ g.prev[t] = e
         /\ \A x \in Tids \ {t} : /\ g.next[x] = IF x = e THEN t ELSE h.next[x]
                                  /\ g.prev[x] = h.prev[x]
<1>1. h.size[l] \in Nat
  BY DEF LinkTypes
<1>2. CASE h.size[l] = 0
  <2>1. g = [h EXCEPT !.head[l] = t, !.tail[l] = t, !.next[t] = NULL, !.size[l] = 1]
    BY <1>2 DEF thread_list_add, thread_list_is_empty
  <2> DEFINE next == [h.next EXCEPT ![t] = NULL]
             head == [h.head EXCEPT ![l] = t]
             tail == [h.tail EXCEPT ![l] = t]
             size == [h.size EXCEPT ![l] = 1]
  <2>2. g = [next |-> next, prev |-> h.prev, head |-> head, tail |-> tail, size |-> size]
    BY <2>1 DEF LinkTypes
  <2>3. /\ next \in [Tids -> Tids \cup {NULL}] /\ next[t] = NULL
        /\ \A x \in Tids \ {t} : next[x] = h.next[x]
        /\ head \in [ListNames -> Tids \cup {NULL}] /\ tail \in [ListNames -> Tids \cup {NULL}]
        /\ size \in [ListNames -> Nat]
        /\ head[l] = t /\ tail[l] = t /\ size[l] = 1
        /\ \A o \in ListNames \ {l} :
             head[o] = h.head[o] /\ tail[o] = h.tail[o] /\ size[o] = h.size[o]
    BY DEF LinkTypes
  <2>4. h.prev \in [Tids -> Tids \cup {NULL}] /\ h.prev[t] = NULL
    BY DEF LinkTypes, Unlinked
  <2> HIDE DEF next, head, tail, size
  <2>5. g \in LinkTypes
    BY <2>2, <2>3, <2>4 DEF LinkTypes
  <2>6. \A x \in Tids : x # e
    BY <1>2, ThreadsAssumption
  <2> QED BY <1>2, <2>2, <2>3, <2>4, <2>5, <2>6
<1>3. CASE h.size[l] # 0
  <2>1. g = [h EXCEPT !.next = [@ EXCEPT ![e] = t, ![t] = NULL],
                      !.prev[t] = e, !.tail[l] = t, !.size[l] = @ + 1]
    BY <1>3 DEF thread_list_add, thread_list_is_empty
  <2> DEFINE next == [h.next EXCEPT ![e] = t, ![t] = NULL]
             prev == [h.prev EXCEPT ![t] = e]
             tail == [h.tail EXCEPT ![l] = t]
             size == [h.size EXCEPT ![l] = h.size[l] + 1]
  <2>2. g = [next |-> next, prev |-> prev, head |-> h.head, tail |-> tail, size |-> size]
    BY <2>1 DEF LinkTypes
  <2>3. /\ next \in [Tids -> Tids \cup {NULL}] /\ next[t] = NULL
        /\ \A x \in Tids \ {t} : next[x] = IF x = e THEN t ELSE h.next[x]
        /\ prev \in [Tids -> Tids \cup {NULL}] /\ prev[t] = e
        /\ \A x \in Tids \ {t} : prev[x] = h.prev[x]
    BY <1>3 DEF LinkTypes
  <2>4. /\ tail \in [ListNames -> Tids \cup {NULL}]
        /\ size \in [ListNames -> Nat]
        /\ tail[l] = t /\ size[l] = h.size[l] + 1
        /\ \A o \in ListNames \ {l} : tail[o] = h.tail[o] /\ size[o] = h.size[o]
        /\ h.head \in [ListNames -> Tids \cup {NULL}]
    BY <1>1 DEF LinkTypes
  <2> HIDE DEF next, prev, tail, size
  <2>5. g \in LinkTypes
    BY <2>2, <2>3, <2>4 DEF LinkTypes
  <2> QED BY <1>3, <2>2, <2>3, <2>4, <2>5
<1> QED BY <1>2, <1>3

LEMMA PrependLinks ==
  ASSUME NEW h \in LinkTypes, NEW l \in ListNames, NEW t \in Tids, Unlinked(h, t),
         NEW e, e = h.head[l], e # t,
         h.size[l] # 0 => e \in Tids, h.size[l] = 0 => e = NULL /\ h.tail[l] = NULL,
         NEW g, g = thread_list_prepend(h, l, t)
  PROVE  /\ g \in LinkTypes
         /\ g.tail[l] = IF h.size[l] = 0 THEN t ELSE h.tail[l]
         /\ g.head[l] = t /\ g.size[l] = h.size[l] + 1
         /\ \A o \in ListNames \ {l} :
              g.head[o] = h.head[o] /\ g.tail[o] = h.tail[o] /\ g.size[o] = h.size[o]
         /\ g.next[t] = e /\ g.prev[t] = NULL
         /\ \A x \in Tids \ {t} : /\ g.prev[x] = IF x = e THEN t ELSE h.prev[x]
                                  /\ g.next[x] = h.next[x]
<1>1. h.size[l] \in Nat
  BY DEF LinkTypes
<1>2. CASE h.size[l] = 0
  <2>1. g = [h EXCEPT !.head[l] = t, !.tail[l] = t, !.prev[t] = NULL, !.size[l] = 1]
    BY <1>2 DEF thread_list_prepend, thread_list_is_empty
  <2> DEFINE prev == [h.prev EXCEPT ![t] = NULL]
             head == [h.head EXCEPT ![l] = t]
             tail == [h.tail EXCEPT ![l] = t]
             size == [h.size EXCEPT ![l] = 1]
  <2>2. g = [next |-> h.next, prev |-> prev, head |-> head, tail |-> tail, size |-> size]
    BY <2>1 DEF LinkTypes
  <2>3. /\ prev \in [Tids -> Tids \cup {NULL}] /\ prev[t] = NULL
        /\ \A x \in Tids \ {t} : prev[x] = h.prev[x]
        /\ head \in [ListNames -> Tids \cup {NULL}] /\ tail \in [ListNames -> Tids \cup {NULL}]
        /\ size \in [ListNames -> Nat]
        /\ head[l] = t /\ tail[l] = t /\ size[l] = 1
        /\ \A o \in ListNames \ {l} :
             head[o] = h.head[o] /\ tail[o] = h.tail[o] /\ size[o] = h.size[o]
    BY DEF LinkTypes
  <2>4. h.next \in [Tids -> Tids \cup {NULL}] /\ h.next[t] = NULL
    BY DEF LinkTypes, Unlinked
  <2> HIDE DEF prev, head, tail, size
  <2>5. g \in LinkTypes
    BY <2>2, <2>3, <2>4 DEF LinkTypes
  <2>6. \A x \in Tids : x # e
    BY <1>2, ThreadsAssumption
  <2> QED BY <1>2, <2>2, <2>3, <2>4, <2>5, <2>6
<1>3. CASE h.size[l] # 0
  <2>1. g = [h EXCEPT !.prev = [@ EXCEPT ![e] = t, ![t] = NULL],
                      !.next[t] = e, !.head[l] = t, !.size[l] = @ + 1]
    BY <1>3 DEF thread_list_prepend, thread_list_is_empty
  <2> DEFINE prev == [h.prev EXCEPT ![e] = t, ![t] = NULL]
             next == [h.next EXCEPT ![t] = e]
             head == [h.head EXCEPT ![l] = t]
             size == [h.size EXCEPT ![l] = h.size[l] + 1]
  <2>2. g = [next |-> next, prev |-> prev, head |-> head, tail |-> h.tail, size |-> size]
    BY <2>1 DEF LinkTypes
  <2>3. /\ prev \in [Tids -> Tids \cup {NULL}] /\ prev[t] = NULL
        /\ \A x \in Tids \ {t} : prev[x] = IF x = e THEN t ELSE h.prev[x]
        /\ next \in [Tids -> Tids \cup {NULL}] /\ next[t] = e
        /\ \A x \in Tids \ {t} : next[x] = h.next[x]
    BY <1>3 DEF LinkTypes
  <2>4. /\ head \in [ListNames -> Tids \cup {NULL}]
        /\ size \in [ListNames -> Nat]
        /\ head[l] = t /\ size[l] = h.size[l] + 1
        /\ \A o \in ListNames \ {l} : head[o] = h.head[o] /\ size[o] = h.size[o]
        /\ h.tail \in [ListNames -> Tids \cup {NULL}]
    BY <1>1 DEF LinkTypes
  <2> HIDE DEF next, prev, head, size
  <2>5. g \in LinkTypes
    BY <2>2, <2>3, <2>4 DEF LinkTypes
  <2> QED BY <1>3, <2>2, <2>3, <2>4, <2>5
<1> QED BY <1>2, <1>3

-----------------------------------------------------------------------------
(* A thread less, one more at the end, one more in front. *)
Without(w, i) == [j \in 1 .. Len(w) - 1 |-> IF j < i THEN w[j] ELSE w[j + 1]]

InFront(w, t) == [j \in 1 .. Len(w) + 1 |-> IF j = 1 THEN t ELSE w[j - 1]]

LEMMA AtFacts ==
  ASSUME NEW w, Threading(w)
  PROVE  /\ Len(w) \in Nat
         /\ \A i \in 1 .. Len(w) : w[i] \in Tids /\ At(w, i) = w[i] /\ w[i] \in Elems(w)
         /\ \A i \in Int : /\ i \in 1 .. Len(w) => At(w, i) \in Elems(w) /\ At(w, i) \in Tids
                           /\ i \notin 1 .. Len(w) => At(w, i) = NULL
         /\ \A i \in 1 .. Len(w), j \in Int : w[i] = At(w, j) => i = j
         /\ Elems(w) \subseteq Tids /\ NULL \notin Elems(w) /\ NULL \notin Tids
<1>1. w \in Seq(Tids) /\ Len(w) \in Nat /\ \A i \in 1 .. Len(w) : w[i] \in Tids
  BY DEF Threading
<1>2. NULL \notin Tids
  BY ThreadsAssumption
<1>3. \A i \in 1 .. Len(w) : At(w, i) = w[i] /\ w[i] \in Elems(w)
  BY DEF At, Elems
<1>4. Elems(w) \subseteq Tids /\ NULL \notin Elems(w)
  BY <1>1, <1>2 DEF Elems
<1>5. \A i \in Int : i \notin 1 .. Len(w) => At(w, i) = NULL
  BY DEF At
<1>6. ASSUME NEW i \in 1 .. Len(w), NEW j \in Int, w[i] = At(w, j) PROVE i = j
  <2>1. j \in 1 .. Len(w)
    BY <1>1, <1>2, <1>5, <1>6
  <2> QED BY <1>3, <1>6, <2>1 DEF Threading
<1> QED BY <1>1, <1>2, <1>3, <1>4, <1>5, <1>6

Shortened(w, i, v) == Threading(w) /\ i \in 1 .. Len(w) /\ v = Without(w, i)

(* v is w without its i-th thread. *)
Shorter(w, i, v) ==
  /\ Threading(v) /\ Len(v) = Len(w) - 1 /\ Elems(v) = Elems(w) \ {w[i]}
  /\ \A j \in Nat : At(v, j) = IF j < i THEN At(w, j) ELSE At(w, j + 1)
  /\ \A j \in 1 .. Len(v) : v[j] = IF j < i THEN w[j] ELSE w[j + 1]

LEMMA WithoutIs ==
  ASSUME NEW w, NEW i, NEW v, Shortened(w, i, v)
  PROVE  Shorter(w, i, v)
<1> DEFINE n == Len(w)
<1>1. /\ w \in Seq(Tids) /\ n \in Nat /\ \A j \in 1 .. n : w[j] \in Tids
      /\ \A j \in 1 .. n, k \in 1 .. n : w[j] = w[k] => j = k
      /\ n - 1 \in Nat /\ i \in 1 .. n
  BY DEF Threading, Shortened
<1> HIDE DEF n
<1>2. v = [j \in 1 .. n - 1 |-> IF j < i THEN w[j] ELSE w[j + 1]]
  BY DEF Shortened, Without, n
<1>3. \A j \in 1 .. n - 1 : j \in 1 .. n /\ j + 1 \in 1 .. n
  BY <1>1
<1>4. \A j \in 1 .. n - 1 : v[j] = IF j < i THEN w[j] ELSE w[j + 1]
  BY <1>2
<1>5. \A j \in 1 .. n - 1 : v[j] \in Tids
  BY <1>1, <1>3, <1>4
<1>6. v \in Seq(Tids) /\ Len(v) = n - 1
  BY <1>1, <1>2, <1>5
<1>7. ASSUME NEW j \in 1 .. n - 1, NEW k \in 1 .. n - 1, v[j] = v[k] PROVE j = k
  <2> DEFINE J == IF j < i THEN j ELSE j + 1
             K == IF k < i THEN k ELSE k + 1
  <2>1. J \in 1 .. n /\ K \in 1 .. n /\ v[j] = w[J] /\ v[k] = w[K]
    BY <1>1, <1>3, <1>4
  <2>2. J = K
    <3> HIDE DEF J, K
    <3> QED BY <1>1, <1>7, <2>1
  <2> QED BY <1>1, <2>2
<1>8. Threading(v)
  BY <1>6, <1>7 DEF Threading
<1>9. ASSUME NEW j \in Nat PROVE At(v, j) = IF j < i THEN At(w, j) ELSE At(w, j + 1)
  <2>1. CASE j \in 1 .. n - 1
    BY <1>3, <1>4, <1>6, <2>1 DEF At, n
  <2>2. CASE j \notin 1 .. n - 1
    <3>1. At(v, j) = NULL
      BY <1>6, <2>2 DEF At
    <3>2. j < i => j \notin 1 .. n
      BY <1>1, <2>2
    <3>3. ~(j < i) => j + 1 \notin 1 .. n
      BY <1>1, <2>2
    <3> QED BY <3>1, <3>2, <3>3 DEF At, n
  <2> QED BY <2>1, <2>2
<1>10. Elems(v) = Elems(w) \ {w[i]}
  <2>1. ASSUME NEW x \in Elems(v) PROVE x \in Elems(w) /\ x # w[i]
    <3>1. PICK j \in 1 .. n - 1 : x = v[j]
      BY <1>6 DEF Elems
    <3> DEFINE J == IF j < i THEN j ELSE j + 1
    <3>2. J \in 1 .. n /\ x = w[J] /\ J # i
      BY <1>1, <1>3, <1>4, <3>1
    <3> HIDE DEF J
    <3> QED BY <1>1, <3>2 DEF Elems, n
  <2>2. ASSUME NEW x \in Elems(w), x # w[i] PROVE x \in Elems(v)
    <3>1. PICK j \in 1 .. n : x = w[j]
      BY DEF Elems, n
    <3>2. CASE j < i
      <4>1. j \in 1 .. n - 1 /\ v[j] = x
        BY <1>1, <1>4, <3>1, <3>2
      <4> QED BY <1>6, <4>1 DEF Elems
    <3>3. CASE ~(j < i)
      <4> DEFINE k == j - 1
      <4>1. k \in 1 .. n - 1 /\ ~(k < i) /\ k + 1 = j
        BY <1>1, <2>2, <3>1, <3>3
      <4> HIDE DEF k
      <4>2. v[k] = x
        BY <1>4, <3>1, <4>1
      <4> QED BY <1>6, <4>1, <4>2 DEF Elems
    <3> QED BY <3>2, <3>3
  <2> QED BY <2>1, <2>2
<1> QED BY <1>4, <1>6, <1>8, <1>9, <1>10 DEF n, Shorter

Lengthened(w, t, v) == Threading(w) /\ t \in Tids \ Elems(w) /\ v = Append(w, t)

LEMMA AppendedIs ==
  ASSUME NEW w, NEW t, NEW v, Lengthened(w, t, v)
  PROVE  /\ Threading(v) /\ Len(v) = Len(w) + 1 /\ Elems(v) = Elems(w) \cup {t}
         /\ \A j \in Nat : At(v, j) = IF j = Len(w) + 1 THEN t ELSE At(w, j)
         /\ \A j \in 1 .. Len(v) : v[j] = IF j = Len(w) + 1 THEN t ELSE w[j]
<1> DEFINE n == Len(w)
<1>1. /\ w \in Seq(Tids) /\ n \in Nat
      /\ \A j \in 1 .. n, k \in 1 .. n : w[j] = w[k] => j = k
      /\ \A j \in 1 .. n : w[j] # t
      /\ t \in Tids /\ v = Append(w, t)
  BY DEF Threading, Elems, Lengthened
<1>2. /\ v \in Seq(Tids) /\ Len(v) = n + 1 /\ v[n + 1] = t
      /\ \A j \in 1 .. n : v[j] = w[j]
  BY <1>1, AppendProperties
<1> HIDE DEF n
<1>3. \A j \in 1 .. n + 1 : j = n + 1 \/ j \in 1 .. n
  BY <1>1
<1>4. \A j \in 1 .. n : j \in 1 .. n + 1 /\ j # n + 1
  BY <1>1
<1>5. n + 1 \in 1 .. n + 1 /\ n + 1 \notin 1 .. n
  BY <1>1
<1>6. Threading(v)
  BY <1>1, <1>2, <1>3 DEF Threading
<1>7. ASSUME NEW j \in Nat PROVE At(v, j) = IF j = n + 1 THEN t ELSE At(w, j)
  BY <1>2, <1>3, <1>4, <1>5 DEF At, n
<1>8. Elems(v) = Elems(w) \cup {t}
  <2>1. \A x \in Elems(v) : x \in Elems(w) \/ x = t
    BY <1>2, <1>3 DEF Elems, n
  <2>2. \A x \in Elems(w) : x \in Elems(v)
    BY <1>2, <1>4 DEF Elems, n
  <2>3. t \in Elems(v)
    BY <1>2, <1>5 DEF Elems
  <2> QED BY <2>1, <2>2, <2>3
<1> QED BY <1>2, <1>3, <1>4, <1>5, <1>6, <1>7, <1>8 DEF n

LEMMA InFrontIs ==
  ASSUME NEW w, Threading(w), NEW t \in Tids, t \notin Elems(w), NEW v, v = InFront(w, t)
  PROVE  /\ Threading(v) /\ Len(v) = Len(w) + 1 /\ Elems(v) = Elems(w) \cup {t}
         /\ \A j \in Nat : At(v, j) = IF j = 1 THEN t ELSE At(w, j - 1)
         /\ \A j \in 1 .. Len(v) : v[j] = IF j = 1 THEN t ELSE w[j - 1]
<1> DEFINE n == Len(w)
<1>1. /\ w \in Seq(Tids) /\ n \in Nat /\ \A j \in 1 .. n : w[j] \in Tids
      /\ \A j \in 1 .. n, k \in 1 .. n : w[j] = w[k] => j = k
      /\ \A j \in 1 .. n : w[j] # t
  BY DEF Threading, Elems
<1> HIDE DEF n
<1>2. v = [j \in 1 .. n + 1 |-> IF j = 1 THEN t ELSE w[j - 1]]
  BY DEF InFront, n
<1>3. \A j \in 1 .. n + 1 : j # 1 => j - 1 \in 1 .. n
  BY <1>1
<1>4. \A j \in 1 .. n + 1 : v[j] = IF j = 1 THEN t ELSE w[j - 1]
  BY <1>2
<1>5. \A j \in 1 .. n + 1 : v[j] \in Tids
  BY <1>1, <1>3, <1>4
<1>6. v \in Seq(Tids) /\ Len(v) = n + 1
  BY <1>1, <1>2, <1>5
<1>7. ASSUME NEW j \in 1 .. n + 1, NEW k \in 1 .. n + 1, v[j] = v[k] PROVE j = k
  <2>1. j = 1 \/ k = 1 => j = k
    BY <1>1, <1>3, <1>4, <1>7
  <2>2. CASE j # 1 /\ k # 1
    <3>1. j - 1 \in 1 .. n /\ k - 1 \in 1 .. n /\ w[j - 1] = w[k - 1]
      BY <1>3, <1>4, <1>7, <2>2
    <3>2. j - 1 = k - 1
      BY <1>1, <3>1
    <3> QED BY <3>2
  <2> QED BY <2>1, <2>2
<1>8. Threading(v)
  BY <1>6, <1>7 DEF Threading
<1>9. ASSUME NEW j \in Nat PROVE At(v, j) = IF j = 1 THEN t ELSE At(w, j - 1)
  <2>1. CASE j \in 1 .. n + 1
    BY <1>3, <1>4, <1>6, <2>1 DEF At, n
  <2>2. CASE j \notin 1 .. n + 1
    <3>1. At(v, j) = NULL
      BY <1>6, <2>2 DEF At
    <3>2. j # 1 /\ j - 1 \notin 1 .. n
      BY <1>1, <2>2
    <3> QED BY <3>1, <3>2 DEF At, n
  <2> QED BY <2>1, <2>2
<1>10. Elems(v) = Elems(w) \cup {t}
  <2>1. \A x \in Elems(v) : x \in Elems(w) \/ x = t
    BY <1>3, <1>4, <1>6 DEF Elems, n
  <2>2. ASSUME NEW x \in Elems(w) PROVE x \in Elems(v)
    <3>1. PICK j \in 1 .. n : x = w[j]
      BY DEF Elems, n
    <3> DEFINE k == j + 1
    <3>2. k \in 1 .. n + 1 /\ k # 1 /\ k - 1 = j
      BY <1>1
    <3> HIDE DEF k
    <3>3. v[k] = x
      BY <1>4, <3>1, <3>2
    <3> QED BY <1>6, <3>2, <3>3 DEF Elems
  <2>3. t \in Elems(v)
    <3>1. 1 \in 1 .. n + 1
      BY <1>1
    <3> QED BY <1>4, <1>6, <3>1 DEF Elems
  <2> QED BY <2>1, <2>2, <2>3
<1> QED BY <1>4, <1>6, <1>8, <1>9, <1>10 DEF n

(* One list is changed, and the links of the threads in it, before or after. *)
LEMMA Relinked ==
  ASSUME NEW h, NEW W, Linked(h, W), NEW l \in ListNames, NEW g \in LinkTypes,
         NEW v, Chain(g, l, v), NEW t \in Tids,
         \A o \in ListNames \ {l} : t \notin Elems(W[o]),
         Elems(v) \subseteq Elems(W[l]) \cup {t}, Elems(W[l]) \subseteq Elems(v) \cup {t},
         \A o \in ListNames \ {l} :
           g.head[o] = h.head[o] /\ g.tail[o] = h.tail[o] /\ g.size[o] = h.size[o],
         \A x \in Tids \ (Elems(W[l]) \cup {t}) : g.next[x] = h.next[x] /\ g.prev[x] = h.prev[x],
         t \notin Elems(v) => Unlinked(g, t),
         NEW V, V = [o \in ListNames |-> IF o = l THEN v ELSE W[o]]
  PROVE  Linked(g, V)
<1>1. /\ V[l] = v /\ \A o \in ListNames \ {l} : V[o] = W[o]
      /\ \A o \in ListNames : Chain(h, o, W[o])
      /\ \A o \in ListNames, q \in ListNames : o # q => Elems(W[o]) \cap Elems(W[q]) = {}
  BY DEF Linked
<1>2. ASSUME NEW o \in ListNames \ {l} PROVE Chain(g, o, V[o])
  <2> DEFINE w == W[o]
  <2>1. /\ Threading(w) /\ h.size[o] = Len(w)
        /\ h.head[o] = At(w, 1) /\ h.tail[o] = At(w, Len(w))
        /\ \A i \in 1 .. Len(w) : h.next[w[i]] = At(w, i + 1) /\ h.prev[w[i]] = At(w, i - 1)
    BY <1>1 DEF Chain
  <2>2. \A i \in 1 .. Len(w) : w[i] \in Tids \ (Elems(W[l]) \cup {t})
    <3>1. /\ t \notin Elems(w) /\ Elems(w) \cap Elems(W[l]) = {} /\ Threading(w)
      BY <1>1, <2>1
    <3> HIDE DEF w
    <3> QED BY <3>1, AtFacts
  <2>3. V[o] = w
    BY <1>1
  <2>4. g.head[o] = h.head[o] /\ g.tail[o] = h.tail[o] /\ g.size[o] = h.size[o]
    OBVIOUS
  <2>5. \A i \in 1 .. Len(w) : g.next[w[i]] = h.next[w[i]] /\ g.prev[w[i]] = h.prev[w[i]]
    <3> HIDE DEF w
    <3> QED BY <2>2
  <2> HIDE DEF w
  <2> QED BY <2>1, <2>3, <2>4, <2>5 DEF Chain
<1>3. ASSUME NEW o \in ListNames, NEW q \in ListNames, o # q PROVE Elems(V[o]) \cap Elems(V[q]) = {}
  <2>1. CASE o = l
    BY <1>1, <1>3, <2>1
  <2>2. CASE q = l
    BY <1>1, <1>3, <2>2
  <2>3. CASE o # l /\ q # l
    BY <1>1, <1>3, <2>3
  <2> QED BY <2>1, <2>2, <2>3
<1>4. ASSUME NEW x \in Tids, \A o \in ListNames : x \notin Elems(V[o]) PROVE Unlinked(g, x)
  <2>1. x \notin Elems(v) /\ \A o \in ListNames \ {l} : x \notin Elems(W[o])
    BY <1>1, <1>4
  <2>2. CASE x # t
    <3>1. x \notin Elems(W[l])
      BY <2>1, <2>2
    <3>2. Unlinked(h, x)
      BY <2>1, <3>1 DEF Linked
    <3> QED BY <2>2, <3>1, <3>2 DEF Unlinked
  <2> QED BY <2>1, <2>2
<1>5. \A o \in ListNames : Chain(g, o, V[o])
  BY <1>1, <1>2
<1> QED BY <1>3, <1>4, <1>5 DEF Linked

(* V is W without the thread t, the i-th of the chain l. *)
WithLess(W, l, i, t, V) ==
  /\ i \in 1 .. Len(W[l]) /\ t = W[l][i]
  /\ V = [o \in ListNames |-> IF o = l THEN Without(W[l], i) ELSE W[o]]

LEMMA RemoveIs ==
  ASSUME NEW h, NEW W, Linked(h, W), NEW l \in ListNames, NEW i, NEW t,
         NEW V, WithLess(W, l, i, t, V), NEW g, g = thread_list_remove(h, l, t)
  PROVE  Linked(g, V) /\ Elems(V[l]) = Elems(W[l]) \ {t}
<1>a. /\ i \in 1 .. Len(W[l]) /\ t = W[l][i]
      /\ V = [o \in ListNames |-> IF o = l THEN Without(W[l], i) ELSE W[o]]
  BY DEF WithLess
<1> DEFINE w == W[l]
           n == Len(w)
           v == Without(w, i)
           p == At(w, i - 1)
           s == At(w, i + 1)
<1>1. /\ h \in LinkTypes /\ Threading(w) /\ h.size[l] = n
      /\ h.head[l] = At(w, 1) /\ h.tail[l] = At(w, n)
      /\ \A j \in 1 .. n : h.next[w[j]] = At(w, j + 1) /\ h.prev[w[j]] = At(w, j - 1)
      /\ \A o \in ListNames \ {l} : Elems(w) \cap Elems(W[o]) = {}
  <2>1. w = W[l]
    OBVIOUS
  <2> HIDE DEF w
  <2>2. /\ h \in LinkTypes /\ Chain(h, l, w)
        /\ \A o \in ListNames \ {l} : Elems(w) \cap Elems(W[o]) = {}
    BY <2>1 DEF Linked
  <2> QED BY <2>2 DEF Chain
<1>2. i \in 1 .. n /\ t = w[i]
  BY <1>a
<1> HIDE DEF w
<1>3. /\ n \in Nat /\ i \in Nat /\ i - 1 \in Nat /\ i + 1 \in Nat /\ t \in Tids /\ t \in Elems(w)
      /\ h.prev[t] = p /\ h.next[t] = s /\ NULL \notin Tids
  BY <1>1, <1>2, AtFacts
<1>4. /\ \A j \in 1 .. n : w[j] = p => j = i - 1
      /\ \A j \in 1 .. n : w[j] = s => j = i + 1
      /\ p = NULL <=> i = 1
      /\ s = NULL <=> i = n
  <2>1. /\ \A j \in 1 .. n : w[j] = At(w, i - 1) => j = i - 1
        /\ \A j \in 1 .. n : w[j] = At(w, i + 1) => j = i + 1
    BY <1>1, <1>3, AtFacts
  <2>2. i - 1 \in 1 .. n <=> i # 1
    BY <1>2, <1>3
  <2>3. i + 1 \in 1 .. n <=> i # n
    BY <1>2, <1>3
  <2>4. \A j \in Int : (j \in 1 .. n => At(w, j) \in Tids) /\ (j \notin 1 .. n => At(w, j) = NULL)
    BY <1>1, AtFacts
  <2> QED BY <1>3, <2>1, <2>2, <2>3, <2>4
<1>5. p # t /\ s # t /\ h.size[l] # 0
  BY <1>1, <1>2, <1>3, <1>4
<1>6. /\ Threading(v) /\ Len(v) = n - 1 /\ Elems(v) = Elems(w) \ {t}
      /\ \A j \in Nat : At(v, j) = IF j < i THEN At(w, j) ELSE At(w, j + 1)
      /\ \A j \in 1 .. n - 1 : v[j] = IF j < i THEN w[j] ELSE w[j + 1]
  <2>1. v = Without(w, i) /\ i \in 1 .. Len(w)
    BY <1>2
  <2> HIDE DEF v, n
  <2>2. Shorter(w, i, v)
    <3>1. Shortened(w, i, v)
      BY <1>1, <2>1 DEF Shortened
    <3> QED BY <3>1, WithoutIs
  <2> QED BY <1>2, <2>2 DEF n, Shorter
<1> HIDE DEF p, s, v, n
<1>7. /\ g \in LinkTypes
      /\ g.head[l] = IF p = NULL THEN s ELSE h.head[l]
      /\ g.tail[l] = IF s = NULL THEN p ELSE h.tail[l]
      /\ g.size[l] = h.size[l] - 1
      /\ \A o \in ListNames \ {l} :
           g.head[o] = h.head[o] /\ g.tail[o] = h.tail[o] /\ g.size[o] = h.size[o]
      /\ g.next[t] = NULL /\ g.prev[t] = NULL
      /\ \A x \in Tids \ {t} : /\ g.next[x] = IF x = p THEN s ELSE h.next[x]
                               /\ g.prev[x] = IF x = s THEN p ELSE h.prev[x]
  <2>1. /\ h \in LinkTypes /\ l \in ListNames /\ t \in Tids /\ h.size[l] # 0
        /\ p = h.prev[t] /\ p # t /\ s = h.next[t] /\ s # t /\ g = thread_list_remove(h, l, t)
    BY <1>1, <1>3, <1>5
  <2> QED BY <2>1, RemoveLinks, SMTT(30)
<1>8. Chain(g, l, v)
  <2>1. g.size[l] = Len(v)
    BY <1>1, <1>6, <1>7
  <2>2. g.head[l] = At(v, 1)
    <3>1. At(v, 1) = IF 1 < i THEN At(w, 1) ELSE At(w, 1 + 1)
      BY <1>6
    <3>2. CASE i = 1
      BY <1>4, <1>7, <3>1, <3>2, SMTT(30) DEF s
    <3>3. CASE i # 1
      <4>1. 1 < i
        BY <1>2, <1>3, <3>3
      <4> QED BY <1>1, <1>4, <1>7, <3>1, <3>3, <4>1
    <3> QED BY <3>2, <3>3
  <2>3. g.tail[l] = At(v, Len(v))
    <3>1. n - 1 \in Nat /\ n - 1 + 1 = n
      BY <1>2, <1>3
    <3>2. At(v, n - 1) = IF n - 1 < i THEN At(w, n - 1) ELSE At(w, n)
      BY <1>6, <3>1
    <3>3. CASE i = n
      <4>1. n - 1 < i
        BY <1>3, <3>3
      <4> QED BY <1>4, <1>6, <1>7, <3>2, <3>3, <4>1 DEF p
    <3>4. CASE i # n
      <4>1. ~(n - 1 < i)
        BY <1>2, <1>3, <3>4
      <4> QED BY <1>1, <1>4, <1>6, <1>7, <3>2, <3>4, <4>1
    <3> QED BY <3>3, <3>4
  <2>4. ASSUME NEW j \in 1 .. n - 1
        PROVE  g.next[v[j]] = At(v, j + 1) /\ g.prev[v[j]] = At(v, j - 1)
    <3> DEFINE k == IF j < i THEN j ELSE j + 1
               x == v[j]
    <3>0. k \in 1 .. n /\ k # i /\ j \in Nat
      BY <1>2, <1>3
    <3>1. k \in 1 .. n /\ k # i /\ x = w[k] /\ j \in Nat
      BY <1>6, <3>0
    <3>2. x \in Tids \ {t} /\ h.next[x] = At(w, k + 1) /\ h.prev[x] = At(w, k - 1)
      <4> HIDE DEF k, x
      <4>1. x \in Tids /\ x # t
        BY <1>1, <1>2, <3>1, AtFacts DEF Threading, n
      <4> QED BY <1>1, <3>1, <4>1
    <3>3. /\ g.next[x] = IF x = p THEN s ELSE h.next[x]
          /\ g.prev[x] = IF x = s THEN p ELSE h.prev[x]
      <4> HIDE DEF x
      <4> QED BY <1>7, <3>2
    <3>4. x = p <=> k = i - 1
      <4>1. k = i - 1 => x = p
        <5> HIDE DEF k, x
        <5> QED BY <1>1, <3>1, AtFacts DEF p, n
      <4> HIDE DEF k, x
      <4> QED BY <1>4, <3>1, <4>1
    <3>5. x = s <=> k = i + 1
      <4>1. k = i + 1 => x = s
        <5> HIDE DEF k, x
        <5> QED BY <1>1, <3>1, AtFacts DEF s, n
      <4> HIDE DEF k, x
      <4> QED BY <1>4, <3>1, <4>1
    <3>6. /\ At(v, j + 1) = IF j + 1 < i THEN At(w, j + 1) ELSE At(w, j + 1 + 1)
          /\ At(v, j - 1) = IF j - 1 < i THEN At(w, j - 1) ELSE At(w, j - 1 + 1)
      <4>1. j + 1 \in Nat /\ j - 1 \in Nat
        BY <1>3
      <4> QED BY <1>6, <4>1
    <3>7. g.next[x] = At(v, j + 1)
      <4>1. CASE j + 1 < i
        <5>1. k = j /\ k # i - 1
          BY <1>3, <3>1, <4>1
        <5> QED BY <3>2, <3>3, <3>4, <3>6, <4>1, <5>1
      <4>2. CASE j + 1 = i
        <5>1. k = i - 1 /\ ~(j + 1 < i) /\ j + 1 + 1 = i + 1
          BY <1>3, <3>1, <4>2
        <5> QED BY <3>3, <3>4, <3>6, <5>1 DEF s
      <4>3. CASE j + 1 > i
        <5>1. k = j + 1 /\ ~(j + 1 < i) /\ k # i - 1
          BY <1>3, <3>1, <4>3
        <5> QED BY <3>2, <3>3, <3>4, <3>6, <5>1
      <4> QED BY <1>3, <3>1, <4>1, <4>2, <4>3
    <3>8. g.prev[x] = At(v, j - 1)
      <4>1. CASE j < i
        <5>1. k = j /\ k # i + 1 /\ j - 1 < i
          BY <1>3, <3>1, <4>1
        <5> QED BY <3>2, <3>3, <3>5, <3>6, <5>1
      <4>2. CASE j = i
        <5>1. k = i + 1 /\ j - 1 < i /\ j - 1 = i - 1
          BY <1>3, <3>1, <4>2
        <5> QED BY <3>3, <3>5, <3>6, <5>1 DEF p
      <4>3. CASE j > i
        <5>1. k = j + 1 /\ ~(j - 1 < i) /\ k # i + 1 /\ k - 1 = j - 1 + 1
          BY <1>3, <3>1, <4>3, SMTT(30)
        <5> QED BY <3>2, <3>3, <3>5, <3>6, <5>1
      <4> QED BY <1>3, <3>1, <4>1, <4>2, <4>3
    <3> QED BY <3>7, <3>8
  <2> QED BY <1>6, <2>1, <2>2, <2>3, <2>4 DEF Chain
<1>9. \A x \in Tids \ (Elems(w) \cup {t}) : g.next[x] = h.next[x] /\ g.prev[x] = h.prev[x]
  <2>1. p \in Elems(w) \cup {NULL} /\ s \in Elems(w) \cup {NULL}
    BY <1>1, <1>3, AtFacts DEF p, s, n
  <2> QED BY <1>3, <1>7, <2>1, SMTT(30)
<1>10. /\ V = [o \in ListNames |-> IF o = l THEN v ELSE W[o]] /\ V[l] = v /\ Unlinked(g, t)
       /\ \A o \in ListNames \ {l} : t \notin Elems(W[o])
  BY <1>a, <1>1, <1>3, <1>7 DEF v, w, Unlinked
<1>11. Elems(v) \subseteq Elems(W[l]) \cup {t} /\ Elems(W[l]) \subseteq Elems(v) \cup {t}
  BY <1>6 DEF w
<1>12. Linked(g, V)
  BY <1>3, <1>7, <1>8, <1>9, <1>10, <1>11, Relinked, SMTT(30) DEF w
<1> QED BY <1>6, <1>10, <1>12 DEF w

(* List l of W with t behind it, and the other lists as they are. *)
Added(W, l, t) == [o \in ListNames |-> IF o = l THEN Append(W[l], t) ELSE W[o]]

LEMMA AddIs ==
  ASSUME NEW h, NEW W, Linked(h, W), NEW l \in ListNames, NEW t \in Tids,
         \A o \in ListNames : t \notin Elems(W[o]), NEW g, g = thread_list_add(h, l, t),
         NEW V, V = Added(W, l, t)
  PROVE  Linked(g, V) /\ Elems(V[l]) = Elems(W[l]) \cup {t} /\ Unlinked(h, t)
<1> DEFINE w == W[l]
           n == Len(w)
           v == Append(w, t)
           e == At(w, n)
<1>0. v = Append(w, t) /\ t \notin Elems(w) /\ w = W[l]
  OBVIOUS
<1> HIDE DEF v, w
<1>1. /\ h \in LinkTypes /\ Threading(w) /\ h.size[l] = n
      /\ h.head[l] = At(w, 1) /\ h.tail[l] = e
      /\ \A j \in 1 .. n : h.next[w[j]] = At(w, j + 1) /\ h.prev[w[j]] = At(w, j - 1)
      /\ \A o \in ListNames \ {l} : Elems(w) \cap Elems(W[o]) = {}
  <2>1. /\ h \in LinkTypes /\ Chain(h, l, w)
        /\ \A o \in ListNames \ {l} : Elems(w) \cap Elems(W[o]) = {}
    BY <1>0 DEF Linked
  <2> QED BY <2>1 DEF Chain
<1>2. Unlinked(h, t)
  BY DEF Linked
<1>3. /\ n \in Nat /\ NULL \notin Tids /\ NULL \notin Elems(w) /\ Elems(w) \subseteq Tids
      /\ \A j \in 1 .. n : w[j] \in Tids /\ w[j] \in Elems(w) /\ At(w, j) = w[j]
      /\ n # 0 => e \in Elems(w) /\ e \in Tids
      /\ n = 0 => e = NULL
      /\ \A j \in 1 .. n : w[j] = e <=> j = n
      /\ e # t
  <2>1. /\ n \in Nat /\ NULL \notin Tids /\ NULL \notin Elems(w) /\ Elems(w) \subseteq Tids
        /\ \A j \in 1 .. n : w[j] \in Tids /\ w[j] \in Elems(w) /\ At(w, j) = w[j]
    BY <1>1, AtFacts
  <2>2. n # 0 => n \in 1 .. n
    BY <2>1
  <2>3. n = 0 => n \notin 1 .. n
    OBVIOUS
  <2>4. \A j \in 1 .. n : w[j] = e <=> j = n
    BY <1>1, <2>1, AtFacts
  <2>5. n # 0 => e \in Elems(w) /\ e \in Tids
    BY <2>1, <2>2
  <2>6. n = 0 => e = NULL
    BY <2>3 DEF At
  <2>7. e # t
    BY <1>0, <2>1, <2>5, <2>6
  <2> QED BY <2>1, <2>4, <2>5, <2>6, <2>7
<1>4. /\ Threading(v) /\ Len(v) = n + 1 /\ Elems(v) = Elems(w) \cup {t}
      /\ \A j \in Nat : At(v, j) = IF j = n + 1 THEN t ELSE At(w, j)
      /\ \A j \in 1 .. n + 1 : v[j] = IF j = n + 1 THEN t ELSE w[j]
  <2>1. /\ Threading(v) /\ Len(v) = Len(w) + 1 /\ Elems(v) = Elems(w) \cup {t}
        /\ \A j \in Nat : At(v, j) = IF j = Len(w) + 1 THEN t ELSE At(w, j)
        /\ \A j \in 1 .. Len(v) : v[j] = IF j = Len(w) + 1 THEN t ELSE w[j]
    <3>1. Lengthened(w, t, v)
      BY <1>0, <1>1 DEF Lengthened
    <3> QED BY <3>1, AppendedIs
  <2> QED BY <2>1
<1> HIDE DEF e, n
<1>5. /\ g \in LinkTypes
      /\ g.head[l] = IF n = 0 THEN t ELSE h.head[l]
      /\ g.tail[l] = t /\ g.size[l] = n + 1
      /\ \A o \in ListNames \ {l} :
           g.head[o] = h.head[o] /\ g.tail[o] = h.tail[o] /\ g.size[o] = h.size[o]
      /\ g.next[t] = NULL /\ g.prev[t] = e
      /\ \A x \in Tids \ {t} : /\ g.next[x] = IF x = e THEN t ELSE h.next[x]
                               /\ g.prev[x] = h.prev[x]
  BY <1>1, <1>2, <1>3, AddLinks
<1>6. Chain(g, l, v)
  <2>1. g.head[l] = At(v, 1)
    <3>1. At(v, 1) = IF 1 = n + 1 THEN t ELSE At(w, 1)
      BY <1>4
    <3>2. 1 = n + 1 <=> n = 0
      BY <1>3
    <3> QED BY <1>1, <1>5, <3>1, <3>2
  <2>2. g.tail[l] = At(v, n + 1)
    BY <1>3, <1>4, <1>5
  <2>3. ASSUME NEW j \in 1 .. n + 1
        PROVE  g.next[v[j]] = At(v, j + 1) /\ g.prev[v[j]] = At(v, j - 1)
    <3>1. CASE j = n + 1
      <4>1. v[j] = t /\ j + 1 \in Nat /\ j + 1 # n + 1 /\ j + 1 \notin 1 .. n
        BY <1>3, <1>4, <3>1
      <4>2. At(v, j + 1) = NULL
        BY <1>4, <4>1 DEF At, n
      <4>3. j - 1 = n /\ n # n + 1
        BY <1>3, <3>1
      <4>4. At(v, j - 1) = e
        BY <1>3, <1>4, <4>3 DEF e
      <4> QED BY <1>5, <4>1, <4>2, <4>4
    <3>2. CASE j # n + 1
      <4>1. j \in 1 .. n /\ j + 1 \in Nat /\ j - 1 \in Nat /\ j - 1 # n + 1
        BY <1>3, <3>2
      <4>2. v[j] = w[j] /\ w[j] \in Tids \ {t}
        BY <1>0, <1>3, <1>4, <3>2, <4>1
      <4>3. g.prev[v[j]] = At(v, j - 1)
        BY <1>1, <1>4, <1>5, <4>1, <4>2
      <4>4. g.next[v[j]] = At(v, j + 1)
        <5>1. CASE j = n
          BY <1>3, <1>4, <1>5, <4>1, <4>2, <5>1
        <5>2. CASE j # n
          <6>1. j + 1 # n + 1 /\ w[j] # e
            BY <1>3, <4>1, <5>2
          <6> QED BY <1>1, <1>4, <1>5, <4>1, <4>2, <6>1
        <5> QED BY <5>1, <5>2
      <4> QED BY <4>3, <4>4
    <3> QED BY <3>1, <3>2
  <2> QED BY <1>4, <1>5, <2>1, <2>2, <2>3 DEF Chain
<1>7. \A x \in Tids \ (Elems(w) \cup {t}) : g.next[x] = h.next[x] /\ g.prev[x] = h.prev[x]
  BY <1>3, <1>5
<1>8. /\ V = [o \in ListNames |-> IF o = l THEN v ELSE W[o]] /\ V[l] = v
      /\ \A o \in ListNames \ {l} : t \notin Elems(W[o])
      /\ Elems(v) \subseteq Elems(w) \cup {t} /\ Elems(w) \subseteq Elems(v) \cup {t}
      /\ t \in Elems(v)
  <2>1. V = [o \in ListNames |-> IF o = l THEN v ELSE W[o]]
    BY <1>0 DEF Added
  <2>2. Elems(v) \subseteq Elems(w) \cup {t} /\ Elems(w) \subseteq Elems(v) \cup {t} /\ t \in Elems(v)
    BY <1>4
  <2> QED BY <2>1, <2>2
<1>9. Linked(g, V)
  <2>1. /\ Elems(v) \subseteq Elems(W[l]) \cup {t} /\ Elems(W[l]) \subseteq Elems(v) \cup {t}
        /\ \A x \in Tids \ (Elems(W[l]) \cup {t}) : g.next[x] = h.next[x] /\ g.prev[x] = h.prev[x]
        /\ t \notin Elems(v) => Unlinked(g, t)
    BY <1>0, <1>7, <1>8
  <2> QED BY <1>5, <1>6, <1>8, <2>1, Relinked
<1> QED BY <1>0, <1>2, <1>4, <1>8, <1>9

(* V is W with t, that is in none of its chains, in front of the chain l. *)
WithFirst(W, l, t, V) ==
  /\ \A o \in ListNames : t \notin Elems(W[o])
  /\ V = [o \in ListNames |-> IF o = l THEN InFront(W[l], t) ELSE W[o]]

LEMMA PrependIs ==
  ASSUME NEW h, NEW W, Linked(h, W), NEW l \in ListNames, NEW t \in Tids,
         NEW V, WithFirst(W, l, t, V), NEW g, g = thread_list_prepend(h, l, t)
  PROVE  /\ Linked(g, V) /\ Elems(V[l]) = Elems(W[l]) \cup {t} /\ Unlinked(h, t)
         /\ g.head[l] = t
<1>a. /\ \A o \in ListNames : t \notin Elems(W[o])
      /\ V = [o \in ListNames |-> IF o = l THEN InFront(W[l], t) ELSE W[o]]
  BY DEF WithFirst
<1> DEFINE w == W[l]
           n == Len(w)
           v == InFront(w, t)
           e == At(w, 1)
<1>0. v = InFront(w, t) /\ t \notin Elems(w) /\ w = W[l]
  BY <1>a
<1> HIDE DEF v, w
<1>1. /\ h \in LinkTypes /\ Threading(w) /\ h.size[l] = n
      /\ h.head[l] = e /\ h.tail[l] = At(w, n)
      /\ \A j \in 1 .. n : h.next[w[j]] = At(w, j + 1) /\ h.prev[w[j]] = At(w, j - 1)
      /\ \A o \in ListNames \ {l} : Elems(w) \cap Elems(W[o]) = {}
  <2>1. /\ h \in LinkTypes /\ Chain(h, l, w)
        /\ \A o \in ListNames \ {l} : Elems(w) \cap Elems(W[o]) = {}
    BY <1>0 DEF Linked
  <2> QED BY <2>1 DEF Chain
<1>2. Unlinked(h, t)
  BY <1>a DEF Linked
<1>3. /\ n \in Nat /\ NULL \notin Tids /\ NULL \notin Elems(w) /\ Elems(w) \subseteq Tids
      /\ \A j \in 1 .. n : w[j] \in Tids /\ w[j] \in Elems(w) /\ At(w, j) = w[j]
      /\ n # 0 => e \in Elems(w) /\ e \in Tids
      /\ n = 0 => e = NULL /\ At(w, n) = NULL
      /\ \A j \in 1 .. n : w[j] = e <=> j = 1
      /\ e # t
  <2>1. /\ n \in Nat /\ NULL \notin Tids /\ NULL \notin Elems(w) /\ Elems(w) \subseteq Tids
        /\ \A j \in 1 .. n : w[j] \in Tids /\ w[j] \in Elems(w) /\ At(w, j) = w[j]
    BY <1>1, AtFacts
  <2>2. n # 0 => 1 \in 1 .. n
    BY <2>1
  <2>3. n = 0 => 1 \notin 1 .. n /\ n \notin 1 .. n
    OBVIOUS
  <2>4. \A j \in 1 .. n : w[j] = e <=> j = 1
    BY <1>1, <2>1, AtFacts
  <2>5. n # 0 => e \in Elems(w) /\ e \in Tids
    BY <2>1, <2>2
  <2>6. n = 0 => e = NULL /\ At(w, n) = NULL
    BY <2>3 DEF At
  <2>7. e # t
    BY <1>0, <2>1, <2>5, <2>6
  <2> QED BY <2>1, <2>4, <2>5, <2>6, <2>7
<1>4. /\ Threading(v) /\ Len(v) = n + 1 /\ Elems(v) = Elems(w) \cup {t}
      /\ \A j \in Nat : At(v, j) = IF j = 1 THEN t ELSE At(w, j - 1)
      /\ \A j \in 1 .. n + 1 : v[j] = IF j = 1 THEN t ELSE w[j - 1]
  <2>1. /\ Threading(v) /\ Len(v) = Len(w) + 1 /\ Elems(v) = Elems(w) \cup {t}
        /\ \A j \in Nat : At(v, j) = IF j = 1 THEN t ELSE At(w, j - 1)
        /\ \A j \in 1 .. Len(v) : v[j] = IF j = 1 THEN t ELSE w[j - 1]
    BY <1>0, <1>1, InFrontIs
  <2> QED BY <2>1
<1> HIDE DEF e, n
<1>5. /\ g \in LinkTypes
      /\ g.tail[l] = IF n = 0 THEN t ELSE h.tail[l]
      /\ g.head[l] = t /\ g.size[l] = n + 1
      /\ \A o \in ListNames \ {l} :
           g.head[o] = h.head[o] /\ g.tail[o] = h.tail[o] /\ g.size[o] = h.size[o]
      /\ g.next[t] = e /\ g.prev[t] = NULL
      /\ \A x \in Tids \ {t} : /\ g.prev[x] = IF x = e THEN t ELSE h.prev[x]
                               /\ g.next[x] = h.next[x]
  BY <1>1, <1>2, <1>3, PrependLinks
<1>6. Chain(g, l, v)
  <2>1. g.head[l] = At(v, 1)
    BY <1>4, <1>5
  <2>2. g.tail[l] = At(v, n + 1)
    <3> DEFINE k == n + 1
    <3>1. k \in Nat /\ k - 1 = n /\ (k = 1 <=> n = 0)
      BY <1>3
    <3> HIDE DEF k
    <3>2. At(v, k) = IF n = 0 THEN t ELSE At(w, n)
      BY <1>4, <3>1
    <3> QED BY <1>1, <1>5, <3>2 DEF k
  <2>3. ASSUME NEW j \in 1 .. n + 1
        PROVE  g.next[v[j]] = At(v, j + 1) /\ g.prev[v[j]] = At(v, j - 1)
    <3>0. /\ j + 1 \in Nat /\ j + 1 # 1 /\ j + 1 - 1 = j /\ j - 1 \in Nat
          /\ (j - 1 = 1 <=> j = 2)
      BY <1>3
    <3>a. At(v, j + 1) = At(w, j) /\ At(v, j - 1) = IF j = 2 THEN t ELSE At(w, j - 1 - 1)
      BY <1>4, <3>0
    <3>1. CASE j = 1
      <4>1. v[j] = t /\ At(w, j) = e
        BY <1>4, <3>1 DEF e
      <4>2. At(w, j - 1 - 1) = NULL
        BY <3>1 DEF At
      <4> QED BY <1>5, <3>1, <3>a, <4>1, <4>2
    <3>2. CASE j # 1
      <4> DEFINE k == j - 1
      <4>1. k \in 1 .. n /\ k + 1 = j /\ v[j] = w[k] /\ (k = 1 <=> j = 2)
        BY <1>3, <1>4, <3>2
      <4> HIDE DEF k
      <4>2. w[k] \in Tids \ {t} /\ (w[k] = e <=> k = 1)
        BY <1>0, <1>3, <4>1
      <4>3. g.next[v[j]] = At(w, j)
        BY <1>1, <1>5, <4>1, <4>2
      <4>4. g.prev[v[j]] = IF j = 2 THEN t ELSE At(w, k - 1)
        BY <1>1, <1>5, <4>1, <4>2
      <4> QED BY <3>a, <4>3, <4>4 DEF k
    <3> QED BY <3>1, <3>2
  <2> QED BY <1>4, <1>5, <2>1, <2>2, <2>3 DEF Chain
<1>7. \A x \in Tids \ (Elems(w) \cup {t}) : g.next[x] = h.next[x] /\ g.prev[x] = h.prev[x]
  BY <1>3, <1>5
<1>8. /\ V = [o \in ListNames |-> IF o = l THEN v ELSE W[o]] /\ V[l] = v
      /\ \A o \in ListNames \ {l} : t \notin Elems(W[o])
      /\ Elems(v) \subseteq Elems(w) \cup {t} /\ Elems(w) \subseteq Elems(v) \cup {t}
      /\ t \in Elems(v)
  <2>1. V = [o \in ListNames |-> IF o = l THEN v ELSE W[o]] /\ V[l] = v
    BY <1>0, <1>a
  <2> QED BY <1>4, <1>a, <2>1
<1>9. Linked(g, V)
  BY <1>0, <1>5, <1>6, <1>7, <1>8, Relinked
<1> QED BY <1>0, <1>2, <1>4, <1>5, <1>8, <1>9

-----------------------------------------------------------------------------
(* The lists as sets of threads. *)
Good(h) == \E W : Linked(h, W)

LEMMA LinkedMembers ==
  ASSUME NEW h, NEW W, Linked(h, W), NEW l \in ListNames
  PROVE  Members(h, l) = Elems(W[l]) /\ Walk(h, l) = W[l]
<1> DEFINE w == W[l]
<1>1. h \in LinkTypes /\ Chain(h, l, w)
  BY DEF Linked
<1> HIDE DEF w
<1>2. Members(h, l) = Elems(w) /\ Walk(h, l) = w
  BY <1>1, WalkIs
<1> QED BY <1>2 DEF w

LEMMA GoodFacts ==
  ASSUME NEW h, Good(h)
  PROVE  /\ h \in Links
         /\ \A l \in ListNames :
              /\ WellLinked(h, l) /\ Members(h, l) \subseteq Tids
              /\ thread_list_is_empty(h, l) <=> Members(h, l) = {}
              /\ Members(h, l) # {} => h.head[l] \in Members(h, l)
         /\ \A l \in ListNames, o \in ListNames : l # o => Members(h, l) \cap Members(h, o) = {}
<1>1. PICK W : Linked(h, W)
  BY DEF Good
<1>2. h \in LinkTypes
  BY <1>1 DEF Linked
<1>3. ASSUME NEW l \in ListNames
      PROVE  /\ WellLinked(h, l) /\ Members(h, l) \subseteq Tids
             /\ thread_list_is_empty(h, l) <=> Members(h, l) = {}
             /\ Members(h, l) # {} => h.head[l] \in Members(h, l)
             /\ h.size[l] <= Cardinality(Tids)
  <2> DEFINE w == W[l]
             n == Len(w)
  <2>1. Members(h, l) = Elems(w) /\ Walk(h, l) = w
    BY <1>1, LinkedMembers
  <2>2. Chain(h, l, w)
    BY <1>1 DEF Linked
  <2> HIDE DEF w
  <2>3. /\ Threading(w) /\ h.size[l] = n
        /\ h.head[l] = At(w, 1) /\ h.tail[l] = At(w, n)
        /\ \A j \in 1 .. n : h.prev[w[j]] = At(w, j - 1)
        /\ \A i \in 1 .. n, j \in 1 .. n : w[i] = w[j] => i = j
    BY <2>2 DEF Chain, Threading
  <2>4. /\ n \in Nat /\ n <= Cardinality(Tids) /\ w \in Seq(Tids) /\ DOMAIN w = 1 .. n
        /\ Elems(w) \subseteq Tids /\ (1 \in 1 .. n => At(w, 1) \in Elems(w))
    BY <2>3, ThreadingBound, AtFacts DEF Threading
  <2>5. n = 0 <=> Elems(w) = {}
    <3>1. n # 0 => 1 \in 1 .. n
      BY <2>4
    <3>2. n = 0 => 1 .. n = {}
      BY <2>4
    <3> QED BY <2>4, <3>1, <3>2 DEF Elems
  <2>6. thread_list_is_empty(h, l) <=> Members(h, l) = {}
    BY <2>1, <2>3, <2>5 DEF thread_list_is_empty
  <2>7. Members(h, l) # {} => h.head[l] \in Members(h, l)
    <3>1. n # 0 => 1 \in 1 .. n
      BY <2>4
    <3> QED BY <2>1, <2>3, <2>4, <2>5, <3>1
  <2>8. WellLinked(h, l)
    <3>1. h.tail[l] = IF w = <<>> THEN NULL ELSE w[n]
      <4>1. CASE n = 0
        <5>1. w = <<>> /\ n \notin 1 .. n
          BY <2>4, <4>1
        <5> QED BY <2>3, <5>1 DEF At
      <4>2. CASE n # 0
        <5>1. w # <<>> /\ n \in 1 .. n
          BY <2>4, <4>2
        <5> QED BY <2>3, <5>1 DEF At
      <4> QED BY <4>1, <4>2
    <3>2. ASSUME NEW i \in 1 .. n PROVE h.prev[w[i]] = IF i = 1 THEN NULL ELSE w[i - 1]
      <4>1. i - 1 \in 1 .. n <=> i # 1
        BY <2>4
      <4>2. At(w, i - 1) = IF i = 1 THEN NULL ELSE w[i - 1]
        BY <4>1 DEF At
      <4> QED BY <2>3, <4>2
    <3> QED BY <2>1, <2>3, <2>4, <3>1, <3>2 DEF WellLinked
  <2> QED BY <2>1, <2>3, <2>4, <2>6, <2>7, <2>8
<1>4. \A l \in ListNames, o \in ListNames : l # o => Members(h, l) \cap Members(h, o) = {}
  BY <1>1, LinkedMembers, SMTT(30) DEF Linked
<1>5. h \in Links
  <2>1. \A l \in ListNames : h.size[l] \in 0 .. Cardinality(Tids)
    <3>1. Cardinality(Tids) \in Nat
      BY ThreadsAssumption, FS_CardinalityType
    <3> QED BY <1>2, <1>3, <3>1 DEF LinkTypes
  <2> QED BY <1>2, <2>1 DEF LinkTypes, Links
<1> QED BY <1>3, <1>4, <1>5

LEMMA GoodRemove ==
  ASSUME NEW h, Good(h), NEW l \in ListNames, NEW t \in Members(h, l),
         NEW g, g = thread_list_remove(h, l, t)
  PROVE  /\ Good(g) /\ Members(g, l) = Members(h, l) \ {t}
         /\ \A o \in ListNames \ {l} : Members(g, o) = Members(h, o)
<1>1. PICK W : Linked(h, W)
  BY DEF Good
<1>2. \A o \in ListNames : Members(h, o) = Elems(W[o])
  BY <1>1, LinkedMembers
<1>3. PICK i \in 1 .. Len(W[l]) : t = W[l][i]
  BY <1>2 DEF Elems
<1> DEFINE V == [o \in ListNames |-> IF o = l THEN Without(W[l], i) ELSE W[o]]
<1>4. \A o \in ListNames \ {l} : V[o] = W[o]
  OBVIOUS
<1>5. V = [o \in ListNames |-> IF o = l THEN Without(W[l], i) ELSE W[o]]
  OBVIOUS
<1> HIDE DEF V
<1>6. Linked(g, V) /\ Elems(V[l]) = Elems(W[l]) \ {t}
  <2>1. WithLess(W, l, i, t, V)
    BY <1>3, <1>5 DEF WithLess
  <2> QED BY <1>1, <2>1, RemoveIs
<1>7. \A o \in ListNames : Members(g, o) = Elems(V[o])
  BY <1>6, LinkedMembers
<1> QED BY <1>2, <1>4, <1>6, <1>7 DEF Good

LEMMA GoodAdd ==
  ASSUME NEW h, Good(h), NEW l \in ListNames, NEW t \in Tids,
         \A o \in ListNames : t \notin Members(h, o), NEW g, g = thread_list_add(h, l, t)
  PROVE  /\ Good(g) /\ Members(g, l) = Members(h, l) \cup {t} /\ Unlinked(h, t)
         /\ \A o \in ListNames \ {l} : Members(g, o) = Members(h, o)
         /\ Members(h, l) # {} => g.head[l] = h.head[l]
         /\ g.next[t] = NULL
<1>1. PICK W : Linked(h, W)
  BY DEF Good
<1>2. \A o \in ListNames : Members(h, o) = Elems(W[o])
  BY <1>1, LinkedMembers
<1> DEFINE V == [o \in ListNames |-> IF o = l THEN Append(W[l], t) ELSE W[o]]
<1>4. V[l] = Append(W[l], t) /\ \A o \in ListNames \ {l} : V[o] = W[o]
  OBVIOUS
<1>5. V = Added(W, l, t)
  BY DEF Added
<1> HIDE DEF V
<1>3. \A o \in ListNames : t \notin Elems(W[o])
  BY <1>2
<1>6. Linked(g, V) /\ Elems(V[l]) = Elems(W[l]) \cup {t} /\ Unlinked(h, t)
  BY <1>1, <1>3, <1>5, AddIs, SMTT(30)
<1>7. \A o \in ListNames : Members(g, o) = Elems(V[o])
  BY <1>6, LinkedMembers
<1> DEFINE w == W[l]
           v == V[l]
           n == Len(w)
<1>8. Chain(h, l, w) /\ Chain(g, l, v) /\ t \notin Elems(w) /\ v = Append(w, t) /\ Elems(w) = Members(h, l)
  <2>1. Chain(h, l, w) /\ Chain(g, l, v)
    BY <1>1, <1>6 DEF Linked
  <2>2. t \notin Elems(w) /\ Elems(w) = Members(h, l)
    BY <1>2, <1>3
  <2> QED BY <1>4, <2>1, <2>2
<1> HIDE DEF w, v, n
<1>9. /\ n \in Nat /\ Threading(w)
      /\ Len(v) = n + 1 /\ v[n + 1] = t /\ \A j \in 1 .. n : v[j] = w[j]
  <2>1. Threading(w) /\ w \in Seq(Tids) /\ n \in Nat
    BY <1>8 DEF Chain, Threading, n
  <2> QED BY <1>8, <2>1, AppendProperties DEF n
<1>10. g.next[t] = NULL
  <2>1. n + 1 \in 1 .. n + 1 /\ n + 1 + 1 \notin 1 .. n + 1
    BY <1>9
  <2>2. g.next[v[n + 1]] = At(v, n + 1 + 1)
    BY <1>8, <1>9, <2>1 DEF Chain
  <2> QED BY <1>9, <2>1, <2>2 DEF At
<1>11. Members(h, l) # {} => g.head[l] = h.head[l]
  <2> SUFFICES ASSUME Members(h, l) # {} PROVE g.head[l] = h.head[l]
    OBVIOUS
  <2>1. PICK j : j \in 1 .. n
    BY <1>8 DEF Elems, n
  <2>2. 1 \in 1 .. n /\ 1 \in 1 .. n + 1
    BY <1>9, <2>1
  <2>3. g.head[l] = At(v, 1) /\ h.head[l] = At(w, 1)
    BY <1>8 DEF Chain
  <2> QED BY <1>9, <2>2, <2>3 DEF At, n
<1> QED BY <1>2, <1>4, <1>6, <1>7, <1>10, <1>11 DEF Good

LEMMA GoodPrepend ==
  ASSUME NEW h, Good(h), NEW l \in ListNames, NEW t \in Tids,
         \A o \in ListNames : t \notin Members(h, o), NEW g, g = thread_list_prepend(h, l, t)
  PROVE  /\ Good(g) /\ Members(g, l) = Members(h, l) \cup {t} /\ Unlinked(h, t)
         /\ \A o \in ListNames \ {l} : Members(g, o) = Members(h, o)
         /\ g.head[l] = t
<1>1. PICK W : Linked(h, W)
  BY DEF Good
<1>2. \A o \in ListNames : Members(h, o) = Elems(W[o])
  BY <1>1, LinkedMembers
<1> DEFINE V == [o \in ListNames |-> IF o = l THEN InFront(W[l], t) ELSE W[o]]
<1>4. \A o \in ListNames \ {l} : V[o] = W[o]
  OBVIOUS
<1>5. V = [o \in ListNames |-> IF o = l THEN InFront(W[l], t) ELSE W[o]]
  OBVIOUS
<1> HIDE DEF V
<1>6. Linked(g, V) /\ Elems(V[l]) = Elems(W[l]) \cup {t} /\ Unlinked(h, t) /\ g.head[l] = t
  <2>1. WithFirst(W, l, t, V)
    BY <1>2, <1>5 DEF WithFirst
  <2> QED BY <1>1, <2>1, PrependIs
<1>7. \A o \in ListNames : Members(g, o) = Elems(V[o])
  BY <1>6, LinkedMembers
<1> QED BY <1>2, <1>4, <1>6, <1>7 DEF Good

LEMMA GoodEmpty ==
  Good(EmptyLists) /\ \A l \in ListNames : Members(EmptyLists, l) = {}
<1> DEFINE W == [l \in ListNames |-> <<>>]
<1>1. \A l \in ListNames : W[l] = <<>> /\ Elems(W[l]) = {}
  BY DEF Elems
<1>2. Threading(<<>>) /\ Len(<<>>) = 0 /\ At(<<>>, 1) = NULL /\ At(<<>>, 0) = NULL
  BY DEF Threading, At
<1>3. Linked(EmptyLists, W)
  <2>1. EmptyLists \in LinkTypes
    BY DEF EmptyLists, LinkTypes
  <2>2. \A l \in ListNames : Chain(EmptyLists, l, W[l])
    BY <1>1, <1>2 DEF EmptyLists, Chain
  <2>3. \A t \in Tids : Unlinked(EmptyLists, t)
    BY DEF EmptyLists, Unlinked
  <2> HIDE DEF W
  <2> QED BY <1>1, <2>1, <2>2, <2>3 DEF Linked
<1> HIDE DEF W
<1> QED BY <1>1, <1>3, LinkedMembers DEF Good

-----------------------------------------------------------------------------
(* The helpers of schedule(), as maps of the scheduler's memory. *)

Memories == [lists  : Links,
             info   : [Tids -> Info],
             exit   : BOOLEAN,
             served : [Tids -> Nat],
             got    : [Tids -> Nat]]

In(k, l) == Members(k.lists, l)

(* The lists agree with the states, but for the thread x that has left the
   processor and is still in RUNNABLE. *)
Fits(k, x) ==
  \A t \in Tids :
    LET st == k.info[t].state
    IN  /\ t \in In(k, "RUNNABLE") <=> st \in {"RUNNING", "RUNNABLE"} \/ t = x
        /\ t \in In(k, "BLOCKED") <=> st = "BLOCKED" /\ t # x
        /\ t \in In(k, "ZOMBIE") <=> st = "ZOMBIE" /\ t # x

Sound(k, x) == k \in Memories /\ Good(k.lists) /\ ~k.exit /\ Fits(k, x)

LEMMA SoundLists ==
  ASSUME NEW k, NEW x, Sound(k, x)
  PROVE  k.lists \in LinkTypes
<1>1. k \in Memories
  BY DEF Sound
<1>2. k.lists \in Links
  BY <1>1 DEF Memories
<1> QED BY <1>2 DEF Links, LinkTypes

(* g is k, but for the lists. *)
OnlyLists(k, g) ==
  /\ g \in Memories /\ Good(g.lists)
  /\ g.info = k.info /\ g.exit = k.exit /\ g.served = k.served /\ g.got = k.got

LEMMA Removed ==
  ASSUME NEW k \in Memories, Good(k.lists), NEW l \in ListNames, NEW t \in In(k, l),
         NEW g, g = Remove(k, l, t)
  PROVE  /\ OnlyLists(k, g) /\ In(g, l) = In(k, l) \ {t}
         /\ \A p \in ListNames \ {l} : In(g, p) = In(k, p)
         /\ \A p \in ListNames : t \notin In(g, p)
<1>1. g.lists = thread_list_remove(k.lists, l, t) /\ g.info = k.info /\ g.exit = k.exit
      /\ g.served = k.served /\ g.got = k.got
  BY DEF Remove, Memories
<1>2. /\ Good(g.lists) /\ In(g, l) = In(k, l) \ {t}
      /\ \A p \in ListNames \ {l} : In(g, p) = In(k, p)
  BY <1>1, GoodRemove DEF In
<1>3. \A p \in ListNames : t \notin In(g, p)
  <2>1. \A p \in ListNames : p # l => In(k, l) \cap In(k, p) = {}
    BY GoodFacts DEF In
  <2> QED BY <1>2, <2>1
<1>4. g \in Memories
  <2>1. g.lists \in Links
    BY <1>2, GoodFacts
  <2>2. g = [k EXCEPT !.lists = g.lists]
    BY DEF Remove, Memories
  <2> QED BY <2>1, <2>2 DEF Memories
<1> QED BY <1>1, <1>2, <1>3, <1>4 DEF OnlyLists

(* A thread that is moved to a list is unlinked in between. *)
LEMMA Moved ==
  ASSUME NEW k \in Memories, Good(k.lists), NEW l \in ListNames, NEW o \in ListNames,
         NEW t \in In(k, l), NEW g, g = AddTo(Remove(k, l, t), o, t)
  PROVE  /\ OnlyLists(k, g) /\ g.lists.next[t] = NULL
         /\ In(g, o) = In(k, o) \cup {t}
         /\ \A p \in ListNames \ {o} : In(g, p) = In(k, p) \ {t}
<1> DEFINE r == Remove(k, l, t)
<1>1. /\ OnlyLists(k, r) /\ In(r, l) = In(k, l) \ {t}
      /\ \A p \in ListNames \ {l} : In(r, p) = In(k, p)
      /\ \A p \in ListNames : t \notin In(r, p)
  BY Removed
<1>2. g = AddTo(r, o, t) /\ t \in Tids
  BY GoodFacts DEF In
<1> HIDE DEF r
<1>3. /\ Good(g.lists) /\ In(g, o) = In(r, o) \cup {t} /\ Unlinked(r.lists, t)
      /\ \A p \in ListNames \ {o} : In(g, p) = In(r, p)
      /\ g.lists.next[t] = NULL
  <2>1. g.lists = thread_list_add(r.lists, o, t)
    BY <1>1, <1>2 DEF AddTo, OnlyLists, Memories
  <2>2. Good(r.lists) /\ \A p \in ListNames : t \notin Members(r.lists, p)
    BY <1>1 DEF OnlyLists, In
  <2> QED BY <1>2, <2>1, <2>2, GoodAdd DEF In
<1>4. OnlyLists(k, g)
  <2>1. g.lists \in Links
    BY <1>3, GoodFacts
  <2>2. g = [r EXCEPT !.lists = g.lists, !.exit = r.exit \/ ~Unlinked(r.lists, t)] /\ r \in Memories
    BY <1>1, <1>2 DEF AddTo, OnlyLists, Memories
  <2>3. r.exit \in BOOLEAN /\ (r.exit \/ ~Unlinked(r.lists, t)) = r.exit
    BY <1>3, <2>2 DEF Memories
  <2>4. g = [r EXCEPT !.lists = g.lists]
    BY <2>2, <2>3 DEF Memories
  <2>5. g \in Memories /\ g.info = r.info /\ g.exit = r.exit /\ g.served = r.served /\ g.got = r.got
    BY <2>1, <2>2, <2>4 DEF Memories
  <2> QED BY <1>1, <1>3, <2>5 DEF OnlyLists
<1>5. In(g, o) = In(k, o) \cup {t}
  BY <1>1, <1>3
<1>6. \A p \in ListNames \ {o} : In(g, p) = In(k, p) \ {t}
  BY <1>1, <1>3
<1> QED BY <1>3, <1>4, <1>5, <1>6

LEMMA BroughtToFront ==
  ASSUME NEW k \in Memories, Good(k.lists), NEW l \in ListNames,
         NEW t \in In(k, l), NEW g, g = Prepend(Remove(k, l, t), l, t)
  PROVE  /\ OnlyLists(k, g) /\ g.lists.head[l] = t
         /\ \A p \in ListNames : In(g, p) = In(k, p)
<1> DEFINE r == Remove(k, l, t)
<1>1. /\ OnlyLists(k, r) /\ In(r, l) = In(k, l) \ {t}
      /\ \A p \in ListNames \ {l} : In(r, p) = In(k, p)
      /\ \A p \in ListNames : t \notin In(r, p)
  BY Removed
<1>2. g = Prepend(r, l, t) /\ t \in Tids
  BY GoodFacts DEF In
<1> HIDE DEF r
<1>3. /\ Good(g.lists) /\ In(g, l) = In(r, l) \cup {t} /\ Unlinked(r.lists, t)
      /\ \A p \in ListNames \ {l} : In(g, p) = In(r, p)
      /\ g.lists.head[l] = t
  <2>1. g.lists = thread_list_prepend(r.lists, l, t)
    BY <1>1, <1>2 DEF Prepend, OnlyLists, Memories
  <2>2. Good(r.lists) /\ \A p \in ListNames : t \notin Members(r.lists, p)
    BY <1>1 DEF OnlyLists, In
  <2> QED BY <1>2, <2>1, <2>2, GoodPrepend DEF In
<1>4. OnlyLists(k, g)
  <2>1. g.lists \in Links
    BY <1>3, GoodFacts
  <2>2. g = [r EXCEPT !.lists = g.lists, !.exit = r.exit \/ ~Unlinked(r.lists, t)] /\ r \in Memories
    BY <1>1, <1>2 DEF Prepend, OnlyLists, Memories
  <2>3. r.exit \in BOOLEAN /\ (r.exit \/ ~Unlinked(r.lists, t)) = r.exit
    BY <1>3, <2>2 DEF Memories
  <2>4. g = [r EXCEPT !.lists = g.lists]
    BY <2>2, <2>3 DEF Memories
  <2>5. g \in Memories /\ g.info = r.info /\ g.exit = r.exit /\ g.served = r.served /\ g.got = r.got
    BY <2>1, <2>2, <2>4 DEF Memories
  <2> QED BY <1>1, <1>3, <2>5 DEF OnlyLists
<1>5. \A p \in ListNames : In(g, p) = In(k, p)
  BY <1>1, <1>3
<1> QED BY <1>3, <1>4, <1>5

(* unblock_thread, up to what it does with the zombie. *)
Awakened(k, b, e, g) ==
  /\ g \in Memories /\ Good(g.lists) /\ g.lists.next[b] = NULL
  /\ g.info = [k.info EXCEPT ![b] = [state |-> "RUNNABLE", joined_target |-> NULL, errno |-> e]]
  /\ g.exit = k.exit /\ g.served = k.served /\ g.got = k.got
  /\ In(g, "RUNNABLE") = In(k, "RUNNABLE") \cup {b}
  /\ In(g, "BLOCKED") = In(k, "BLOCKED") \ {b}
  /\ In(g, "ZOMBIE") = In(k, "ZOMBIE") \ {b}

LEMMA WakesUp ==
  ASSUME NEW k \in Memories, Good(k.lists), NEW b \in In(k, "BLOCKED"),
         NEW e \in {"SUCCESS", "ERRINVAL"},
         NEW g, g = AddTo(Remove([k EXCEPT !.info[b] =
                                    [state |-> "RUNNABLE", joined_target |-> NULL, errno |-> e]],
                                 "BLOCKED", b), "RUNNABLE", b)
  PROVE  Awakened(k, b, e, g)
<1> DEFINE info == [state |-> "RUNNABLE", joined_target |-> NULL, errno |-> e]
           r == [k EXCEPT !.info[b] = info]
<1>1. "RUNNABLE" \in ListNames /\ "BLOCKED" \in ListNames /\ "ZOMBIE" \in ListNames
  BY DEF ListNames
<1>2. info \in Info /\ b \in Tids
  <2>1. info \in Info
    BY DEF Info, ThreadState
  <2>2. b \in Tids
    BY <1>1, GoodFacts DEF In
  <2> QED BY <2>1, <2>2
<1> HIDE DEF info
<1>3. /\ r \in Memories /\ r.lists = k.lists /\ r.info = [k.info EXCEPT ![b] = info]
      /\ r.exit = k.exit /\ r.served = k.served /\ r.got = k.got
  BY <1>2 DEF Memories
<1>4. g = AddTo(Remove(r, "BLOCKED", b), "RUNNABLE", b)
  BY DEF info
<1> HIDE DEF r
<1>5. b \in In(r, "BLOCKED") /\ Good(r.lists) /\ \A p \in ListNames : In(r, p) = In(k, p)
  BY <1>3 DEF In
<1>6. /\ OnlyLists(r, g) /\ g.lists.next[b] = NULL
      /\ In(g, "RUNNABLE") = In(r, "RUNNABLE") \cup {b}
      /\ \A p \in ListNames \ {"RUNNABLE"} : In(g, p) = In(r, p) \ {b}
  BY <1>1, <1>3, <1>4, <1>5, Moved
<1>7. /\ In(g, "BLOCKED") = In(k, "BLOCKED") \ {b} /\ In(g, "ZOMBIE") = In(k, "ZOMBIE") \ {b}
      /\ In(g, "RUNNABLE") = In(k, "RUNNABLE") \cup {b}
  BY <1>1, <1>5, <1>6
<1> QED BY <1>3, <1>6, <1>7 DEF Awakened, OnlyLists, info

(* What unblock_thread does, when it finds b no zombie ... *)
Failed(k, b, g) ==
  /\ g.lists.next[b] = NULL
  /\ In(g, "BLOCKED") = In(k, "BLOCKED") \ {b}
  /\ \A t \in Tids \ {b} : g.info[t] = k.info[t]
  /\ g.info[b].state = "RUNNABLE" /\ g.info[b].errno = "ERRINVAL"
  /\ g.got = k.got
  /\ \A u \in Tids :
       g.served[u] = IF u = k.info[b].joined_target THEN k.served[u] + 1 ELSE k.served[u]

LEMMA UnblockFails ==
  ASSUME NEW k, NEW x, Sound(k, x), NEW b \in In(k, "BLOCKED"), NEW g, g = unblock_thread(k, b, NULL)
  PROVE  Sound(g, x) /\ Failed(k, b, g)
<1> DEFINE woken == AddTo(Remove([k EXCEPT !.info[b] =
                       [state |-> "RUNNABLE", joined_target |-> NULL, errno |-> "ERRINVAL"]],
                       "BLOCKED", b), "RUNNABLE", b)
           target == k.info[b].joined_target
<1>1. k \in Memories /\ Good(k.lists) /\ ~k.exit /\ Fits(k, x)
  BY DEF Sound
<1>2. Awakened(k, b, "ERRINVAL", woken)
  BY <1>1, WakesUp
<1>3. g = IF target = NULL THEN woken ELSE [woken EXCEPT !.served[target] = @ + 1]
  BY SMTT(30) DEF unblock_thread
<1>4. b \in Tids
  BY <1>1, GoodFacts DEF In, ListNames
<1>5. target \in Tids \cup {NULL} /\ NULL \notin Tids
  BY <1>1, <1>4, ThreadsAssumption DEF Memories, Info
<1> HIDE DEF woken, target
<1>6. /\ g \in Memories /\ g.lists = woken.lists /\ g.info = woken.info
      /\ g.exit = woken.exit /\ g.got = woken.got
      /\ \A u \in Tids : g.served[u] = IF u = target THEN k.served[u] + 1 ELSE k.served[u]
  <2>1. woken \in Memories /\ woken.served = k.served
    BY <1>2 DEF Awakened
  <2>2. CASE target = NULL
    <3>1. g = woken
      BY <1>3, <2>2
    <3> QED BY <1>5, <2>1, <2>2, <3>1
  <2>3. CASE target \in Tids
    <3>1. g = [woken EXCEPT !.served[target] = @ + 1]
      BY <1>3, <1>5, <2>3
    <3>2. g.served = [woken.served EXCEPT ![target] = @ + 1]
      BY <2>1, <3>1 DEF Memories
    <3>3. woken.served \in [Tids -> Nat]
      BY <2>1 DEF Memories
    <3>4. g.served \in [Tids -> Nat]
      BY <2>3, <3>2, <3>3
    <3>5. /\ g.lists = woken.lists /\ g.info = woken.info /\ g.exit = woken.exit /\ g.got = woken.got
          /\ g = [woken EXCEPT !.served = g.served]
      BY <2>1, <3>1 DEF Memories
    <3>6. g \in Memories
      BY <2>1, <3>4, <3>5 DEF Memories
    <3> QED BY <2>1, <2>3, <3>2, <3>3, <3>5, <3>6
  <2> QED BY <1>5, <2>2, <2>3
<1>7. /\ In(g, "RUNNABLE") = In(k, "RUNNABLE") \cup {b}
      /\ In(g, "BLOCKED") = In(k, "BLOCKED") \ {b}
      /\ In(g, "ZOMBIE") = In(k, "ZOMBIE") \ {b}
  BY <1>2, <1>6 DEF Awakened, In
<1>8. /\ Good(g.lists) /\ ~g.exit /\ g.lists.next[b] = NULL /\ g.got = k.got
      /\ g.info = [k.info EXCEPT ![b] =
                     [state |-> "RUNNABLE", joined_target |-> NULL, errno |-> "ERRINVAL"]]
  BY <1>1, <1>2, <1>6 DEF Awakened
<1>9. /\ \A t \in Tids \ {b} : g.info[t] = k.info[t]
      /\ g.info[b].state = "RUNNABLE" /\ g.info[b].errno = "ERRINVAL"
  BY <1>1, <1>4, <1>8 DEF Memories
<1>10. Fits(g, x)
  BY <1>1, <1>4, <1>7, <1>9 DEF Fits
<1> QED BY <1>6, <1>7, <1>8, <1>9, <1>10 DEF Sound, Failed, target

(* ... and when it finds z. *)
Collected(k, b, z, g) ==
  /\ In(g, "BLOCKED") = In(k, "BLOCKED") \ {b}
  /\ \A t \in Tids \ {b, z} : g.info[t] = k.info[t]
  /\ g.info[b].state = "RUNNABLE" /\ g.info[b].errno = "SUCCESS"
  /\ k.info[z].state = "ZOMBIE" /\ g.info[z].state = "DEAD"
  /\ \A u \in Tids :
       /\ g.got[u] = IF u = z THEN k.got[u] + 1 ELSE k.got[u]
       /\ g.served[u] = IF u = z THEN k.served[u] + 1 ELSE k.served[u]

LEMMA UnblockCollects ==
  ASSUME NEW k, NEW x, Sound(k, x), NEW b \in In(k, "BLOCKED"), NEW z \in In(k, "ZOMBIE"),
         NEW g, g = unblock_thread(k, b, z)
  PROVE  Sound(g, x) /\ Collected(k, b, z, g)
<1> DEFINE woken == AddTo(Remove([k EXCEPT !.info[b] =
                       [state |-> "RUNNABLE", joined_target |-> NULL, errno |-> "SUCCESS"]],
                       "BLOCKED", b), "RUNNABLE", b)
           r == Remove(woken, "ZOMBIE", z)
<1>0. "RUNNABLE" \in ListNames /\ "BLOCKED" \in ListNames /\ "ZOMBIE" \in ListNames
  BY DEF ListNames
<1>1. k \in Memories /\ Good(k.lists) /\ ~k.exit /\ Fits(k, x)
  BY DEF Sound
<1>2. Awakened(k, b, "SUCCESS", woken)
  BY <1>1, WakesUp
<1>3. b \in Tids /\ z \in Tids /\ NULL \notin Tids
  BY <1>0, <1>1, GoodFacts, ThreadsAssumption DEF In
<1>4. k.info[z].state = "ZOMBIE" /\ z # x /\ k.info[b].state = "BLOCKED" /\ b # x /\ b # z
  BY <1>1, <1>3 DEF Fits
<1>5. g = [r EXCEPT !.info[z].state = "DEAD", !.exit = @ \/ k.info[z].state # "ZOMBIE",
                    !.served[z] = @ + 1, !.got[z] = @ + 1]
  BY <1>3, SMTT(30) DEF unblock_thread
<1> HIDE DEF woken
<1>6. woken \in Memories /\ Good(woken.lists) /\ z \in In(woken, "ZOMBIE")
  BY <1>2, <1>4 DEF Awakened
<1>7. /\ OnlyLists(woken, r) /\ In(r, "ZOMBIE") = In(woken, "ZOMBIE") \ {z}
      /\ \A p \in ListNames \ {"ZOMBIE"} : In(r, p) = In(woken, p)
  BY <1>0, <1>6, Removed
<1> HIDE DEF r
<1>8. /\ r \in Memories /\ Good(r.lists) /\ ~r.exit /\ r.served = k.served /\ r.got = k.got
      /\ r.info = [k.info EXCEPT ![b] =
                     [state |-> "RUNNABLE", joined_target |-> NULL, errno |-> "SUCCESS"]]
  BY <1>1, <1>2, <1>7 DEF Awakened, OnlyLists
<1>9. /\ In(r, "RUNNABLE") = In(k, "RUNNABLE") \cup {b}
      /\ In(r, "BLOCKED") = In(k, "BLOCKED") \ {b}
      /\ In(r, "ZOMBIE") = In(k, "ZOMBIE") \ {b, z}
  BY <1>0, <1>2, <1>7 DEF Awakened
<1>10. /\ g.lists = r.lists /\ g.info = [r.info EXCEPT ![z].state = "DEAD"]
       /\ g.exit = (r.exit \/ k.info[z].state # "ZOMBIE")
       /\ g.served = [r.served EXCEPT ![z] = @ + 1] /\ g.got = [r.got EXCEPT ![z] = @ + 1]
  BY <1>5, <1>8 DEF Memories
<1>11. g = [lists |-> g.lists, info |-> g.info, exit |-> g.exit, served |-> g.served, got |-> g.got]
  BY <1>5, <1>8 DEF Memories
<1>12. /\ g.lists \in Links /\ g.exit \in BOOLEAN /\ ~g.exit
       /\ g.served \in [Tids -> Nat] /\ g.got \in [Tids -> Nat]
  BY <1>3, <1>4, <1>8, <1>10 DEF Memories
<1>13. g.info \in [Tids -> Info]
  <2>1. r.info \in [Tids -> Info] /\ "DEAD" \in ThreadState
    BY <1>8 DEF Memories, ThreadState
  <2>2. [r.info[z] EXCEPT !.state = "DEAD"] \in Info
    BY <1>3, <2>1 DEF Info
  <2> QED BY <1>10, <2>1, <2>2
<1>14. g \in Memories
  BY <1>11, <1>12, <1>13 DEF Memories
<1>15. /\ \A t \in Tids \ {b, z} : g.info[t] = k.info[t]
       /\ g.info[b].state = "RUNNABLE" /\ g.info[b].errno = "SUCCESS"
       /\ g.info[z].state = "DEAD"
  <2>1. k.info \in [Tids -> Info] /\ r.info \in [Tids -> Info]
    BY <1>1, <1>8 DEF Memories
  <2>2. g.info[z] = [r.info[z] EXCEPT !.state = "DEAD"] /\ \A t \in Tids \ {z} : g.info[t] = r.info[t]
    BY <1>3, <1>10, <2>1
  <2>3. g.info[z].state = "DEAD"
    BY <1>3, <2>1, <2>2 DEF Info
  <2>4. r.info[b].state = "RUNNABLE" /\ r.info[b].errno = "SUCCESS"
    BY <1>3, <1>8, <2>1
  <2>5. \A t \in Tids \ {b} : r.info[t] = k.info[t]
    BY <1>8, <2>1
  <2> QED BY <1>3, <1>4, <2>2, <2>3, <2>4, <2>5
<1>16. /\ In(g, "RUNNABLE") = In(k, "RUNNABLE") \cup {b}
       /\ In(g, "BLOCKED") = In(k, "BLOCKED") \ {b}
       /\ In(g, "ZOMBIE") = In(k, "ZOMBIE") \ {b, z}
  BY <1>9, <1>10 DEF In
<1>17. Fits(g, x)
  BY <1>1, <1>3, <1>4, <1>15, <1>16 DEF Fits
<1>18. \A u \in Tids :
         /\ g.got[u] = IF u = z THEN k.got[u] + 1 ELSE k.got[u]
         /\ g.served[u] = IF u = z THEN k.served[u] + 1 ELSE k.served[u]
  BY <1>1, <1>8, <1>10 DEF Memories
<1> QED BY <1>4, <1>8, <1>10, <1>12, <1>14, <1>15, <1>16, <1>17, <1>18 DEF Sound, Collected

-----------------------------------------------------------------------------
(* The traversal of BLOCKED. *)

(* a and b are the places in w of the first two threads that join c, if there
   are so many. *)
FirstTwo(k, c, w, a, b) ==
  /\ a \in Nat \ {0} /\ b \in Nat /\ a < b
  /\ \A i \in 1 .. Len(w) : i < b => (k.info[w[i]].joined_target = c <=> i = a)
  /\ b <= Len(w) => k.info[w[b]].joined_target = c

LEMMA FirstTwoExist ==
  ASSUME NEW k, NEW c, NEW w, Len(w) \in Nat
  PROVE  \E a, b \in Nat : FirstTwo(k, c, w, a, b)
<1> DEFINE L == Len(w)
           J == {i \in 1 .. L : k.info[w[i]].joined_target = c}
<1>1. J \subseteq 1 .. L /\ \A i \in 1 .. L : i \in J <=> k.info[w[i]].joined_target = c
  OBVIOUS
<1> HIDE DEF J, L
<1>2. L \in Nat
  BY DEF L
<1>3. PICK a \in J \cup {L + 1} : \A i \in J \cup {L + 1} : a <= i
  <2>1. J \cup {L + 1} \subseteq Nat /\ J \cup {L + 1} # {}
    BY <1>1, <1>2
  <2> QED BY <2>1, LeastNumber
<1>4. PICK b \in (J \ {a}) \cup {L + 2} : \A i \in (J \ {a}) \cup {L + 2} : b <= i
  <2>1. (J \ {a}) \cup {L + 2} \subseteq Nat /\ (J \ {a}) \cup {L + 2} # {}
    BY <1>1, <1>2
  <2> QED BY <2>1, LeastNumber
<1>5. a \in Nat \ {0} /\ b \in Nat /\ a <= L + 1 /\ b <= L + 2
  BY <1>1, <1>2, <1>3, <1>4
<1>6. a < b
  BY <1>1, <1>2, <1>3, <1>4, <1>5
<1>7. ASSUME NEW i \in 1 .. L, i < b PROVE k.info[w[i]].joined_target = c <=> i = a
  <2>1. i \in J => i = a
    BY <1>2, <1>4, <1>5, <1>7
  <2>2. i = a => i \in J
    BY <1>2, <1>3, <1>7
  <2> QED BY <1>1, <2>1, <2>2
<1>8. b <= L => k.info[w[b]].joined_target = c
  BY <1>1, <1>2, <1>4, <1>5
<1> QED BY <1>5, <1>6, <1>7, <1>8 DEF FirstTwo, L

(* The first joiner is kept for the end; when the second is found, the
   traversal goes on at the tail of RUNNABLE, and ends. *)
LEMMA EndsIs ==
  ASSUME NEW k, Sound(k, NULL), NEW c, NEW w, w = Walk(k.lists, "BLOCKED"),
         Chain(k.lists, "BLOCKED", w), NEW a \in Nat, NEW b \in Nat, FirstTwo(k, c, w, a, b),
         NEW k2, k2 = IF b <= Len(w) THEN unblock_thread(k, w[b], NULL) ELSE k
  PROVE  Ends(k, c) = IF At(w, a) = NULL THEN k2 ELSE unblock_thread(k2, At(w, a), c)
<1> DEFINE N == Cardinality(Tids)
           L == Len(w)
           visit(r) ==
             IF r.bl = NULL THEN r
             ELSE LET joins == r.k.info[r.bl].joined_target = c
                      k3 == IF joins /\ r.joined # NULL THEN unblock_thread(r.k, r.bl, NULL)
                                                        ELSE r.k
                  IN  [k |-> k3, bl |-> k3.lists.next[r.bl],
                       joined |-> IF joins /\ r.joined = NULL THEN r.bl ELSE r.joined]
           F(f, n) == IF n = 0 THEN [k |-> k, bl |-> k.lists.head["BLOCKED"], joined |-> NULL]
                      ELSE visit(f[n - 1])
           S(n) == IF n < b THEN [k |-> k, bl |-> At(w, n + 1),
                                  joined |-> IF n >= a THEN At(w, a) ELSE NULL]
                   ELSE [k |-> k2, bl |-> NULL, joined |-> At(w, a)]
           g == [n \in 0 .. N |-> S(n)]
           scan == CHOOSE f : f = [n \in 0 .. N |-> F(f, n)]
<1>1. /\ L \in Nat /\ N \in Nat /\ L <= N /\ NULL \notin Tids
      /\ \A i \in 1 .. L : w[i] \in Tids /\ w[i] # NULL
  BY ThreadingBound, ThreadsAssumption, SMTT(30) DEF Chain, Threading
<1>2. /\ a \in Nat \ {0} /\ b \in Nat /\ a < b
      /\ \A i \in 1 .. L : i < b => (k.info[w[i]].joined_target = c <=> i = a)
      /\ b <= L => k.info[w[b]].joined_target = c
  BY DEF FirstTwo
<1>3. /\ k.lists.head["BLOCKED"] = At(w, 1)
      /\ \A i \in 1 .. L : k.lists.next[w[i]] = At(w, i + 1)
  BY DEF Chain
<1>4. b <= L => k2 = unblock_thread(k, w[b], NULL) /\ k2.lists.next[w[b]] = NULL
  <2> SUFFICES ASSUME b <= L PROVE k2 = unblock_thread(k, w[b], NULL) /\ k2.lists.next[w[b]] = NULL
    OBVIOUS
  <2>1. w[b] \in In(k, "BLOCKED")
    <3>1. b \in 1 .. L
      BY <1>2
    <3>2. In(k, "BLOCKED") = Elems(w)
      <4>1. k.lists \in LinkTypes /\ "BLOCKED" \in ListNames
        BY SoundLists DEF ListNames
      <4> QED BY <4>1, WalkIs DEF In
    <3> QED BY <3>1, <3>2 DEF Elems
  <2>2. k2 = unblock_thread(k, w[b], NULL)
    OBVIOUS
  <2> QED BY <2>1, <2>2, UnblockFails DEF Failed
<1>5. b > L => k2 = k
  BY <1>1
<1> HIDE DEF N, L
<1>6. \A i \in Nat : i \notin 1 .. L => At(w, i) = NULL
  BY DEF At, L
<1>7. \A i \in 1 .. L : At(w, i) = w[i]
  BY DEF At, L
<1>8. ASSUME NEW n \in Nat, n # 0 PROVE S(n) = visit(S(n - 1))
  <2>1. n - 1 \in Nat /\ n - 1 + 1 = n
    BY <1>8
  <2>2. CASE n - 1 >= b
    <3>1. n >= b
      BY <2>1, <2>2
    <3>2. S(n - 1) = [k |-> k2, bl |-> NULL, joined |-> At(w, a)]
      BY <2>1, <2>2
    <3>3. S(n) = [k |-> k2, bl |-> NULL, joined |-> At(w, a)]
      BY <3>1
    <3> QED BY <3>2, <3>3
  <2>3. CASE n - 1 < b
    <3>1. S(n - 1) = [k |-> k, bl |-> At(w, n), joined |-> IF n - 1 >= a THEN At(w, a) ELSE NULL]
      BY <2>1, <2>3
    <3>2. CASE n > L
      <4>1. At(w, n) = NULL /\ At(w, n + 1) = NULL
        BY <1>1, <1>6, <3>2
      <4>2. visit(S(n - 1)) = [k |-> k, bl |-> NULL, joined |-> IF n - 1 >= a THEN At(w, a) ELSE NULL]
        BY <3>1, <4>1
      <4>3. n = a => At(w, a) = NULL
        BY <4>1
      <4>4. CASE n < b
        <5>1. S(n) = [k |-> k, bl |-> NULL, joined |-> IF n >= a THEN At(w, a) ELSE NULL]
          BY <4>1, <4>4
        <5>2. (n >= a <=> n - 1 >= a) \/ n = a
          BY <1>2
        <5> HIDE DEF S, visit
        <5> QED BY <1>2, <4>2, <4>3, <5>1, <5>2
      <4>5. CASE n >= b
        <5>1. b > L /\ n - 1 >= a
          BY <1>1, <1>2, <2>3, <3>2, <4>5
        <5>2. S(n) = [k |-> k, bl |-> NULL, joined |-> At(w, a)]
          BY <1>5, <4>5, <5>1
        <5> HIDE DEF S, visit
        <5> QED BY <4>2, <5>1, <5>2
      <4>6. n < b \/ n >= b
        BY <1>2
      <4> HIDE DEF S, visit
      <4> QED BY <4>4, <4>5, <4>6
    <3>3. CASE n <= L
      <4>1. n \in 1 .. L /\ At(w, n) = w[n] /\ w[n] # NULL /\ k.lists.next[w[n]] = At(w, n + 1)
        BY <1>1, <1>3, <1>7, <1>8, <3>3
      <4>2. CASE n < b
        <5>1. k.info[w[n]].joined_target = c <=> n = a
          BY <1>2, <4>1, <4>2
        <5>2. S(n) = [k |-> k, bl |-> At(w, n + 1), joined |-> IF n >= a THEN At(w, a) ELSE NULL]
          BY <4>2
        <5>3. CASE n = a
          <6>1. ~(n - 1 >= a) /\ n >= a
            BY <5>3
          <6>2. S(n - 1) = [k |-> k, bl |-> w[n], joined |-> NULL]
            BY <3>1, <4>1, <6>1
          <6>3. S(n) = [k |-> k, bl |-> At(w, n + 1), joined |-> w[n]]
            BY <4>1, <5>2, <5>3, <6>1
          <6> HIDE DEF S
          <6> QED BY <4>1, <5>1, <5>3, <6>2, <6>3, SMTT(30)
        <5>4. CASE n # a
          <6> DEFINE j == IF n >= a THEN At(w, a) ELSE NULL
          <6>1. n - 1 >= a <=> n >= a
            BY <1>2, <5>4
          <6>2. S(n - 1) = [k |-> k, bl |-> w[n], joined |-> j]
            BY <3>1, <4>1, <6>1
          <6>3. S(n) = [k |-> k, bl |-> At(w, n + 1), joined |-> j]
            BY <5>2
          <6> HIDE DEF S, j
          <6> QED BY <4>1, <5>1, <5>4, <6>2, <6>3, SMTT(30)
        <5> QED BY <5>3, <5>4
      <4>3. CASE n >= b
        <5>1. n = b /\ n - 1 >= a /\ a \in 1 .. L
          BY <1>1, <1>2, <2>3, <3>3, <4>3
        <5>2. At(w, a) = w[a] /\ w[a] # NULL
          BY <1>1, <1>7, <5>1
        <5>3. S(n - 1) = [k |-> k, bl |-> w[n], joined |-> w[a]]
          BY <3>1, <4>1, <5>1, <5>2
        <5>4. S(n) = [k |-> k2, bl |-> NULL, joined |-> w[a]]
          BY <4>3, <5>2
        <5>5. k2 = unblock_thread(k, w[n], NULL) /\ k2.lists.next[w[n]] = NULL
          BY <1>4, <3>3, <5>1
        <5>6. k.info[w[n]].joined_target = c
          BY <1>2, <3>3, <5>1
        <5> HIDE DEF S
        <5> QED BY <4>1, <5>2, <5>3, <5>4, <5>5, <5>6, SMTT(30)
      <4>4. n < b \/ n >= b
        BY <1>2
      <4> HIDE DEF S, visit
      <4> QED BY <4>2, <4>3, <4>4
    <3>4. n > L \/ n <= L
      BY <1>1
    <3> HIDE DEF S, visit
    <3> QED BY <3>2, <3>3, <3>4
  <2>4. n - 1 >= b \/ n - 1 < b
    BY <1>2, <2>1
  <2> HIDE DEF S, visit
  <2> QED BY <2>2, <2>3, <2>4
<1>9. S(0) = [k |-> k, bl |-> k.lists.head["BLOCKED"], joined |-> NULL]
  BY <1>2, <1>3
<1> HIDE DEF S, visit
<1>10. ASSUME NEW n \in 0 .. N PROVE g[n] = F(g, n)
  <2>1. n # 0 => n - 1 \in 0 .. N
    BY <1>1
  <2> QED BY <1>8, <1>9, <2>1
<1>11. g = [n \in 0 .. N |-> F(g, n)]
  BY <1>10
<1>12. scan = [n \in 0 .. N |-> F(scan, n)]
  <2> HIDE DEF g, F
  <2> QED BY <1>11
<1>13. ASSUME NEW n \in 0 .. N PROVE scan[n] = S(n)
  <2> DEFINE T == {j \in 0 .. N : scan[j] # S(j)}
  <2> SUFFICES ASSUME T # {} PROVE FALSE
    OBVIOUS
  <2>1. PICK j \in T : \A i \in T : j <= i
    <3>1. T \subseteq Nat
      OBVIOUS
    <3> HIDE DEF T
    <3> QED BY <3>1, LeastNumber
  <2> HIDE DEF scan
  <2>2. j \in 0 .. N /\ scan[j] # S(j) /\ scan[j] = F(scan, j)
    BY <1>12, <2>1
  <2>3. j # 0
    BY <1>9, <2>2
  <2>4. j - 1 \in 0 .. N /\ ~(j <= j - 1) /\ j \in Nat
    BY <1>1, <2>2, <2>3
  <2>5. scan[j - 1] = S(j - 1)
    BY <2>1, <2>4
  <2>6. scan[j] = visit(S(j - 1))
    BY <2>2, <2>3, <2>5
  <2> QED BY <1>8, <2>2, <2>3, <2>4, <2>6
<1>14. Ends(k, c) = IF scan[N].joined = NULL THEN scan[N].k
                    ELSE unblock_thread(scan[N].k, scan[N].joined, c)
  BY DEF Ends, visit, N
<1> HIDE DEF scan, F, g
<1>15. S(N).joined = At(w, a) /\ S(N).k = k2
  <2>1. CASE N < b
    <3>1. b > L
      BY <1>1, <1>2, <2>1
    <3>2. S(N) = [k |-> k, bl |-> At(w, N + 1), joined |-> IF N >= a THEN At(w, a) ELSE NULL]
      BY <2>1 DEF S
    <3>3. ~(N >= a) => At(w, a) = NULL
      <4>1. ~(N >= a) => a \notin 1 .. L
        BY <1>1, <1>2
      <4> QED BY <1>2, <1>6, <4>1
    <3> QED BY <1>5, <3>1, <3>2, <3>3
  <2>2. CASE ~(N < b)
    BY <2>2 DEF S
  <2> QED BY <2>1, <2>2
<1>16. scan[N] = S(N)
  BY <1>1, <1>13
<1> QED BY <1>14, <1>15, <1>16

-----------------------------------------------------------------------------
(* What the joins rest on. *)

(* A thread is waited for in vain only after it has answered twice. *)
Waits(k, x, t) ==
  LET u == k.info[t].joined_target
  IN  /\ u \in Tids
      /\ k.info[u].state \in {"RUNNING", "RUNNABLE", "BLOCKED"} \/ u = x \/ k.served[u] >= 2

(* The value of a thread that has ended has been handed out once, when it is
   dead or freed, and not before; cr are the threads that have been created. *)
Told(k, cr) ==
  \A u \in Tids :
    LET st == k.info[u].state
    IN  /\ k.got[u] = IF st = "DEAD" \/ (st = "FREE" /\ u \in cr) THEN 1 ELSE 0
        /\ u \notin cr => st = "FREE"

(* How the joins have ended on the way from k to g. *)
Outcome(k, cr, g) ==
  \A t \in Tids :
    k.info[t].state = "BLOCKED" /\ g.info[t].state \in {"RUNNABLE", "RUNNING"} =>
      LET u == k.info[t].joined_target
      IN  IF g.info[t].errno = "SUCCESS"
          THEN u \in Tids /\ k.info[u].state = "ZOMBIE" /\ k.got[u] = 0 /\ g.got[u] = 1
          ELSE u \notin cr \/ g.got[u] = 1

(* The calls of unblock_thread keep that. *)
LEMMA FailedKeeps ==
  ASSUME NEW k, Sound(k, NULL), NEW cr, Told(k, cr), NEW b \in In(k, "BLOCKED"),
         NEW g, Failed(k, b, g)
  PROVE  /\ Told(g, cr)
         /\ \A x, t : t \in In(g, "BLOCKED") /\ Waits(k, x, t) => Waits(g, x, t)
         /\ b \in Tids /\ k.info[b].state = "BLOCKED"
<1>1. /\ k \in Memories /\ b \in Tids /\ k.info[b].state = "BLOCKED"
      /\ In(k, "BLOCKED") \subseteq Tids /\ k.served \in [Tids -> Nat]
  <2>1. In(k, "BLOCKED") \subseteq Tids
    BY GoodFacts DEF Sound, In, ListNames
  <2> QED BY <2>1 DEF Sound, Fits, Memories
<1>2. Told(g, cr)
  BY <1>1 DEF Failed, Told
<1>3. ASSUME NEW x, NEW t, t \in In(g, "BLOCKED"), Waits(k, x, t) PROVE Waits(g, x, t)
  <2> DEFINE u == k.info[t].joined_target
  <2>1. t \in Tids \ {b} /\ g.info[t] = k.info[t]
    BY <1>1, <1>3 DEF Failed
  <2>2. u \in Tids /\ (k.info[u].state \in {"RUNNING", "RUNNABLE", "BLOCKED"} \/ u = x \/ k.served[u] >= 2)
    BY <1>3 DEF Waits
  <2>3. g.info[t].joined_target = u
    BY <2>1
  <2> HIDE DEF u
  <2>4. k.info[u].state \in {"RUNNING", "RUNNABLE", "BLOCKED"} =>
          g.info[u].state \in {"RUNNING", "RUNNABLE", "BLOCKED"}
    BY <2>2 DEF Failed
  <2>5. k.served[u] >= 2 => g.served[u] >= 2
    <3>1. k.served[u] \in Nat
      BY <1>1, <2>2
    <3>2. g.served[u] = k.served[u] + 1 \/ g.served[u] = k.served[u]
      BY <2>2 DEF Failed
    <3> QED BY <3>1, <3>2
  <2> QED BY <2>2, <2>3, <2>4, <2>5 DEF Waits
<1> QED BY <1>1, <1>2, <1>3

LEMMA CollectedKeeps ==
  ASSUME NEW k, Sound(k, NULL), NEW cr, Told(k, cr), NEW b \in In(k, "BLOCKED"),
         NEW z \in In(k, "ZOMBIE"), NEW g, Collected(k, b, z, g)
  PROVE  /\ Told(g, cr) /\ g.got[z] = 1 /\ k.got[z] = 0
         /\ \A x, t : t \in In(g, "BLOCKED") /\ Waits(k, x, t)
                      /\ (k.info[t].joined_target = x => g.served[x] >= 2) => Waits(g, NULL, t)
         /\ b \in Tids /\ z \in Tids /\ b # z /\ k.info[b].state = "BLOCKED"
<1>1. /\ k \in Memories /\ b \in Tids /\ k.info[b].state = "BLOCKED"
      /\ In(k, "BLOCKED") \subseteq Tids /\ k.served \in [Tids -> Nat]
      /\ z \in Tids /\ k.info[z].state = "ZOMBIE" /\ b # z
  <2>1. In(k, "BLOCKED") \subseteq Tids /\ In(k, "ZOMBIE") \subseteq Tids
    BY GoodFacts DEF Sound, In, ListNames
  <2> QED BY <2>1 DEF Sound, Fits, Memories
<1>2. Told(g, cr) /\ g.got[z] = 1 /\ k.got[z] = 0
  <2>1. k.got[z] = 0 /\ z \in cr
    BY <1>1 DEF Told
  <2>2. g.got[z] = 1
    BY <1>1, <2>1 DEF Collected
  <2>3. ASSUME NEW u \in Tids
        PROVE  /\ g.got[u] = IF g.info[u].state = "DEAD" \/ (g.info[u].state = "FREE" /\ u \in cr) THEN 1 ELSE 0
               /\ u \notin cr => g.info[u].state = "FREE"
    <3>1. CASE u = z
      BY <1>1, <2>1, <2>2, <3>1 DEF Collected
    <3>2. CASE u = b
      BY <1>1, <3>2 DEF Collected, Told
    <3>3. CASE u \notin {b, z}
      BY <1>1, <3>3 DEF Collected, Told
    <3> QED BY <3>1, <3>2, <3>3
  <2> QED BY <2>1, <2>2, <2>3 DEF Told
<1>3. ASSUME NEW x, NEW t, t \in In(g, "BLOCKED"), Waits(k, x, t),
             k.info[t].joined_target = x => g.served[x] >= 2
      PROVE  Waits(g, NULL, t)
  <2> DEFINE u == k.info[t].joined_target
  <2>1. t \in In(k, "BLOCKED") /\ t # b
    BY <1>3 DEF Collected
  <2>2. t \in Tids \ {b, z} /\ g.info[t] = k.info[t]
    <3>1. t # z
      BY <1>1, <2>1 DEF Sound, Fits
    <3> QED BY <1>1, <2>1, <3>1 DEF Collected
  <2>3. u \in Tids /\ (k.info[u].state \in {"RUNNING", "RUNNABLE", "BLOCKED"} \/ u = x \/ k.served[u] >= 2)
    BY <1>3 DEF Waits
  <2>4. g.info[t].joined_target = u
    BY <2>2
  <2> HIDE DEF u
  <2>5. k.info[u].state \in {"RUNNING", "RUNNABLE", "BLOCKED"} =>
          g.info[u].state \in {"RUNNING", "RUNNABLE", "BLOCKED"}
    <3> SUFFICES ASSUME k.info[u].state \in {"RUNNING", "RUNNABLE", "BLOCKED"}
                 PROVE  g.info[u].state \in {"RUNNING", "RUNNABLE", "BLOCKED"}
      OBVIOUS
    <3>1. u # z
      BY <1>1
    <3> QED BY <2>3, <3>1 DEF Collected
  <2>6. k.served[u] >= 2 => g.served[u] >= 2
    <3>1. k.served[u] \in Nat
      BY <1>1, <2>3
    <3>2. g.served[u] = k.served[u] + 1 \/ g.served[u] = k.served[u]
      BY <2>3 DEF Collected
    <3> QED BY <3>1, <3>2
  <2>7. u = x => g.served[u] >= 2
    BY <1>3 DEF u
  <2> QED BY <2>3, <2>4, <2>5, <2>6, <2>7 DEF Waits
<1> QED BY <1>1, <1>2, <1>3

-----------------------------------------------------------------------------
(* The thread that has left the processor. *)

Calm(k, cr) ==
  Sound(k, NULL) /\ Told(k, cr) /\ \A t \in In(k, "BLOCKED") : Waits(k, NULL, t)

LEMMA FailedOutcome ==
  ASSUME NEW k, NEW cr, NEW b \in Tids, NEW g, Failed(k, b, g),
         k.info[b].joined_target \notin cr \/ k.got[k.info[b].joined_target] = 1
  PROVE  Outcome(k, cr, g)
<1> SUFFICES ASSUME NEW t \in Tids, k.info[t].state = "BLOCKED",
                    g.info[t].state \in {"RUNNABLE", "RUNNING"}
             PROVE  LET u == k.info[t].joined_target
                    IN  IF g.info[t].errno = "SUCCESS"
                        THEN u \in Tids /\ k.info[u].state = "ZOMBIE" /\ k.got[u] = 0 /\ g.got[u] = 1
                        ELSE u \notin cr \/ g.got[u] = 1
  BY DEF Outcome
<1>1. t = b
  BY DEF Failed
<1> QED BY <1>1 DEF Failed

LEMMA BlocksKeeps ==
  ASSUME NEW k, NEW cr, cr \subseteq Tids, Sound(k, NULL), Told(k, cr), NEW c \in In(k, "BLOCKED"),
         \A t \in In(k, "BLOCKED") \ {c} : Waits(k, NULL, t), NEW g, g = Blocks(k, c)
  PROVE  Calm(g, cr) /\ Outcome(k, cr, g)
<1> DEFINE target == k.info[c].joined_target
<1>1. /\ c \in Tids /\ NULL \notin Tids /\ k.info[c].state = "BLOCKED"
      /\ In(k, "BLOCKED") \subseteq Tids /\ target \in Tids \cup {NULL}
  <2>1. c \in Tids /\ NULL \notin Tids /\ In(k, "BLOCKED") \subseteq Tids
    BY GoodFacts, ThreadsAssumption DEF Sound, In, ListNames
  <2> QED BY <2>1 DEF Sound, Fits, Memories, Info
<1>2. ASSUME NEW l, target # NULL PROVE Find(k, l, target) # NULL <=> target \in In(k, l)
  BY <1>1, <1>2 DEF Find, thread_list_find, In
<1>3. ASSUME g = unblock_thread(k, c, NULL), target \notin cr \/ k.got[target] = 1
      PROVE  Calm(g, cr) /\ Outcome(k, cr, g)
  <2>1. Sound(g, NULL) /\ Failed(k, c, g)
    BY <1>3, UnblockFails
  <2>2. /\ Told(g, cr)
        /\ \A x, t : t \in In(g, "BLOCKED") /\ Waits(k, x, t) => Waits(g, x, t)
    BY <2>1, FailedKeeps
  <2>3. In(g, "BLOCKED") = In(k, "BLOCKED") \ {c}
    BY <2>1 DEF Failed
  <2>4. Outcome(k, cr, g)
    BY <1>1, <1>3, <2>1, FailedOutcome
  <2> QED BY <2>1, <2>2, <2>3, <2>4 DEF Calm
<1>4. ASSUME g = k, Waits(k, NULL, c) PROVE Calm(g, cr) /\ Outcome(k, cr, g)
  BY <1>4 DEF Calm, Outcome
<1>5. CASE target = NULL
  <2>1. g = unblock_thread(k, c, NULL)
    BY <1>5 DEF Blocks
  <2> QED BY <1>1, <1>3, <1>5, <2>1
<1>6. CASE target # NULL /\ target \in In(k, "ZOMBIE")
  <2>1. g = unblock_thread(k, c, target)
    BY <1>2, <1>6 DEF Blocks
  <2>2. Sound(g, NULL) /\ Collected(k, c, target, g)
    BY <1>6, <2>1, UnblockCollects
  <2>3. /\ Told(g, cr) /\ g.got[target] = 1 /\ k.got[target] = 0 /\ target \in Tids
        /\ \A x, t : t \in In(g, "BLOCKED") /\ Waits(k, x, t)
                     /\ (k.info[t].joined_target = x => g.served[x] >= 2) => Waits(g, NULL, t)
    BY <1>6, <2>2, CollectedKeeps
  <2>4. ASSUME NEW t \in In(g, "BLOCKED") PROVE Waits(g, NULL, t)
    <3>1. t \in In(k, "BLOCKED") \ {c}
      BY <2>2 DEF Collected
    <3>2. Waits(k, NULL, t)
      BY <3>1
    <3>3. k.info[t].joined_target # NULL
      BY <1>1, <3>2 DEF Waits
    <3> QED BY <2>3, <3>2, <3>3
  <2>5. Outcome(k, cr, g)
    <3> SUFFICES ASSUME NEW t \in Tids, k.info[t].state = "BLOCKED",
                        g.info[t].state \in {"RUNNABLE", "RUNNING"}
                 PROVE  LET u == k.info[t].joined_target
                        IN  IF g.info[t].errno = "SUCCESS"
                            THEN u \in Tids /\ k.info[u].state = "ZOMBIE" /\ k.got[u] = 0 /\ g.got[u] = 1
                            ELSE u \notin cr \/ g.got[u] = 1
      BY DEF Outcome
    <3>1. t = c
      <4>1. t = target => g.info[t].state = "DEAD"
        BY <2>2 DEF Collected
      <4> QED BY <2>2, <4>1 DEF Collected
    <3> QED BY <2>2, <2>3, <3>1 DEF Collected
  <2> QED BY <2>2, <2>3, <2>4, <2>5 DEF Calm
<1>7. CASE target # NULL /\ target \notin In(k, "ZOMBIE") /\ target \in In(k, "BLOCKED") \cup In(k, "RUNNABLE")
  <2>1. g = k
    BY <1>2, <1>7 DEF Blocks
  <2>2. target \in Tids /\ k.info[target].state \in {"RUNNING", "RUNNABLE", "BLOCKED"}
    BY <1>1, <1>7 DEF Sound, Fits
  <2>3. Waits(k, NULL, c)
    BY <2>2 DEF Waits
  <2> QED BY <1>4, <2>1, <2>3
<1>8. CASE target # NULL /\ target \notin In(k, "ZOMBIE") \cup In(k, "BLOCKED") \cup In(k, "RUNNABLE")
  <2>1. g = unblock_thread(k, c, NULL)
    BY <1>2, <1>8 DEF Blocks
  <2>2. target \in Tids /\ k.info[target].state \in {"FREE", "DEAD"}
    <3>1. target \in Tids
      BY <1>1, <1>8
    <3>2. k.info[target].state \notin {"RUNNING", "RUNNABLE", "BLOCKED", "ZOMBIE"}
      BY <1>1, <1>8, <3>1 DEF Sound, Fits
    <3>3. k.info[target].state \in ThreadState
      BY <3>1 DEF Sound, Memories, Info
    <3> QED BY <3>1, <3>2, <3>3 DEF ThreadState
  <2>3. target \notin cr \/ k.got[target] = 1
    BY <2>2 DEF Told
  <2> QED BY <1>3, <2>1, <2>3
<1> HIDE DEF target
<1> QED BY <1>5, <1>6, <1>7, <1>8

(* One joiner gets the value; when there is another, two have been answered. *)
LEMMA AnswersOne ==
  ASSUME NEW k, NEW cr, Sound(k, NULL), Told(k, cr), NEW c \in In(k, "ZOMBIE"),
         NEW j \in In(k, "BLOCKED"), k.info[j].joined_target = c,
         \A t \in In(k, "BLOCKED") : Waits(k, c, t),
         \A t \in In(k, "BLOCKED") \ {j} : k.info[t].joined_target # c,
         NEW g, g = unblock_thread(k, j, c)
  PROVE  Calm(g, cr) /\ Outcome(k, cr, g)
<1>1. Sound(g, NULL) /\ Collected(k, j, c, g)
  BY UnblockCollects
<1>2. /\ Told(g, cr) /\ g.got[c] = 1 /\ k.got[c] = 0 /\ j \in Tids /\ c \in Tids
      /\ \A x, t : t \in In(g, "BLOCKED") /\ Waits(k, x, t)
                   /\ (k.info[t].joined_target = x => g.served[x] >= 2) => Waits(g, NULL, t)
  BY <1>1, CollectedKeeps
<1>3. ASSUME NEW t \in In(g, "BLOCKED") PROVE Waits(g, NULL, t)
  <2>1. t \in In(k, "BLOCKED") \ {j}
    BY <1>1 DEF Collected
  <2>2. Waits(k, c, t) /\ k.info[t].joined_target # c
    BY <2>1
  <2> QED BY <1>2, <2>2
<1>4. Outcome(k, cr, g)
  <2> SUFFICES ASSUME NEW t \in Tids, k.info[t].state = "BLOCKED",
                      g.info[t].state \in {"RUNNABLE", "RUNNING"}
               PROVE  LET u == k.info[t].joined_target
                      IN  IF g.info[t].errno = "SUCCESS"
                          THEN u \in Tids /\ k.info[u].state = "ZOMBIE" /\ k.got[u] = 0 /\ g.got[u] = 1
                          ELSE u \notin cr \/ g.got[u] = 1
    BY DEF Outcome
  <2>1. t = j
    BY <1>1 DEF Collected
  <2> QED BY <1>1, <1>2, <2>1 DEF Collected
<1> QED BY <1>1, <1>2, <1>3, <1>4 DEF Calm

LEMMA AnswersTwo ==
  ASSUME NEW k, NEW cr, Sound(k, NULL), Told(k, cr), NEW c \in In(k, "ZOMBIE"),
         NEW j \in In(k, "BLOCKED"), k.info[j].joined_target = c,
         NEW o \in In(k, "BLOCKED"), k.info[o].joined_target = c, o # j,
         \A t \in In(k, "BLOCKED") : Waits(k, c, t),
         NEW k2, k2 = unblock_thread(k, o, NULL), NEW g, g = unblock_thread(k2, j, c)
  PROVE  Calm(g, cr) /\ Outcome(k, cr, g)
<1>1. Sound(k2, NULL) /\ Failed(k, o, k2)
  BY UnblockFails
<1>2. /\ Told(k2, cr) /\ o \in Tids /\ k.info[o].state = "BLOCKED"
      /\ \A x, t : t \in In(k2, "BLOCKED") /\ Waits(k, x, t) => Waits(k2, x, t)
  BY <1>1, FailedKeeps
<1>3. c \in Tids /\ k.info[c].state = "ZOMBIE" /\ c # NULL /\ c # o
  <2>1. c \in Tids
    BY GoodFacts DEF Sound, In, ListNames
  <2> QED BY <1>2, <2>1, ThreadsAssumption DEF Sound, Fits
<1>4. c \in In(k2, "ZOMBIE") /\ j \in In(k2, "BLOCKED")
  <2>1. k2.info[c].state = "ZOMBIE"
    BY <1>1, <1>3 DEF Failed
  <2> QED BY <1>1, <1>3, <2>1 DEF Sound, Fits, Failed
<1>5. Sound(g, NULL) /\ Collected(k2, j, c, g)
  BY <1>1, <1>4, UnblockCollects
<1>6. /\ Told(g, cr) /\ g.got[c] = 1 /\ k2.got[c] = 0 /\ j \in Tids
      /\ \A x, t : t \in In(g, "BLOCKED") /\ Waits(k2, x, t)
                   /\ (k2.info[t].joined_target = x => g.served[x] >= 2) => Waits(g, NULL, t)
  BY <1>1, <1>2, <1>4, <1>5, CollectedKeeps
<1>7. g.served[c] >= 2
  <2>1. k.served[c] \in Nat
    BY <1>3 DEF Sound, Memories
  <2>2. k2.served[c] = k.served[c] + 1
    BY <1>1, <1>3 DEF Failed
  <2>3. g.served[c] = k2.served[c] + 1
    BY <1>3, <1>5 DEF Collected
  <2> QED BY <2>1, <2>2, <2>3
<1>8. ASSUME NEW t \in In(g, "BLOCKED") PROVE Waits(g, NULL, t)
  <2>1. t \in In(k2, "BLOCKED")
    BY <1>5 DEF Collected
  <2>2. t \in In(k, "BLOCKED")
    BY <1>1, <2>1 DEF Failed
  <2>3. Waits(k2, c, t)
    BY <1>2, <2>1, <2>2
  <2> QED BY <1>6, <1>7, <2>3
<1>9. Outcome(k, cr, g)
  <2> SUFFICES ASSUME NEW t \in Tids, k.info[t].state = "BLOCKED",
                      g.info[t].state \in {"RUNNABLE", "RUNNING"}
               PROVE  LET u == k.info[t].joined_target
                      IN  IF g.info[t].errno = "SUCCESS"
                          THEN u \in Tids /\ k.info[u].state = "ZOMBIE" /\ k.got[u] = 0 /\ g.got[u] = 1
                          ELSE u \notin cr \/ g.got[u] = 1
    BY DEF Outcome
  <2>1. t \in {j, o}
    <3>1. t # c
      BY <1>3
    <3>2. t \notin {j, o} => g.info[t] = k.info[t]
      BY <1>1, <1>5, <3>1 DEF Collected, Failed
    <3> QED BY <3>2
  <2>2. k.info[t].joined_target = c
    BY <2>1
  <2>3. k.got[c] = 0
    BY <1>1, <1>6 DEF Failed
  <2> QED BY <1>3, <1>6, <2>2, <2>3
<1> QED BY <1>5, <1>6, <1>8, <1>9 DEF Calm

LEMMA EndsKeeps ==
  ASSUME NEW k, NEW cr, Sound(k, NULL), Told(k, cr), NEW c \in In(k, "ZOMBIE"),
         \A t \in In(k, "BLOCKED") : Waits(k, c, t), NEW g, g = Ends(k, c)
  PROVE  Calm(g, cr) /\ Outcome(k, cr, g)
<1>1. PICK W : Linked(k.lists, W)
  BY DEF Sound, Good
<1> DEFINE w == W["BLOCKED"]
           L == Len(w)
<1>2. w = Walk(k.lists, "BLOCKED") /\ Chain(k.lists, "BLOCKED", w) /\ In(k, "BLOCKED") = Elems(w)
  <2>1. "BLOCKED" \in ListNames
    BY DEF ListNames
  <2>2. Chain(k.lists, "BLOCKED", w)
    BY <1>1, <2>1 DEF Linked
  <2> QED BY <1>1, <2>1, <2>2, LinkedMembers DEF In
<1> HIDE DEF w
<1>3. /\ L \in Nat /\ NULL \notin Tids
      /\ \A i \in 1 .. L : w[i] \in Tids /\ w[i] \in In(k, "BLOCKED")
      /\ \A i, j \in 1 .. L : w[i] = w[j] => i = j
      /\ \A t \in In(k, "BLOCKED") : \E i \in 1 .. L : t = w[i]
  <2>1. Threading(w)
    BY <1>2 DEF Chain
  <2>2. L \in Nat /\ NULL \notin Tids
    BY <2>1, ThreadsAssumption DEF Threading
  <2>3. \A i \in 1 .. L : w[i] \in Tids /\ w[i] \in In(k, "BLOCKED")
    BY <1>2, <2>1 DEF Threading, Elems
  <2>4. \A i, j \in 1 .. L : w[i] = w[j] => i = j
    BY <2>1 DEF Threading
  <2>5. \A t \in In(k, "BLOCKED") : \E i \in 1 .. L : t = w[i]
    BY <1>2 DEF Elems
  <2> QED BY <2>2, <2>3, <2>4, <2>5
<1>4. PICK a, b \in Nat : FirstTwo(k, c, w, a, b)
  BY <1>3, FirstTwoExist
<1> DEFINE k2 == IF b <= L THEN unblock_thread(k, w[b], NULL) ELSE k
<1>5. g = IF At(w, a) = NULL THEN k2 ELSE unblock_thread(k2, At(w, a), c)
  BY <1>2, <1>4, EndsIs
<1>6. /\ a \in Nat \ {0} /\ b \in Nat /\ a < b
      /\ \A i \in 1 .. L : i < b => (k.info[w[i]].joined_target = c <=> i = a)
      /\ b <= L => k.info[w[b]].joined_target = c
  BY <1>4 DEF FirstTwo
<1>7. IF a <= L THEN At(w, a) = w[a] /\ w[a] # NULL ELSE At(w, a) = NULL
  BY <1>3, <1>6 DEF At
<1>8. CASE a > L
  <2>1. g = k
    BY <1>3, <1>5, <1>6, <1>7, <1>8
  <2>2. ASSUME NEW t \in In(k, "BLOCKED") PROVE Waits(k, NULL, t)
    <3>1. PICK i \in 1 .. L : t = w[i]
      BY <1>3
    <3>2. k.info[t].joined_target # c
      BY <1>3, <1>6, <1>8, <3>1
    <3> QED BY <3>2 DEF Waits
  <2> QED BY <2>1, <2>2 DEF Calm, Outcome
<1>9. CASE a <= L /\ b > L
  <2>1. g = unblock_thread(k, w[a], c) /\ a \in 1 .. L
    BY <1>3, <1>5, <1>6, <1>7, <1>9
  <2>2. w[a] \in In(k, "BLOCKED") /\ k.info[w[a]].joined_target = c
    BY <1>3, <1>6, <1>9, <2>1
  <2>3. ASSUME NEW t \in In(k, "BLOCKED") \ {w[a]} PROVE k.info[t].joined_target # c
    <3>1. PICK i \in 1 .. L : t = w[i]
      BY <1>3
    <3>2. i # a /\ i < b
      BY <1>3, <1>6, <1>9, <3>1
    <3> QED BY <1>6, <3>1, <3>2
  <2> QED BY <2>1, <2>2, <2>3, AnswersOne
<1>10. CASE b <= L
  <2>1. k2 = unblock_thread(k, w[b], NULL) /\ g = unblock_thread(k2, w[a], c)
        /\ a \in 1 .. L /\ b \in 1 .. L
    BY <1>3, <1>5, <1>6, <1>7, <1>10
  <2> HIDE DEF k2
  <2>2. /\ w[a] \in In(k, "BLOCKED") /\ k.info[w[a]].joined_target = c
        /\ w[b] \in In(k, "BLOCKED") /\ k.info[w[b]].joined_target = c
        /\ w[a] # w[b]
    BY <1>3, <1>6, <1>10, <2>1
  <2> QED BY <2>1, <2>2, AnswersTwo
<1> QED BY <1>3, <1>6, <1>8, <1>9, <1>10

(* handle_non_runnable, of a thread that is blocked or has ended. *)
LEMMA NonRunnableKeeps ==
  ASSUME NEW k, NEW cr, cr \subseteq Tids, NEW c \in Tids, Sound(k, c), Told(k, cr),
         \A t \in In(k, "BLOCKED") : Waits(k, c, t), k.info[c].state \in {"BLOCKED", "ZOMBIE"},
         NEW g, g = handle_non_runnable(k, c)
  PROVE  Calm(g, cr) /\ Outcome(k, cr, g)
<1> DEFINE st == k.info[c].state
           moved == AddTo(Remove(k, "RUNNABLE", c), st, c)
<1>1. k \in Memories /\ Good(k.lists) /\ ~k.exit /\ Fits(k, c) /\ NULL \notin Tids
  BY ThreadsAssumption DEF Sound
<1>2. c \in In(k, "RUNNABLE") /\ "RUNNABLE" \in ListNames /\ st \in ListNames \ {"RUNNABLE"}
  BY <1>1 DEF Fits, ListNames
<1>3. /\ OnlyLists(k, moved) /\ In(moved, st) = In(k, st) \cup {c}
      /\ \A p \in ListNames \ {st} : In(moved, p) = In(k, p) \ {c}
  <2>1. st \in ListNames
    BY <1>2
  <2> HIDE DEF st
  <2> QED BY <1>1, <1>2, <2>1, Moved
<1>4. g = IF st = "BLOCKED" THEN Blocks(moved, c) ELSE Ends(moved, c)
  BY DEF handle_non_runnable
<1>5. st \in {"BLOCKED", "ZOMBIE"} /\ st = k.info[c].state
  OBVIOUS
<1> HIDE DEF st, moved
<1>6. /\ moved \in Memories /\ Good(moved.lists) /\ moved.info = k.info /\ ~moved.exit
      /\ moved.served = k.served /\ moved.got = k.got
  BY <1>1, <1>3 DEF OnlyLists
<1>7. In(moved, "RUNNABLE") = In(k, "RUNNABLE") \ {c}
  BY <1>2, <1>3
<1>8. In(moved, "BLOCKED") = IF st = "BLOCKED" THEN In(k, "BLOCKED") \cup {c} ELSE In(k, "BLOCKED") \ {c}
  <2>1. "BLOCKED" \in ListNames
    BY DEF ListNames
  <2>2. CASE st = "BLOCKED"
    BY <1>3, <2>2
  <2>3. CASE st # "BLOCKED"
    BY <1>3, <2>1, <2>3
  <2> QED BY <2>2, <2>3
<1>9. In(moved, "ZOMBIE") = IF st = "ZOMBIE" THEN In(k, "ZOMBIE") \cup {c} ELSE In(k, "ZOMBIE") \ {c}
  <2>1. "ZOMBIE" \in ListNames
    BY DEF ListNames
  <2>2. CASE st = "ZOMBIE"
    BY <1>3, <2>2
  <2>3. CASE st # "ZOMBIE"
    BY <1>3, <2>1, <2>3
  <2> QED BY <2>2, <2>3
<1>10. Fits(moved, NULL)
  BY <1>1, <1>5, <1>6, <1>7, <1>8, <1>9 DEF Fits
<1>11. Sound(moved, NULL) /\ Told(moved, cr)
  BY <1>6, <1>10 DEF Sound, Told
<1>12. \A x, t : Waits(k, x, t) => Waits(moved, x, t)
  BY <1>6 DEF Waits
<1>13. CASE st = "BLOCKED"
  <2>1. c \in In(moved, "BLOCKED") /\ g = Blocks(moved, c)
    BY <1>4, <1>8, <1>13
  <2>2. ASSUME NEW t \in In(moved, "BLOCKED") \ {c} PROVE Waits(moved, NULL, t)
    <3>1. Waits(moved, c, t)
      BY <1>8, <1>12, <1>13
    <3>2. moved.info[c].state = "BLOCKED"
      BY <1>5, <1>6, <1>13
    <3> QED BY <3>1, <3>2 DEF Waits
  <2>3. Calm(g, cr) /\ Outcome(moved, cr, g)
    BY <1>11, <2>1, <2>2, BlocksKeeps
  <2> QED BY <1>6, <2>3 DEF Outcome
<1>14. CASE st = "ZOMBIE"
  <2>1. c \in In(moved, "ZOMBIE") /\ g = Ends(moved, c)
    BY <1>4, <1>9, <1>14
  <2>2. \A t \in In(moved, "BLOCKED") : Waits(moved, c, t)
    BY <1>8, <1>12, <1>14
  <2>3. Calm(g, cr) /\ Outcome(moved, cr, g)
    BY <1>11, <2>1, <2>2, EndsKeeps
  <2> QED BY <1>6, <2>3 DEF Outcome
<1> QED BY <1>5, <1>13, <1>14

LEMMA DescheduledKeeps ==
  ASSUME NEW k, NEW cr, NEW c \in Tids, Sound(k, c), Told(k, cr),
         \A t \in In(k, "BLOCKED") : Waits(k, c, t), k.info[c].state = "RUNNING",
         NEW g, g = Descheduled(k, c)
  PROVE  Calm(g, cr) /\ Outcome(k, cr, g)
<1> DEFINE e == IF yield_target[c] = NULL \/ Find(k, "RUNNABLE", yield_target[c]) # NULL
                THEN "SUCCESS" ELSE "ERRINVAL"
           info == [k.info EXCEPT ![c].state = "RUNNABLE", ![c].errno = e]
           r == [k EXCEPT !.info = info]
<1>1. k \in Memories /\ Good(k.lists) /\ ~k.exit /\ Fits(k, c) /\ NULL \notin Tids
  BY ThreadsAssumption DEF Sound
<1>2. g = AddTo(Remove(r, "RUNNABLE", c), "RUNNABLE", c)
  BY DEF Descheduled
<1>3. e \in {"SUCCESS", "ERRINVAL"}
  OBVIOUS
<1> HIDE DEF e
<1>4. /\ info \in [Tids -> Info] /\ info[c].state = "RUNNABLE"
      /\ info[c].joined_target = k.info[c].joined_target
      /\ \A t \in Tids \ {c} : info[t] = k.info[t]
  <2>1. k.info \in [Tids -> Info]
    BY <1>1 DEF Memories
  <2>2. info[c] = [k.info[c] EXCEPT !.state = "RUNNABLE", !.errno = e] /\ \A t \in Tids \ {c} : info[t] = k.info[t]
    BY <2>1
  <2>3. /\ [k.info[c] EXCEPT !.state = "RUNNABLE", !.errno = e] \in Info
        /\ info[c].state = "RUNNABLE" /\ info[c].joined_target = k.info[c].joined_target
    BY <1>3, <2>1, <2>2 DEF Info, ThreadState
  <2>4. info = [t \in Tids |-> IF t = c THEN [k.info[c] EXCEPT !.state = "RUNNABLE", !.errno = e] ELSE k.info[t]]
    BY <2>1
  <2>5. info \in [Tids -> Info]
    BY <2>1, <2>3, <2>4
  <2> QED BY <2>2, <2>3, <2>5
<1> HIDE DEF info
<1>5. /\ r \in Memories /\ r.lists = k.lists /\ r.info = info /\ r.exit = k.exit
      /\ r.served = k.served /\ r.got = k.got
  BY <1>1, <1>4 DEF Memories
<1> HIDE DEF r
<1>6. /\ "RUNNABLE" \in ListNames /\ "BLOCKED" \in ListNames \ {"RUNNABLE"} /\ "ZOMBIE" \in ListNames \ {"RUNNABLE"}
      /\ \A p \in ListNames : In(r, p) = In(k, p)
  BY <1>5 DEF ListNames, In
<1>7. c \in In(r, "RUNNABLE")
  BY <1>1, <1>6 DEF Fits
<1>8. /\ OnlyLists(r, g) /\ In(g, "RUNNABLE") = In(r, "RUNNABLE") \cup {c}
      /\ \A p \in ListNames \ {"RUNNABLE"} : In(g, p) = In(r, p) \ {c}
  BY <1>1, <1>2, <1>5, <1>6, <1>7, Moved
<1>9. /\ In(g, "RUNNABLE") = In(k, "RUNNABLE") /\ In(g, "BLOCKED") = In(k, "BLOCKED") \ {c}
      /\ In(g, "ZOMBIE") = In(k, "ZOMBIE") \ {c}
  BY <1>6, <1>7, <1>8
<1>10. /\ g \in Memories /\ Good(g.lists) /\ ~g.exit /\ g.info = info
       /\ g.served = k.served /\ g.got = k.got
  BY <1>1, <1>5, <1>8 DEF OnlyLists
<1>11. Fits(g, NULL)
  BY <1>1, <1>4, <1>9, <1>10 DEF Fits
<1>12. Told(g, cr)
  BY <1>4, <1>10 DEF Told
<1>13. ASSUME NEW t \in In(g, "BLOCKED") PROVE Waits(g, NULL, t)
  <2>1. t \in In(k, "BLOCKED") \ {c} /\ Waits(k, c, t)
    BY <1>9
  <2>2. t \in Tids \ {c}
    BY <1>1, <2>1, GoodFacts DEF In, ListNames
  <2>3. g.info[t].joined_target = k.info[t].joined_target
    BY <1>4, <1>10, <2>2
  <2>4. \A u \in Tids : k.info[u].state \in {"RUNNING", "RUNNABLE", "BLOCKED"} \/ u = c =>
          g.info[u].state \in {"RUNNING", "RUNNABLE", "BLOCKED"}
    BY <1>4, <1>10
  <2> QED BY <1>10, <2>1, <2>3, <2>4 DEF Waits
<1>14. Outcome(k, cr, g)
  BY <1>4, <1>10 DEF Outcome
<1> QED BY <1>10, <1>11, <1>12, <1>13, <1>14 DEF Calm, Sound

LEMMA LeftKeeps ==
  ASSUME NEW k, NEW cr, cr \subseteq Tids, NEW c \in Tids \cup {tsys}, Sound(k, c), Told(k, cr),
         \A t \in In(k, "BLOCKED") : Waits(k, c, t),
         c \in Tids => k.info[c].state \in {"RUNNING", "BLOCKED", "ZOMBIE"},
         NEW g, g = Left(k, c)
  PROVE  Calm(g, cr) /\ Outcome(k, cr, g)
<1>1. NULL \notin Tids /\ tsys \notin Tids /\ k \in Memories
  BY ThreadsAssumption DEF Sound
<1>2. CASE c = tsys
  <2>1. g = k
    BY <1>2 DEF Left
  <2>2. Sound(k, NULL) /\ \A t \in In(k, "BLOCKED") : Waits(k, NULL, t)
    BY <1>1, <1>2 DEF Sound, Fits, Waits
  <2> QED BY <2>1, <2>2 DEF Calm, Outcome
<1>3. CASE c \in Tids /\ k.info[c].state = "RUNNING"
  <2>1. g = Descheduled(k, c)
    BY <1>1, <1>3 DEF Left
  <2> QED BY <1>3, <2>1, DescheduledKeeps
<1>4. CASE c \in Tids /\ k.info[c].state \in {"BLOCKED", "ZOMBIE"}
  <2> DEFINE r == [k EXCEPT !.info[c].errno = "SUCCESS"]
  <2>1. g = handle_non_runnable(r, c)
    BY <1>1, <1>4 DEF Left
  <2>2. /\ r.lists = k.lists /\ r.exit = k.exit /\ r.served = k.served /\ r.got = k.got
        /\ r.info = [k.info EXCEPT ![c].errno = "SUCCESS"]
        /\ r = [k EXCEPT !.info = r.info]
    BY <1>1 DEF Memories
  <2> HIDE DEF r
  <2>3. k.info \in [Tids -> Info]
    BY <1>1 DEF Memories
  <2>4. r.info = [t \in Tids |-> IF t = c THEN [k.info[c] EXCEPT !.errno = "SUCCESS"] ELSE k.info[t]]
    BY <2>2, <2>3
  <2>5. LET i == [k.info[c] EXCEPT !.errno = "SUCCESS"]
        IN  i \in Info /\ i.state = k.info[c].state /\ i.joined_target = k.info[c].joined_target
    BY <1>4, <2>3 DEF Info
  <2>6. r.info \in [Tids -> Info]
    BY <2>3, <2>4, <2>5
  <2>7. \A t \in Tids : /\ r.info[t].state = k.info[t].state
                        /\ r.info[t].joined_target = k.info[t].joined_target
    BY <1>4, <2>4, <2>5
  <2>8. r \in Memories
    BY <1>1, <2>2, <2>6 DEF Memories
  <2>9. \A l : In(r, l) = In(k, l)
    BY <2>2 DEF In
  <2>10. Sound(r, c)
    BY <2>2, <2>7, <2>8, <2>9 DEF Sound, Fits
  <2>11. Told(r, cr)
    BY <2>2, <2>7 DEF Told
  <2>12. ASSUME NEW t \in In(r, "BLOCKED") PROVE Waits(r, c, t)
    <3>1. t \in Tids /\ Waits(k, c, t)
      BY <2>9, GoodFacts DEF Sound, In, ListNames
    <3> QED BY <2>2, <2>7, <3>1 DEF Waits
  <2>13. r.info[c].state \in {"BLOCKED", "ZOMBIE"}
    BY <1>4, <2>7
  <2>14. Calm(g, cr) /\ Outcome(r, cr, g)
    BY <1>4, <2>1, <2>10, <2>11, <2>12, <2>13, NonRunnableKeeps
  <2>15. Outcome(k, cr, g)
    BY <2>2, <2>7, <2>14, SMTT(30) DEF Outcome
  <2> QED BY <2>14, <2>15
<1> QED BY <1>2, <1>3, <1>4

LEMMA FreedKeeps ==
  ASSUME NEW k0, NEW k, NEW cr, cr \subseteq Tids, NEW c \in Tids \cup {tsys},
         Calm(k, cr), Outcome(k0, cr, k), NEW g, g = Freed(k, c)
  PROVE  /\ Calm(g, cr) /\ Outcome(k0, cr, g)
         /\ \A l \in ListNames : In(g, l) = In(k, l)
<1>1. NULL \notin Tids /\ k \in Memories /\ Good(k.lists) /\ ~k.exit /\ Fits(k, NULL) /\ Told(k, cr)
  BY ThreadsAssumption DEF Sound, Calm
<1>2. CASE ~(c # tsys /\ k.info[c].state = "DEAD")
  <2>1. g = k
    BY <1>2 DEF Freed
  <2> QED BY <2>1
<1>3. CASE c # tsys /\ k.info[c].state = "DEAD"
  <2>1. c \in Tids /\ g = [k EXCEPT !.info[c].state = "FREE"]
    BY <1>3 DEF Freed
  <2>2. k.info \in [Tids -> Info]
    BY <1>1 DEF Memories
  <2>3. /\ g.lists = k.lists /\ g.exit = k.exit /\ g.served = k.served /\ g.got = k.got
        /\ g.info = [k.info EXCEPT ![c].state = "FREE"] /\ g = [k EXCEPT !.info = g.info]
    BY <1>1, <2>1 DEF Memories
  <2>4. g.info = [t \in Tids |-> IF t = c THEN [k.info[c] EXCEPT !.state = "FREE"] ELSE k.info[t]]
    BY <2>2, <2>3
  <2>5. LET i == [k.info[c] EXCEPT !.state = "FREE"] IN i \in Info /\ i.state = "FREE"
    BY <2>1, <2>2 DEF Info, ThreadState
  <2>6. g.info \in [Tids -> Info]
    BY <2>2, <2>4, <2>5
  <2>7. g.info[c].state = "FREE" /\ \A t \in Tids \ {c} : g.info[t] = k.info[t]
    BY <2>1, <2>4, <2>5
  <2>8. g \in Memories
    BY <1>1, <2>3, <2>6 DEF Memories
  <2>9. \A l : In(g, l) = In(k, l)
    BY <2>3 DEF In
  <2>10. Fits(g, NULL)
    BY <1>1, <1>3, <2>1, <2>7, <2>9 DEF Fits
  <2>11. Told(g, cr)
    BY <1>1, <1>3, <2>1, <2>3, <2>7 DEF Told
  <2>12. ASSUME NEW t \in In(g, "BLOCKED") PROVE Waits(g, NULL, t)
    <3>1. Waits(k, NULL, t) /\ t \in Tids
      BY <1>1, <2>9, GoodFacts DEF Calm, In, ListNames
    <3>2. t # c
      BY <1>1, <1>3, <2>9, <3>1 DEF Fits
    <3>3. g.info[t] = k.info[t]
      BY <2>7, <3>1, <3>2
    <3>4. \A u \in Tids : k.info[u].state \in {"RUNNING", "RUNNABLE", "BLOCKED"} =>
                            g.info[u].state \in {"RUNNING", "RUNNABLE", "BLOCKED"}
      BY <1>3, <2>7
    <3> QED BY <2>3, <3>1, <3>3, <3>4 DEF Waits
  <2>13. Outcome(k0, cr, g)
    BY <2>3, <2>7, SMTT(30) DEF Outcome
  <2> QED BY <1>1, <2>3, <2>8, <2>9, <2>10, <2>11, <2>12, <2>13 DEF Calm, Sound
<1> QED BY <1>2, <1>3

LEMMA SwitchedKeeps ==
  ASSUME NEW k0, NEW k, NEW cr, cr \subseteq Tids, Calm(k, cr), Outcome(k0, cr, k),
         NEW n \in In(k, "RUNNABLE"), NEW g, g = Switched(k, n)
  PROVE  /\ Calm(g, cr) /\ Outcome(k0, cr, g)
         /\ n \in Tids /\ n \in In(g, "RUNNABLE") /\ g.lists.head["RUNNABLE"] = n
<1>1. NULL \notin Tids /\ k \in Memories /\ Good(k.lists) /\ ~k.exit /\ Fits(k, NULL) /\ Told(k, cr)
  BY ThreadsAssumption DEF Sound, Calm
<1>2. n \in Tids /\ k.info[n].state \in {"RUNNING", "RUNNABLE"}
  <2>1. n \in Tids
    BY <1>1, GoodFacts DEF In, ListNames
  <2> QED BY <1>1, <2>1 DEF Fits
<1> DEFINE r == [k EXCEPT !.info[n].state = "RUNNING"]
<1>3. g = Prepend(Remove(r, "RUNNABLE", n), "RUNNABLE", n)
  BY <1>1, <1>2 DEF Switched
<1>4. k.info \in [Tids -> Info]
  BY <1>1 DEF Memories
<1>5. /\ r.lists = k.lists /\ r.exit = k.exit /\ r.served = k.served /\ r.got = k.got
      /\ r.info = [k.info EXCEPT ![n].state = "RUNNING"] /\ r = [k EXCEPT !.info = r.info]
  BY <1>1 DEF Memories
<1> HIDE DEF r
<1>6. r.info = [t \in Tids |-> IF t = n THEN [k.info[n] EXCEPT !.state = "RUNNING"] ELSE k.info[t]]
  BY <1>4, <1>5
<1>7. LET i == [k.info[n] EXCEPT !.state = "RUNNING"]
      IN  /\ i \in Info /\ i.state = "RUNNING" /\ i.errno = k.info[n].errno
          /\ i.joined_target = k.info[n].joined_target
  BY <1>2, <1>4 DEF Info, ThreadState
<1>8. r.info \in [Tids -> Info]
  BY <1>4, <1>6, <1>7
<1>9. /\ r.info[n].state = "RUNNING" /\ r.info[n].errno = k.info[n].errno
      /\ \A t \in Tids \ {n} : r.info[t] = k.info[t]
  BY <1>2, <1>6, <1>7
<1>10. r \in Memories
  BY <1>1, <1>5, <1>8 DEF Memories
<1>11. /\ OnlyLists(r, g) /\ g.lists.head["RUNNABLE"] = n
       /\ \A p \in ListNames : In(g, p) = In(k, p)
  <2>1. \A p : In(r, p) = In(k, p)
    BY <1>5 DEF In
  <2>2. "RUNNABLE" \in ListNames /\ n \in In(r, "RUNNABLE") /\ Good(r.lists)
    BY <1>1, <1>5, <2>1 DEF ListNames
  <2> QED BY <1>3, <1>10, <2>1, <2>2, BroughtToFront
<1>12. /\ g \in Memories /\ Good(g.lists) /\ ~g.exit /\ g.info = r.info
       /\ g.served = k.served /\ g.got = k.got
  BY <1>1, <1>5, <1>11 DEF OnlyLists
<1>13. /\ In(g, "RUNNABLE") = In(k, "RUNNABLE") /\ In(g, "BLOCKED") = In(k, "BLOCKED")
       /\ In(g, "ZOMBIE") = In(k, "ZOMBIE")
  BY <1>11 DEF ListNames
<1>14. Fits(g, NULL)
  BY <1>1, <1>2, <1>9, <1>12, <1>13 DEF Fits
<1>15. Told(g, cr)
  BY <1>1, <1>2, <1>9, <1>12 DEF Told
<1>16. ASSUME NEW t \in In(g, "BLOCKED") PROVE Waits(g, NULL, t)
  <2>1. Waits(k, NULL, t) /\ t \in Tids
    BY <1>1, <1>13, GoodFacts DEF Calm, In, ListNames
  <2>2. t # n
    BY <1>1, <1>2, <1>13, <2>1 DEF Fits
  <2>3. g.info[t] = k.info[t]
    BY <1>9, <1>12, <2>1, <2>2
  <2>4. \A u \in Tids : k.info[u].state \in {"RUNNING", "RUNNABLE", "BLOCKED"} =>
                          g.info[u].state \in {"RUNNING", "RUNNABLE", "BLOCKED"}
    BY <1>9, <1>12
  <2> QED BY <1>12, <2>1, <2>3, <2>4 DEF Waits
<1>17. Outcome(k0, cr, g)
  <2>1. \A t \in Tids : /\ g.info[t].errno = k.info[t].errno
                        /\ g.info[t].state \in {"RUNNABLE", "RUNNING"} =>
                             k.info[t].state \in {"RUNNABLE", "RUNNING"}
    BY <1>2, <1>9, <1>12
  <2> QED BY <1>12, <2>1 DEF Outcome
<1> QED BY <1>2, <1>11, <1>12, <1>13, <1>14, <1>15, <1>16, <1>17 DEF Calm, Sound

-----------------------------------------------------------------------------
(* The inductive invariant. *)

(* The thread that has left the processor, while tsys has not yet seen to it. *)
Leaving == IF onTsys THEN current ELSE NULL

SchedulerInv ==
  /\ current \in Tids \cup {tsys, NULL} /\ onTsys \in BOOLEAN
  /\ yield_target \in [Tids -> Tids \cup {NULL}]
  /\ created \subseteq Tids /\ calls \in 0 .. MaxCalls
  /\ Sound(m, Leaving) /\ Told(m, created)
  /\ \A t \in In(m, "BLOCKED") : Waits(m, Leaving, t)
  /\ current \in Tids => current \in In(m, "RUNNABLE") /\ m.lists.head["RUNNABLE"] = current
  /\ onTsys /\ current \in Tids => State(current) \in {"RUNNING", "BLOCKED", "ZOMBIE"}
  /\ ~onTsys => current \in Tids

LEMMA InitSound == Init => SchedulerInv
<1> SUFFICES ASSUME Init PROVE SchedulerInv
  OBVIOUS
<1> DEFINE info == [t \in Tids |-> [state |-> IF t = Main THEN "RUNNABLE" ELSE "FREE",
                                    errno |-> "SUCCESS", joined_target |-> NULL]]
           lists == thread_list_add(EmptyLists, "RUNNABLE", Main)
<1>1. /\ m.lists = lists /\ m.info = info /\ m.exit = FALSE
      /\ m.served = [t \in Tids |-> 0] /\ m.got = [t \in Tids |-> 0]
      /\ m = [lists |-> m.lists, info |-> m.info, exit |-> m.exit, served |-> m.served, got |-> m.got]
  BY DEF Init
<1>2. current = tsys /\ onTsys = TRUE /\ created = {Main} /\ calls = 0
      /\ yield_target = [t \in Tids |-> NULL]
  BY DEF Init
<1>3. Main \in Tids /\ NULL \notin Tids /\ tsys \notin Tids \cup {NULL} /\ MaxCalls \in Nat
  BY ThreadsAssumption
<1>4. /\ Good(lists) /\ Members(lists, "RUNNABLE") = {Main}
      /\ \A p \in ListNames \ {"RUNNABLE"} : Members(lists, p) = {}
  <2>1. Good(EmptyLists) /\ \A l \in ListNames : Members(EmptyLists, l) = {}
    BY GoodEmpty
  <2>2. "RUNNABLE" \in ListNames /\ \A l \in ListNames : Main \notin Members(EmptyLists, l)
    BY <2>1 DEF ListNames
  <2>3. /\ Good(lists) /\ Members(lists, "RUNNABLE") = Members(EmptyLists, "RUNNABLE") \cup {Main}
        /\ \A p \in ListNames \ {"RUNNABLE"} : Members(lists, p) = Members(EmptyLists, p)
    BY <1>3, <2>1, <2>2, GoodAdd
  <2> QED BY <2>1, <2>2, <2>3
<1>5. lists \in Links
  BY <1>4, GoodFacts
<1> HIDE DEF lists
<1>6. In(m, "RUNNABLE") = {Main} /\ In(m, "BLOCKED") = {} /\ In(m, "ZOMBIE") = {}
  BY <1>1, <1>4 DEF In, ListNames
<1>7. info \in [Tids -> Info] /\ \A t \in Tids : info[t].state = IF t = Main THEN "RUNNABLE" ELSE "FREE"
  BY DEF Info, ThreadState
<1> HIDE DEF info
<1>8. m \in Memories
  <2>1. m.lists \in Links /\ m.info \in [Tids -> Info] /\ m.exit \in BOOLEAN
    BY <1>1, <1>5, <1>7
  <2>2. m.served \in [Tids -> Nat] /\ m.got \in [Tids -> Nat]
    BY <1>1
  <2>3. m = [lists |-> m.lists, info |-> m.info, exit |-> m.exit, served |-> m.served, got |-> m.got]
    BY <1>1
  <2> QED BY <2>1, <2>2, <2>3 DEF Memories
<1>9. Sound(m, tsys)
  <2>1. Fits(m, tsys)
    BY <1>1, <1>3, <1>6, <1>7 DEF Fits
  <2> QED BY <1>1, <1>4, <1>8, <2>1 DEF Sound
<1>10. Told(m, created)
  BY <1>1, <1>2, <1>7 DEF Told
<1>11. Leaving = tsys
  BY <1>2 DEF Leaving
<1> QED BY <1>2, <1>3, <1>6, <1>9, <1>10, <1>11 DEF SchedulerInv

(* yield(), and with it l1_thread_join and the end of a thread. *)
LEMMA YieldSound ==
  ASSUME SchedulerInv, NEW t \in Tids, ~onTsys, current = t, NEW u \in Tids \cup {NULL},
         NEW st \in {"RUNNING", "BLOCKED", "ZOMBIE"}, NEW joined \in Tids \cup {NULL},
         Yield(t, u, st, joined), calls' \in 0 .. MaxCalls
  PROVE  SchedulerInv' /\ Outcome(m, created, m')
<1>1. /\ m \in Memories /\ Good(m.lists) /\ ~m.exit /\ Fits(m, NULL) /\ Told(m, created)
      /\ \A o \in In(m, "BLOCKED") : Waits(m, NULL, o)
      /\ t \in In(m, "RUNNABLE") /\ m.lists.head["RUNNABLE"] = t /\ NULL \notin Tids
  BY ThreadsAssumption DEF SchedulerInv, Leaving, Sound
<1>2. /\ m' = [m EXCEPT !.info[t].state = st, !.info[t].joined_target = joined]
      /\ yield_target' = [yield_target EXCEPT ![t] = u]
      /\ onTsys' = TRUE /\ current' = t /\ created' = created /\ Leaving' = t
  BY DEF Yield, Leaving
<1>3. m.info \in [Tids -> Info]
  BY <1>1 DEF Memories
<1> DEFINE i == [m.info[t] EXCEPT !.state = st, !.joined_target = joined]
<1>4. i \in Info /\ i.state = st
  BY <1>3 DEF Info, ThreadState
<1>5. /\ m'.lists = m.lists /\ m'.exit = m.exit /\ m'.served = m.served /\ m'.got = m.got
      /\ m' = [m EXCEPT !.info = m'.info]
      /\ m'.info = [o \in Tids |-> IF o = t THEN i ELSE m.info[o]]
  <2>1. m'.info = [[m.info EXCEPT ![t].state = st] EXCEPT ![t].joined_target = joined]
    BY <1>1, <1>2 DEF Memories
  <2>2. m'.info = [o \in Tids |-> IF o = t THEN i ELSE m.info[o]]
    BY <1>3, <2>1 DEF Info
  <2>3. /\ m'.lists = m.lists /\ m'.exit = m.exit /\ m'.served = m.served /\ m'.got = m.got
        /\ m' = [m EXCEPT !.info = m'.info]
    BY <1>1, <1>2 DEF Memories
  <2> QED BY <2>2, <2>3
<1> HIDE DEF i
<1>6. m'.info \in [Tids -> Info] /\ m'.info[t].state = st /\ \A o \in Tids \ {t} : m'.info[o] = m.info[o]
  BY <1>3, <1>4, <1>5
<1>7. m' \in Memories
  BY <1>1, <1>5, <1>6 DEF Memories
<1>8. \A l : In(m', l) = In(m, l)
  BY <1>5 DEF In
<1>9. m.info[t].state \in {"RUNNING", "RUNNABLE"} /\ t \notin In(m, "BLOCKED") /\ t \notin In(m, "ZOMBIE")
  BY <1>1 DEF Fits
<1>10. Fits(m', t)
  BY <1>1, <1>6, <1>8, <1>9 DEF Fits
<1>11. Told(m', created)
  BY <1>1, <1>5, <1>6, <1>9 DEF Told
<1>12. ASSUME NEW o \in In(m', "BLOCKED") PROVE Waits(m', t, o)
  <2>1. Waits(m, NULL, o) /\ o \in Tids /\ o # t
    BY <1>1, <1>8, <1>9, GoodFacts DEF In, ListNames
  <2> QED BY <1>1, <1>5, <1>6, <2>1, SMTT(30) DEF Waits
<1>13. Outcome(m, created, m')
  <2>1. \A o \in Tids : ~(m.info[o].state = "BLOCKED" /\ m'.info[o].state \in {"RUNNABLE", "RUNNING"})
    BY <1>6, <1>9
  <2> QED BY <2>1 DEF Outcome
<1>14. yield_target' \in [Tids -> Tids \cup {NULL}] /\ created \subseteq Tids
  BY <1>2 DEF SchedulerInv
<1>15. Sound(m', t)
  BY <1>1, <1>5, <1>7, <1>10 DEF Sound
<1>16. t \in In(m', "RUNNABLE") /\ m'.lists.head["RUNNABLE"] = t
  BY <1>1, <1>5, <1>8
<1>17. SchedulerInv'
  <2>1. Sound(m', Leaving') /\ Told(m', created') /\ \A o \in In(m', "BLOCKED") : Waits(m', Leaving', o)
    BY <1>2, <1>11, <1>12, <1>15
  <2>2. State(t)' \in {"RUNNING", "BLOCKED", "ZOMBIE"}
    BY <1>6 DEF State
  <2> QED BY <1>2, <1>14, <1>16, <2>1, <2>2 DEF SchedulerInv, State, In
<1> QED BY <1>13, <1>17

LEMMA CreateSound ==
  ASSUME SchedulerInv, NEW t \in Tids, NEW u \in Tids, Create(t, u)
  PROVE  SchedulerInv' /\ Outcome(m, created, m')
<1>1. /\ m \in Memories /\ Good(m.lists) /\ ~m.exit /\ Fits(m, NULL) /\ Told(m, created)
      /\ \A o \in In(m, "BLOCKED") : Waits(m, NULL, o) /\ ~onTsys
      /\ t \in In(m, "RUNNABLE") /\ m.lists.head["RUNNABLE"] = t /\ NULL \notin Tids
  BY ThreadsAssumption DEF SchedulerInv, Leaving, Sound, Create, Call
<1>2. /\ m' = [m EXCEPT !.info[u].state = "RUNNABLE", !.lists = thread_list_add(@, "RUNNABLE", u)]
      /\ created' = created \cup {u} /\ u \notin created /\ onTsys' = FALSE
      /\ current' = t /\ current = t /\ ~onTsys /\ Leaving' = NULL
      /\ yield_target' = yield_target /\ calls' \in 0 .. MaxCalls
  <2>1. ~onTsys /\ onTsys' = onTsys /\ onTsys \in BOOLEAN /\ current' = current /\ current = t
    BY DEF Create, Call, SchedulerInv
  <2>2. calls' \in 0 .. MaxCalls
    BY ThreadsAssumption DEF Create, Call, SchedulerInv
  <2> QED BY <2>1, <2>2 DEF Create, Leaving
<1>3. m.info \in [Tids -> Info] /\ m.info[u].state = "FREE"
  BY <1>1, <1>2 DEF Memories, Told
<1> DEFINE i == [m.info[u] EXCEPT !.state = "RUNNABLE"]
<1>4. i \in Info /\ i.state = "RUNNABLE"
  BY <1>3 DEF Info, ThreadState
<1>5. /\ m'.lists = thread_list_add(m.lists, "RUNNABLE", u) /\ m'.exit = m.exit
      /\ m'.served = m.served /\ m'.got = m.got
      /\ m' = [m EXCEPT !.info = m'.info, !.lists = m'.lists]
      /\ m'.info = [o \in Tids |-> IF o = u THEN i ELSE m.info[o]]
  <2>1. m'.info = [m.info EXCEPT ![u].state = "RUNNABLE"]
    BY <1>1, <1>2 DEF Memories
  <2>2. m'.info = [o \in Tids |-> IF o = u THEN i ELSE m.info[o]]
    BY <1>3, <2>1
  <2>3. /\ m'.lists = thread_list_add(m.lists, "RUNNABLE", u) /\ m'.exit = m.exit
        /\ m'.served = m.served /\ m'.got = m.got
        /\ m' = [m EXCEPT !.info = m'.info, !.lists = m'.lists]
    BY <1>1, <1>2 DEF Memories
  <2> QED BY <2>2, <2>3
<1> HIDE DEF i
<1>6. /\ m'.info \in [Tids -> Info] /\ m'.info[u].state = "RUNNABLE"
      /\ \A o \in Tids \ {u} : m'.info[o] = m.info[o]
  BY <1>3, <1>4, <1>5
<1>7. \A l \in ListNames : u \notin In(m, l)
  BY <1>1, <1>3 DEF Fits, ListNames
<1>8. /\ Good(m'.lists) /\ In(m', "RUNNABLE") = In(m, "RUNNABLE") \cup {u}
      /\ \A p \in ListNames \ {"RUNNABLE"} : In(m', p) = In(m, p)
      /\ m'.lists.head["RUNNABLE"] = m.lists.head["RUNNABLE"]
  <2>1. "RUNNABLE" \in ListNames
    BY DEF ListNames
  <2> QED BY <1>1, <1>5, <1>7, <2>1, GoodAdd DEF In
<1>9. In(m', "BLOCKED") = In(m, "BLOCKED") /\ In(m', "ZOMBIE") = In(m, "ZOMBIE")
  BY <1>8 DEF ListNames
<1>10. m' \in Memories
  <2>1. m'.lists \in Links
    BY <1>8, GoodFacts
  <2> QED BY <1>1, <1>5, <1>6, <2>1 DEF Memories
<1>11. Fits(m', NULL)
  BY <1>1, <1>3, <1>6, <1>8, <1>9 DEF Fits
<1>12. Told(m', created')
  BY <1>1, <1>2, <1>3, <1>5, <1>6 DEF Told
<1>13. ASSUME NEW o \in In(m', "BLOCKED") PROVE Waits(m', NULL, o)
  <2>1. Waits(m, NULL, o) /\ o \in Tids
    BY <1>1, <1>9, GoodFacts DEF In, ListNames
  <2>2. o # u
    BY <1>1, <1>3, <1>9, <2>1 DEF Fits
  <2> QED BY <1>5, <1>6, <2>1, <2>2, SMTT(30) DEF Waits
<1>14. Outcome(m, created, m')
  <2>1. \A o \in Tids : ~(m.info[o].state = "BLOCKED" /\ m'.info[o].state \in {"RUNNABLE", "RUNNING"})
    BY <1>3, <1>6
  <2> QED BY <2>1 DEF Outcome
<1>15. Sound(m', NULL)
  BY <1>1, <1>5, <1>8, <1>10, <1>11 DEF Sound
<1>16. created' \subseteq Tids /\ yield_target' \in [Tids -> Tids \cup {NULL}]
  BY <1>2 DEF SchedulerInv
<1>17. t \in In(m', "RUNNABLE") /\ m'.lists.head["RUNNABLE"] = t
  BY <1>1, <1>8
<1>18. SchedulerInv'
  <2>1. Sound(m', Leaving') /\ Told(m', created') /\ \A o \in In(m', "BLOCKED") : Waits(m', Leaving', o)
    BY <1>2, <1>12, <1>13, <1>15
  <2> QED BY <1>2, <1>16, <1>17, <2>1 DEF SchedulerInv, In
<1> QED BY <1>14, <1>18

LEMMA ScheduleSound ==
  ASSUME SchedulerInv, schedule
  PROVE  SchedulerInv' /\ Outcome(m, created, m')
<1>1. /\ onTsys /\ current \in Tids \cup {tsys} /\ NULL \notin Tids
      /\ Sound(m, current) /\ Told(m, created) /\ created \subseteq Tids
      /\ \A o \in In(m, "BLOCKED") : Waits(m, current, o)
      /\ current \in Tids => m.info[current].state \in {"RUNNING", "BLOCKED", "ZOMBIE"}
  BY ThreadsAssumption DEF SchedulerInv, Leaving, schedule, State
<1> DEFINE left == Left(m, current)
           free == Freed(left, current)
<1>2. Calm(left, created) /\ Outcome(m, created, left)
  BY <1>1, LeftKeeps
<1>3. PICK n \in select_next(left) : /\ m' = Switched(free, n)
                                     /\ current' = n /\ onTsys' = (n = NULL)
  BY DEF schedule
<1>4. yield_target' = yield_target /\ created' = created /\ calls' = calls
  BY DEF schedule
<1> HIDE DEF left
<1>5. Calm(free, created) /\ Outcome(m, created, free) /\ \A l \in ListNames : In(free, l) = In(left, l)
  BY <1>1, <1>2, FreedKeeps
<1> HIDE DEF free
<1>6. CASE n = NULL
  <2>1. m' = free /\ current' = NULL /\ onTsys' = TRUE /\ Leaving' = NULL
    BY <1>3, <1>6 DEF Switched, Leaving
  <2>2. Sound(m', Leaving') /\ Told(m', created') /\ \A o \in In(m', "BLOCKED") : Waits(m', Leaving', o)
    BY <1>4, <1>5, <2>1 DEF Calm
  <2> QED BY <1>1, <1>4, <1>5, <2>1, <2>2 DEF SchedulerInv, In
<1>7. CASE n # NULL
  <2>1. n \in In(free, "RUNNABLE")
    <3>1. "RUNNABLE" \in ListNames
      BY DEF ListNames
    <3> QED BY <1>3, <1>5, <1>7, <3>1 DEF select_next, In
  <2>2. /\ Calm(m', created) /\ Outcome(m, created, m')
        /\ n \in Tids /\ n \in In(m', "RUNNABLE") /\ m'.lists.head["RUNNABLE"] = n
    BY <1>1, <1>3, <1>5, <2>1, SwitchedKeeps
  <2>3. current' = n /\ onTsys' = FALSE /\ Leaving' = NULL
    BY <1>3, <1>7 DEF Leaving
  <2>4. Sound(m', Leaving') /\ Told(m', created') /\ \A o \in In(m', "BLOCKED") : Waits(m', Leaving', o)
    BY <1>4, <2>2, <2>3 DEF Calm
  <2> QED BY <1>1, <1>4, <2>2, <2>3, <2>4 DEF SchedulerInv, In
<1> QED BY <1>6, <1>7

LEMMA NextSound == SchedulerInv /\ [Next]_vars => SchedulerInv' /\ (Outcome(m, created, m') \/ UNCHANGED vars)
<1> SUFFICES ASSUME SchedulerInv, [Next]_vars PROVE SchedulerInv' /\ (Outcome(m, created, m') \/ UNCHANGED vars)
  OBVIOUS
<1>1. CASE UNCHANGED vars
  BY <1>1 DEF SchedulerInv, vars, Leaving, State, In
<1>2. ASSUME NEW t \in Tids, NEW u \in Tids, Create(t, u) PROVE SchedulerInv' /\ Outcome(m, created, m')
  BY <1>2, CreateSound
<1>3. ASSUME NEW t \in Tids, NEW u \in Tids \cup {NULL}, YieldTo(t, u)
      PROVE  SchedulerInv' /\ Outcome(m, created, m')
  <2>1. calls' \in 0 .. MaxCalls /\ ~onTsys /\ current = t /\ Yield(t, u, "RUNNING", NULL)
    BY <1>3, ThreadsAssumption DEF YieldTo, Call, SchedulerInv
  <2> QED BY <2>1, YieldSound
<1>4. ASSUME NEW t \in Tids, NEW u \in Tids \cup {NULL}, Join(t, u)
      PROVE  SchedulerInv' /\ Outcome(m, created, m')
  <2>1. calls' \in 0 .. MaxCalls /\ ~onTsys /\ current = t /\ Yield(t, NULL, "BLOCKED", u)
    BY <1>4, ThreadsAssumption DEF Join, Call, SchedulerInv
  <2> QED BY <2>1, YieldSound
<1>5. ASSUME NEW t \in Tids, Exit(t) PROVE SchedulerInv' /\ Outcome(m, created, m')
  <2>1. calls' \in 0 .. MaxCalls /\ ~onTsys /\ current = t /\ Yield(t, NULL, "ZOMBIE", NULL)
    BY <1>5 DEF Exit, SchedulerInv
  <2> QED BY <2>1, YieldSound
<1>6. CASE schedule
  BY <1>6, ScheduleSound
<1>7. CASE Terminated
  BY <1>1, <1>7 DEF Terminated
<1> QED BY <1>1, <1>2, <1>3, <1>4, <1>5, <1>6, <1>7 DEF Next, Thread

LEMMA SchedulerInvariance == Spec => []SchedulerInv
<1>1. SchedulerInv /\ [Next]_vars => SchedulerInv'
  BY NextSound
<1> QED BY InitSound, <1>1, PTL DEF Spec

-----------------------------------------------------------------------------
(* The next and prev pointers, heads, tails and sizes of the three lists of
   thread_list.c form well-linked lists that hold the threads their states say,
   after any calls and any choices of the policy (schedule.c:88-149). *)
THEOREM SchedulerLists == Spec => []ListsMatchStates
<1>1. SchedulerInv => ListsMatchStates
  <2> SUFFICES ASSUME SchedulerInv PROVE ListsMatchStates
    OBVIOUS
  <2>1. m \in Memories /\ Good(m.lists) /\ Fits(m, Leaving) /\ NULL \notin Tids
    BY ThreadsAssumption DEF SchedulerInv, Sound
  <2>2. TypeOK
    BY <2>1 DEF SchedulerInv, TypeOK, Memories
  <2>3. \A l \in ListNames : WellLinked(m.lists, l)
    BY <2>1, GoodFacts
  <2>4. ASSUME NEW t \in Tids
        PROVE  LET In1(l) == t \in Members(m.lists, l)
                   left == onTsys /\ current = t
               IN  /\ In1("RUNNABLE") <=> State(t) \in {"RUNNING", "RUNNABLE"} \/ left
                   /\ In1("BLOCKED") <=> State(t) = "BLOCKED" /\ ~left
                   /\ In1("ZOMBIE") <=> State(t) = "ZOMBIE" /\ ~left
    <3>1. t = Leaving <=> onTsys /\ current = t
      BY <2>1 DEF Leaving
    <3> QED BY <2>1, <3>1 DEF Fits, State, In
  <2>5. current \in Tids => m.lists.head["RUNNABLE"] = current
    BY DEF SchedulerInv
  <2> QED BY <2>2, <2>3, <2>4, <2>5 DEF ListsMatchStates
<1> QED BY <1>1, SchedulerInvariance, PTL

(* No thread is added to a list while it is in one, and what is collected is a
   zombie: none of the exit(-1) of thread_list.c and schedule.c is reached. *)
THEOREM SchedulerNeverExits == Spec => []NoErrorExit
<1>1. SchedulerInv => NoErrorExit
  BY DEF SchedulerInv, Sound, NoErrorExit
<1> QED BY <1>1, SchedulerInvariance, PTL

(* A thread stays BLOCKED only for a thread that is still to end, or for one that
   has answered two joins before (the traversal of schedule.c:203-213 stops). *)
THEOREM SchedulerStrands == Spec => []StrandedOnlyByOthers
<1>1. SchedulerInv => StrandedOnlyByOthers
  <2> SUFFICES ASSUME SchedulerInv, NEW t \in Members(m.lists, "BLOCKED")
               PROVE  Alive(m.info[t].joined_target) \/ m.served[m.info[t].joined_target] >= 2
    BY DEF StrandedOnlyByOthers
  <2>1. Waits(m, Leaving, t) /\ NULL \notin Tids
    BY ThreadsAssumption DEF SchedulerInv, In
  <2> QED BY <2>1 DEF Waits, Leaving, Alive, State
<1> QED BY <1>1, SchedulerInvariance, PTL

(* A join returns SUCCESS to one thread, which gets the value of a zombie, and
   ERRINVAL only when there is no such thread or the value is gone. *)
THEOREM SchedulerJoins == Spec => JoinOutcome
<1> DEFINE A == \A t \in Tids :
                  State(t) = "BLOCKED" /\ m'.info[t].state \in {"RUNNABLE", "RUNNING"} =>
                    LET u == m.info[t].joined_target
                    IN  IF m'.info[t].errno = "SUCCESS"
                        THEN State(u) = "ZOMBIE" /\ m.got[u] = 0 /\ m'.got[u] = 1
                        ELSE u \notin created \/ m'.got[u] = 1
<1>1. SchedulerInv /\ [Next]_vars => [A]_vars
  <2>1. Outcome(m, created, m') => A
    BY DEF Outcome, State
  <2> QED BY <2>1, NextSound
<1>2. Spec => [][A]_vars
  BY <1>1, SchedulerInvariance, PTL DEF Spec
<1> QED BY <1>2 DEF JoinOutcome

-----------------------------------------------------------------------------
(* Lab 2 with nothing to schedule. *)

Sleepers == {s \in Sys : Counted(s)}
Ended == \E s \in Sys : spc[s] = "signal" \/ spc[s] = "done"

(* The system threads with a selected thread, and those with a yielder. *)
Busy == {s \in Sys : spc[s] \in {"park", "green"}}
Holders == {s \in Sys : hold[s]}

Types ==
  /\ nrunnable \in Nat
  /\ wakes \in 0 .. MaxWakes
  /\ launcher \in {"set", "wake", "join"}
  /\ _start \in 0 .. 1
  /\ sleep_count \in Nat
  /\ spc \in [Sys -> PC]
  /\ hold \in [Sys -> BOOLEAN]
  /\ expected \in [Sys -> 0 .. IS_OVER + total_sys]

Counting == sleep_count = Cardinality(Sleepers) + IF Ended THEN IS_OVER ELSE 0

(* Every thread was the first one or made RUNNABLE once. *)
Accounting == nrunnable + Cardinality(Busy) + Cardinality(Holders) <= 1 + wakes

HoldPlaces == \A s \in Sys : hold[s] => spc[s] \in {"select", "park", "park_none"}

(* s has yet to look at RUNNABLE before it tries to sleep. *)
Awake(s) == spc[s] \in {"start", "start_wait", "select", "park_none", "park", "green", "check"}

(* Work is seen by somebody who is awake. *)
AwakeIfRunnable == (\E s \in Sys : ~Awake(s)) /\ nrunnable > 0 => \E s \in Sys : Awake(s)

OneDecides ==
  \A s, r \in Sys : spc[s] = "over" /\ spc[r] \in {"over", "signal", "done"} => s = r

Control == HoldPlaces /\ AwakeIfRunnable /\ OneDecides /\ NoEarlyEnd

SleepInv == Types /\ Counting /\ Accounting /\ Control

-----------------------------------------------------------------------------
(* Sets of system threads. *)
LEMMA Cards ==
  ASSUME NEW S \in SUBSET Sys
  PROVE  /\ IsFiniteSet(S)
         /\ Cardinality(S) \in Nat
         /\ total_sys \in Nat
         /\ Cardinality(S) <= total_sys
         /\ \A s \in Sys : /\ s \notin S => Cardinality(S \cup {s}) = Cardinality(S) + 1
                           /\ s \in S => Cardinality(S \ {s}) = Cardinality(S) - 1
<1>1. IsFiniteSet(S) /\ IsFiniteSet(Sys) /\ Cardinality(S) <= total_sys
  BY SysSleepAssumption, FS_Subset DEF total_sys
<1>2. Cardinality(S) \in Nat /\ total_sys \in Nat
  BY <1>1, FS_CardinalityType DEF total_sys
<1> QED BY <1>1, <1>2, FS_AddElement, FS_RemoveElement

(* The one that finds all others counted is the last. *)
LEMMA OthersSleep ==
  ASSUME SleepInv, NEW s \in Sys, spc[s] = "last", sleep_count = total_sys - 1
  PROVE  ~Ended /\ \A r \in Sys \ {s} : Counted(r)
<1>1. Cardinality(Sleepers) \in Nat /\ total_sys \in Nat /\ IS_OVER \in Nat /\ IS_OVER > total_sys
  BY Cards, SysSleepAssumption DEF Sleepers
<1>2. ~Ended /\ Cardinality(Sleepers) = total_sys - 1
  BY <1>1 DEF SleepInv, Counting
<1>3. ASSUME NEW r \in Sys \ {s}, ~Counted(r) PROVE FALSE
  <2> DEFINE S1 == Sleepers \cup {s}
  <2>1. s \notin Sleepers /\ r \notin S1 /\ S1 \subseteq Sys /\ S1 \cup {r} \subseteq Sys
    BY <1>3 DEF Sleepers, Counted
  <2>2. Cardinality(S1) = Cardinality(Sleepers) + 1
    BY <2>1, Cards DEF Sleepers
  <2> HIDE DEF S1
  <2>3. Cardinality(S1 \cup {r}) = Cardinality(S1) + 1 /\ Cardinality(S1 \cup {r}) <= total_sys
    BY <2>1, Cards
  <2> QED BY <1>1, <1>2, <2>2, <2>3
<1> QED BY <1>2, <1>3

(* The types, but for the bounds that follow from the counts. *)
LEMMA StepTypes ==
  ASSUME SleepInv, [SleepNext]_sleepVars
  PROVE  Types'
<1> USE DEF SleepInv, Types, Step, PC
<1>a. IS_OVER \in Nat /\ total_sys \in Nat /\ MaxWakes \in Nat
  BY SysSleepAssumption, Cards
<1>1. CASE Launch
  BY <1>1 DEF Launch, SetStart, WakeStarted
<1>2. ASSUME NEW s \in Sys, Wake(s) PROVE Types'
  BY <1>2, <1>a DEF Wake
<1>3. ASSUME NEW s \in Sys, Select(s) \/ Park(s) \/ SwitchOut(s) PROVE Types'
  <2>1. CASE Select(s)
    BY <2>1 DEF Select
  <2>2. CASE Park(s)
    <3>1. nrunnable' \in Nat
      BY <2>2 DEF Park
    <3> QED BY <2>2, <3>1 DEF Park
  <2>3. CASE SwitchOut(s)
    BY <2>3 DEF SwitchOut
  <2> QED BY <1>3, <2>1, <2>2, <2>3
<1>4. ASSUME NEW s \in Sys, StartWait(s) \/ Check(s) \/ LastRunning(s) \/ Signal(s) \/ Compare(s)
                            \/ Wait(s) \/ Woken(s) \/ SpuriousWake(s)
      PROVE  Types'
  BY <1>4 DEF StartWait, Check, LastRunning, Signal, Compare, Wait, Woken, SpuriousWake, FutexWait,
                 FutexWakeAll
<1>5. ASSUME NEW s \in Sys, Over(s) PROVE Types'
  BY <1>5, <1>a DEF Over
<1>6. ASSUME NEW s \in Sys, Sleep(s) PROVE Types'
  <2>1. s \notin Sleepers /\ Sleepers \subseteq Sys /\ Sleepers \cup {s} \subseteq Sys
    BY <1>6 DEF Sleep, Sleepers, Counted
  <2>2. Cardinality(Sleepers) + 1 <= total_sys /\ Cardinality(Sleepers) \in Nat
    <3>1. PICK S \in SUBSET Sys : S = Sleepers
      BY <2>1
    <3>2. Cardinality(S \cup {s}) = Cardinality(S) + 1 /\ Cardinality(S) \in Nat
      BY <2>1, <3>1, Cards
    <3>3. Cardinality(S \cup {s}) <= total_sys
      BY <2>1, <3>1, Cards
    <3> QED BY <3>1, <3>2, <3>3
  <2>3. sleep_count + 1 \in 0 .. IS_OVER + total_sys
    BY <1>a, <2>2 DEF Counting
  <2> QED BY <1>6, <2>3 DEF Sleep
<1>7. ASSUME NEW s \in Sys, Uncount(s) PROVE Types'
  <2>1. s \in Sleepers /\ Sleepers \subseteq Sys
    BY <1>7 DEF Uncount, Sleepers, Counted
  <2>2. Cardinality(Sleepers) # 0 /\ Cardinality(Sleepers) \in Nat
    BY <2>1, Cards, FS_EmptySet
  <2>3. sleep_count - 1 \in Nat
    BY <1>a, <2>2 DEF Counting
  <2> QED BY <1>7, <1>a, <2>3 DEF Uncount
<1>8. CASE UNCHANGED sleepVars
  BY <1>8 DEF sleepVars
<1> QED BY <1>1, <1>2, <1>3, <1>4, <1>5, <1>6, <1>7, <1>8 DEF SleepNext, System, AllLeft

(* Who sleeps, and whether the program has ended. *)
LEMMA StepCounting ==
  ASSUME SleepInv, [SleepNext]_sleepVars
  PROVE  Counting'
<1> USE DEF SleepInv, Types, Step, PC
<1>a. Cardinality(Sleepers) \in Nat /\ IS_OVER \in Nat
  BY Cards, SysSleepAssumption DEF Sleepers
<1>1. CASE UNCHANGED sleep_count /\ Sleepers' = Sleepers /\ Ended' = Ended
  BY <1>1 DEF Counting
<1>2. CASE Launch
  <2>1. UNCHANGED sleep_count /\ Sleepers' = Sleepers /\ Ended' = Ended
    BY <1>2 DEF Launch, SetStart, WakeStarted, Sleepers, Counted, Ended
  <2> QED BY <1>1, <2>1
<1>3. ASSUME NEW s \in Sys, Wake(s) \/ SpuriousWake(s) \/ StartWait(s) \/ Select(s) \/ Park(s)
                            \/ SwitchOut(s) \/ Check(s) \/ LastRunning(s) \/ Compare(s) \/ Wait(s)
      PROVE  Counting'
  <2>1. UNCHANGED sleep_count /\ Sleepers' = Sleepers /\ Ended' = Ended
    BY <1>3 DEF Wake, SpuriousWake, StartWait, Select, Park, SwitchOut, Check, LastRunning, Compare,
                Wait, FutexWait, FutexWakeAll, Sleepers, Counted, Ended
  <2> QED BY <1>1, <2>1
<1>4. ASSUME NEW s \in Sys, Over(s) PROVE Counting'
  <2>1. Sleepers' = Sleepers /\ ~Ended /\ Ended'
    BY <1>4 DEF Over, Sleepers, Counted, Ended, Control, OneDecides
  <2> QED BY <1>4, <1>a, <2>1 DEF Over, Counting
<1>5. ASSUME NEW s \in Sys, Signal(s) PROVE Counting'
  <2>1. Sleepers' = Sleepers /\ Ended /\ Ended'
    BY <1>5 DEF Signal, FutexWakeAll, Sleepers, Counted, Ended
  <2> QED BY <1>5, <2>1 DEF Signal, Counting
<1>6. ASSUME NEW s \in Sys, Sleep(s) PROVE Counting'
  <2>1. Sleepers' = Sleepers \cup {s} /\ s \notin Sleepers /\ Ended' = Ended
    BY <1>6 DEF Sleep, Sleepers, Counted, Ended
  <2>2. Cardinality(Sleepers') = Cardinality(Sleepers) + 1
    BY <2>1, Cards DEF Sleepers
  <2> QED BY <1>6, <1>a, <2>1, <2>2 DEF Sleep, Counting
<1>7. ASSUME NEW s \in Sys, Uncount(s) PROVE Counting'
  <2>1. Sleepers' = Sleepers \ {s} /\ s \in Sleepers /\ Ended' = Ended
    BY <1>7 DEF Uncount, Sleepers, Counted, Ended
  <2>2. Cardinality(Sleepers') = Cardinality(Sleepers) - 1
    BY <2>1, Cards DEF Sleepers
  <2> QED BY <1>7, <1>a, <2>1, <2>2 DEF Uncount, Counting
<1>8. ASSUME NEW s \in Sys, Woken(s) PROVE Counting'
  <2>1. Cardinality(Sleepers) <= total_sys /\ total_sys \in Nat /\ IS_OVER > total_sys
    BY Cards, SysSleepAssumption DEF Sleepers
  <2>2. sleep_count >= IS_OVER <=> Ended
    BY <1>a, <2>1 DEF Counting
  <2>3. UNCHANGED sleep_count /\ Sleepers' = Sleepers /\ Ended' = Ended
    BY <1>8, <2>2 DEF Woken, Sleepers, Counted, Ended
  <2> QED BY <1>1, <2>3
<1>9. CASE UNCHANGED sleepVars
  BY <1>1, <1>9 DEF sleepVars, Sleepers, Counted, Ended
<1> QED BY <1>2, <1>3, <1>4, <1>5, <1>6, <1>7, <1>8, <1>9 DEF SleepNext, System, AllLeft
(* What each green thread counts for. *)
LEMMA StepAccounting ==
  ASSUME SleepInv, [SleepNext]_sleepVars
  PROVE  Accounting'
<1> USE DEF SleepInv, Types, Control, Step, PC
<1>a. /\ Busy \subseteq Sys /\ Holders \subseteq Sys
      /\ Cardinality(Busy) \in Nat /\ Cardinality(Holders) \in Nat
  BY Cards DEF Busy, Holders
<1>1. CASE UNCHANGED <<nrunnable, wakes>> /\ Busy' = Busy /\ Holders' = Holders
  BY <1>1 DEF Accounting
<1>2. CASE Launch
  <2>1. UNCHANGED <<nrunnable, wakes>> /\ Busy' = Busy /\ Holders' = Holders
    BY <1>2 DEF Launch, SetStart, WakeStarted, Busy, Holders
  <2> QED BY <1>1, <2>1
<1>3. ASSUME NEW s \in Sys, \/ SpuriousWake(s) \/ StartWait(s) \/ Check(s) \/ LastRunning(s) \/ Over(s)
                            \/ Signal(s) \/ Sleep(s) \/ Compare(s) \/ Wait(s) \/ Uncount(s)
                            \/ Woken(s)
      PROVE  Accounting'
  <2>1. UNCHANGED <<nrunnable, wakes>> /\ Busy' = Busy /\ Holders' = Holders
    BY <1>3 DEF SpuriousWake, StartWait, Check, LastRunning, Over, Signal, Sleep, Compare, Wait, Uncount,
                Woken, FutexWait, FutexWakeAll, Busy, Holders
  <2> QED BY <1>1, <2>1
<1>4. ASSUME NEW s \in Sys, Wake(s) PROVE Accounting'
  <2>1. Busy' = Busy /\ Holders' = Holders
    BY <1>4 DEF Wake, Busy, Holders
  <2> QED BY <1>4, <1>a, <2>1 DEF Wake, Accounting
<1>5. ASSUME NEW s \in Sys, Select(s) PROVE Accounting'
  <2>1. Holders' = Holders
    BY <1>5 DEF Select, Holders
  <2>2. CASE nrunnable > 0
    <3>1. Busy' = Busy \cup {s} /\ s \notin Busy
      BY <1>5, <2>2 DEF Select, Busy
    <3>2. Cardinality(Busy') = Cardinality(Busy) + 1
      BY <1>a, <3>1, Cards
    <3> QED BY <1>5, <1>a, <2>1, <2>2, <3>2 DEF Select, Accounting
  <2>3. CASE ~(nrunnable > 0)
    <3>1. Busy' = Busy
      BY <1>5, <2>3 DEF Select, Busy
    <3> QED BY <1>5, <2>1, <2>3, <3>1 DEF Select, Accounting
  <2> QED BY <2>2, <2>3
<1>6. ASSUME NEW s \in Sys, Park(s) PROVE Accounting'
  <2>1. Busy' = Busy
    BY <1>6 DEF Park, Busy
  <2>2. CASE hold[s]
    <3>1. Holders' = Holders \ {s} /\ s \in Holders
      BY <1>6, <2>2 DEF Park, Holders
    <3>2. Cardinality(Holders') = Cardinality(Holders) - 1
      BY <1>a, <3>1, Cards
    <3> QED BY <1>6, <1>a, <2>1, <2>2, <3>2 DEF Park, Accounting
  <2>3. CASE ~hold[s]
    <3>1. Holders' = Holders
      BY <1>6, <2>3 DEF Park, Holders
    <3> QED BY <1>6, <2>1, <2>3, <3>1 DEF Park, Accounting
  <2> QED BY <2>2, <2>3
<1>7. ASSUME NEW s \in Sys, SwitchOut(s) PROVE Accounting'
  <2>1. Busy' = Busy \ {s} /\ s \in Busy /\ s \notin Holders
    BY <1>7 DEF SwitchOut, Busy, Holders, HoldPlaces
  <2>2. Cardinality(Busy') = Cardinality(Busy) - 1
    BY <1>a, <2>1, Cards
  <2>3. Holders' = Holders \/ Holders' = Holders \cup {s}
    BY <1>7, <2>1 DEF SwitchOut, Holders
  <2>4. Cardinality(Holders') <= Cardinality(Holders) + 1 /\ Cardinality(Holders') \in Nat
    BY <1>a, <2>1, <2>3, Cards
  <2> QED BY <1>7, <1>a, <2>2, <2>4 DEF SwitchOut, Accounting
<1>8. CASE UNCHANGED sleepVars
  BY <1>1, <1>8 DEF sleepVars, Busy, Holders
<1> QED BY <1>2, <1>3, <1>4, <1>5, <1>6, <1>7, <1>8 DEF SleepNext, System, AllLeft

(* The decision to end: it is taken by the last one, when nobody is awake. *)
LEMMA StepControl ==
  ASSUME SleepInv, [SleepNext]_sleepVars
  PROVE  Control'
<1> USE DEF SleepInv, Types, Control, Step, PC, HoldPlaces, AwakeIfRunnable, Awake, OneDecides, NoEarlyEnd
<1>1. CASE Launch
  BY <1>1 DEF Launch, SetStart, WakeStarted
<1>2. ASSUME NEW s \in Sys, StartWait(s) PROVE Control'
  BY <1>2 DEF StartWait, FutexWait
<1>3. ASSUME NEW s \in Sys, Select(s) PROVE Control'
  BY <1>3 DEF Select
<1>4. ASSUME NEW s \in Sys, Park(s) PROVE Control'
  BY <1>4 DEF Park
<1>5. ASSUME NEW s \in Sys, Wake(s) PROVE Control'
  BY <1>5 DEF Wake
<1>6. ASSUME NEW s \in Sys, SwitchOut(s) PROVE Control'
  BY <1>6 DEF SwitchOut
<1>7. ASSUME NEW s \in Sys, Check(s) PROVE Control'
  BY <1>7 DEF Check, FutexWakeAll
<1>8. ASSUME NEW s \in Sys, LastRunning(s) PROVE Control'
  <2>1. CASE sleep_count = total_sys - 1
    <3>1. ~Ended /\ \A r \in Sys \ {s} : Counted(r)
      BY <1>8, <2>1, OthersSleep DEF LastRunning
    <3> QED BY <1>8, <2>1, <3>1 DEF LastRunning, Counted
  <2>2. CASE sleep_count # total_sys - 1
    BY <1>8, <2>2 DEF LastRunning
  <2> QED BY <2>1, <2>2
<1>9. ASSUME NEW s \in Sys, Over(s) PROVE Control'
  BY <1>9 DEF Over
<1>10. ASSUME NEW s \in Sys, Signal(s) PROVE Control'
  BY <1>10 DEF Signal, FutexWakeAll
<1>11. ASSUME NEW s \in Sys, Sleep(s) \/ Compare(s) \/ SpuriousWake(s) \/ Uncount(s) PROVE Control'
  BY <1>11 DEF Sleep, Compare, SpuriousWake, Uncount
<1>12. ASSUME NEW s \in Sys, Wait(s) PROVE Control'
  BY <1>12 DEF Wait, FutexWait
<1>13. ASSUME NEW s \in Sys, Woken(s) PROVE Control'
  <2>1. /\ Cardinality(Sleepers) \in Nat /\ Cardinality(Sleepers) <= total_sys
        /\ total_sys \in Nat /\ IS_OVER \in Nat /\ IS_OVER > total_sys
    BY Cards, SysSleepAssumption DEF Sleepers
  <2>2. sleep_count >= IS_OVER => Ended
    BY <2>1 DEF Counting
  <2> QED BY <1>13, <2>2 DEF Woken, Ended
<1>14. CASE UNCHANGED sleepVars
  BY <1>14 DEF sleepVars
<1> QED BY <1>1, <1>2, <1>3, <1>4, <1>5, <1>6, <1>7, <1>8, <1>9, <1>10, <1>11, <1>12, <1>13, <1>14
        DEF SleepNext, System, AllLeft

(* At the start every system thread is awake. *)
LEMMA InitSleepInv == SleepInit => SleepInv
<1> SUFFICES ASSUME SleepInit PROVE SleepInv
  OBVIOUS
<1>a. total_sys \in Nat /\ IS_OVER \in Nat /\ MaxWakes \in Nat
  BY Cards, SysSleepAssumption
<1>1. Types
  BY <1>a DEF SleepInit, Types, PC
<1>2. Sleepers = {} /\ Busy = {} /\ Holders = {} /\ ~Ended
  BY DEF SleepInit, Sleepers, Counted, Busy, Holders, Ended
<1>3. Counting /\ Accounting
  BY <1>2, FS_EmptySet DEF SleepInit, Counting, Accounting
<1>4. Control
  BY DEF SleepInit, Control, HoldPlaces, AwakeIfRunnable, Awake, OneDecides, NoEarlyEnd
<1> QED BY <1>1, <1>3, <1>4 DEF SleepInv

-----------------------------------------------------------------------------
(* The theorems. *)

(* The invariant holds in every reachable state. *)
THEOREM SleepInvariance == SleepSpec => []SleepInv
<1>1. SleepInit => SleepInv
  BY InitSleepInv
<1>2. SleepInv /\ [SleepNext]_sleepVars => SleepInv'
  BY StepTypes, StepCounting, StepAccounting, StepControl DEF SleepInv
<1> QED BY <1>1, <1>2, PTL DEF SleepSpec

(* sleep_count is the number of threads in sys_thread_sleep, and IS_OVER is added
   once: the assertion of sys_thread.c:63 never fails. *)
THEOREM SleepCountIsExact == SleepSpec => []SleepCountExact
<1>1. SleepInv => SleepCountExact
  <2> SUFFICES ASSUME SleepInv PROVE SleepCountExact
    OBVIOUS
  <2>1. /\ Cardinality(Sleepers) \in Nat /\ Cardinality(Sleepers) <= total_sys
        /\ Cardinality(Busy) \in Nat /\ Cardinality(Holders) \in Nat
        /\ total_sys \in Nat /\ IS_OVER \in Nat /\ MaxWakes \in Nat
    BY Cards, SysSleepAssumption DEF Sleepers, Busy, Holders
  <2>2. nrunnable \in 0 .. 1 + MaxWakes
    BY <2>1 DEF SleepInv, Types, Accounting
  <2>3. sleep_count \in 0 .. IS_OVER + total_sys
    BY <2>1 DEF SleepInv, Types, Counting
  <2>4. SleepTypeOK
    BY <2>2, <2>3 DEF SleepInv, Types, SleepTypeOK
  <2> QED BY <2>4 DEF SleepInv, Counting, Sleepers, Ended, SleepCountExact
<1> QED BY <1>1, SleepInvariance, PTL

(* The program does not end while a thread is RUNNABLE, runs or is switched,
   though the list and sleep_count are read at different times (schedule.c:184-213). *)
THEOREM NoEarlyEndEver == SleepSpec => []NoEarlyEnd
<1>1. SleepInv => NoEarlyEnd
  BY DEF SleepInv, Control
<1> QED BY <1>1, SleepInvariance, PTL
=============================================================================
