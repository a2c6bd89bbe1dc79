-------------------------------- MODULE Heap --------------------------------
(***************************************************************************)
(* What the two heap allocators of lab 1 (src/os21-lab1/done/malloc.c)     *)
(* share: a heap of ALLOC8R_HEAP_SIZE bytes, the error variable, and the   *)
(* client, which frees once what it has been given.                        *)
(***************************************************************************)
EXTENDS Null, Integers, FiniteSets, Sequences

CONSTANTS ALLOC8R_HEAP_SIZE,
          Requests             \* the sizes that are asked for

ASSUME HeapAssumption ==
  /\ ALLOC8R_HEAP_SIZE \in Nat \ {0}
  /\ Requests \subseteq Nat
  /\ NULL \notin Int

VARIABLES
  l1_errno,
  live,      \* what the client holds: the size asked for, by address
  refused    \* the size that the last call was asked for and did not give

heapVars == <<l1_errno, live, refused>>

HeapTypeOK ==
  /\ l1_errno \in {"SUCCESS", "ERRNOMEM"}
  /\ DOMAIN live \subseteq 0 .. ALLOC8R_HEAP_SIZE
  /\ \A p \in DOMAIN live : live[p] \in Requests \ {0}
  /\ refused \in Requests \cup {NULL}

HeapInit ==
  /\ l1_errno = "SUCCESS"
  /\ live = [p \in {} |-> 0]
  /\ refused = NULL

(* malloc(size) returns NULL and leaves l1_errno as errno. *)
Refuses(size, errno) ==
  /\ l1_errno' = errno
  /\ refused' = size
  /\ UNCHANGED live

(* malloc(size) returns p. *)
Gives(size, p) ==
  /\ live' = [q \in DOMAIN live \cup {p} |-> IF q = p THEN size ELSE live[q]]
  /\ refused' = NULL
  /\ UNCHANGED l1_errno

(* free(p) returns SUCCESS, or ERRINVAL for a pointer the client does not hold. *)
Frees(p) ==
  /\ live' = [q \in DOMAIN live \ {p} |-> live[q]]
  /\ refused' = NULL
  /\ UNCHANGED l1_errno

(* How many pieces of n bytes hold size bytes. *)
Ceiling(size, n) == size \div n + IF size % n # 0 THEN 1 ELSE 0
=============================================================================
