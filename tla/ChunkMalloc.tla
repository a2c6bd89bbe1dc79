---------------------------- MODULE ChunkMalloc ----------------------------
(***************************************************************************)
(* The chunk allocator of lab 1 (malloc.c:27-187).  The heap is an array   *)
(* of chunks, each with a descriptor; a region is a header chunk, which    *)
(* holds the size asked for between two magic values, and the data chunks  *)
(* after it.  An address is the number of a chunk.  The descriptors are    *)
(* not initialised: what a test that ran before left there, or any byte,   *)
(* may be in them.                                                         *)
(***************************************************************************)
EXTENDS Heap

CONSTANTS CHUNK_SIZE

(* The heap is made of whole chunks (malloc.h:12 and 50), so that chunk_bound, which
   is unsigned, does not wrap. *)
ASSUME ChunkAssumption == CHUNK_SIZE \in Nat \ {0} /\ ALLOC8R_HEAP_SIZE % CHUNK_SIZE = 0

CHUNK_ARENA_LENGTH == ALLOC8R_HEAP_SIZE \div CHUNK_SIZE

Chunks == 0 .. CHUNK_ARENA_LENGTH - 1

VARIABLES
  l1_chunk_meta,   \* the descriptors: 0, 1 or another byte
  header,          \* the size that a chunk holds between two magic values, or
                   \* NULL when it does not hold a header
  unset            \* history: the chunks with a descriptor that was never set

chunkVars == <<l1_chunk_meta, header, unset>>

ChunkTypeOK ==
  /\ l1_chunk_meta \in [Chunks -> {0, 1, 2}]
  /\ header \in [Chunks -> Requests \cup {NULL}]
  /\ unset \subseteq Chunks

l1_chunk_init ==
  /\ l1_chunk_meta \in [Chunks -> {0, 1, 2}]
  /\ header = [i \in Chunks |-> NULL]
  /\ unset = Chunks

(* Another allocator is in use: the arena is not there. *)
NoChunks ==
  /\ l1_chunk_meta = [i \in Chunks |-> 0]
  /\ header = [i \in Chunks |-> NULL]
  /\ unset = Chunks

IS_CHUNK_FREE(i) == l1_chunk_meta[i] = 0

Taken == {i \in Chunks : l1_chunk_meta[i] = 1}

chunk_count(bytes) == Ceiling(bytes, CHUNK_SIZE) + 1

Run(start, len) == start .. start + len - 1

(* Mutant: the last place is not tried. *)
Bound_OffByOne(len) == CHUNK_ARENA_LENGTH - len

(* No run of len chunks starts here or behind (chunk_bound; a request for the
   whole heap, with its header, is one chunk too long). *)
Bound(len) == CHUNK_ARENA_LENGTH - len + 1

(* A round of the loop: a head that is not free is passed over, a run that has a
   taken chunk is left behind its first one, and the search stays where it may
   allocate and at its end. *)
NextHead(here, len) ==
  LET taken == Run(here, len) \cap Taken
  IN  IF here >= Bound(len) THEN here
      ELSE IF ~IS_CHUNK_FREE(here) THEN here + 1
      ELSE IF taken # {} THEN 1 + CHOOSE i \in taken : \A j \in taken : i <= j
      ELSE here

(* The heads of the search, which ends after as many rounds as there are chunks. *)
Search(len) ==
  LET at[n \in 0 .. CHUNK_ARENA_LENGTH] == IF n = 0 THEN 0 ELSE NextHead(at[n - 1], len)
      head == at[CHUNK_ARENA_LENGTH]
  IN  IF head < Bound(len) THEN head ELSE NULL

SET(chunks, desc) ==
  /\ l1_chunk_meta' = [i \in Chunks |-> IF i \in chunks THEN desc ELSE l1_chunk_meta[i]]
  /\ unset' = unset \ chunks

l1_chunk_malloc(size) ==
  LET head == Search(chunk_count(size))
  IN  \/ /\ size = 0
         /\ Refuses(size, l1_errno)
         /\ UNCHANGED chunkVars
      \/ /\ size > ALLOC8R_HEAP_SIZE \/ (size # 0 /\ head = NULL)
         /\ Refuses(size, "ERRNOMEM")
         /\ UNCHANGED chunkVars
      \/ /\ size \in 1 .. ALLOC8R_HEAP_SIZE
         /\ head # NULL
         /\ SET(Run(head, chunk_count(size)), 1)
         /\ header' = [header EXCEPT ![head] = size]
         /\ Gives(size, head + 1)

(* The client writes into its data chunks, where old headers may be. *)
ChunkWrite(p) ==
  /\ header' = [i \in Chunks |->
                  IF i \in Run(p, chunk_count(live[p]) - 1) THEN NULL ELSE header[i]]
  /\ UNCHANGED <<l1_chunk_meta, unset, heapVars>>

(* The chunks of the region, if there is a header before p. *)
Released(p) ==
  IF header[p - 1] = NULL THEN {} ELSE Run(p - 1, chunk_count(header[p - 1]))

(* The header itself stays where it is. *)
l1_chunk_free(p) ==
  /\ SET(Released(p), 0)
  /\ UNCHANGED header
  /\ Frees(p)

(* The client frees what it holds, or a pointer behind what is no header. *)
Chunk ==
  \/ \E size \in Requests : l1_chunk_malloc(size)
  \/ \E p \in DOMAIN live : l1_chunk_free(p) \/ ChunkWrite(p)
  \/ \E i \in Chunks : header[i] = NULL /\ l1_chunk_free(i + 1)

-----------------------------------------------------------------------------
(* The chunks of the region at address p. *)
ChunkExtent(p) == Run(p - 1, chunk_count(live[p]))

(* The chunks of what the client holds are taken, each once, and every other
   chunk that was ever set is free: none is lost and none is given twice. *)
ChunksAccounted ==
  /\ \A p \in DOMAIN live : header[p - 1] = live[p] /\ ChunkExtent(p) \subseteq Taken \ unset
  /\ \A p, q \in DOMAIN live : p # q => ChunkExtent(p) \cap ChunkExtent(q) = {}
  /\ \A i \in Chunks \ unset :
       IS_CHUNK_FREE(i) \/ \E p \in DOMAIN live : i \in ChunkExtent(p)

(* There are free chunks in a row for size bytes and their header. *)
ChunkRoom(size) ==
  \E start \in Chunks :
    \A i \in Run(start, chunk_count(size)) : i \in Chunks /\ IS_CHUNK_FREE(i)
=============================================================================
