------------------------------- MODULE Malloc -------------------------------
(***************************************************************************)
(* The allocator interface of lab 1 (malloc.h, test_malloc.c): l1_malloc   *)
(* and l1_free are set to one of the allocators before l1_init is called,  *)
(* and the threads of a program then allocate and free in any order.       *)
(***************************************************************************)
EXTENDS ChunkMalloc, ListMalloc

VARIABLE l1_malloc   \* the allocator in use

mallocVars == <<l1_malloc, heapVars, chunkVars, listVars>>

MallocTypeOK ==
  /\ l1_malloc \in {"chunk", "list"}
  /\ HeapTypeOK /\ ChunkTypeOK /\ ListTypeOK

(* l1_init is that of the allocator in use. *)
MallocInit ==
  /\ HeapInit
  /\ l1_list_init
  /\ \/ l1_malloc = "chunk" /\ l1_chunk_init
     \/ l1_malloc = "list" /\ NoChunks

MallocNext ==
  /\ UNCHANGED l1_malloc
  /\ \/ l1_malloc = "chunk" /\ Chunk /\ UNCHANGED listVars
     \/ l1_malloc = "list" /\ List /\ UNCHANGED chunkVars

MallocSpec == MallocInit /\ [][MallocNext]_mallocVars

-----------------------------------------------------------------------------
(* The bookkeeping is exact after any sequence of calls: what the client holds
   and what is free make up the heap, nothing overlaps and nothing is lost
   (malloc.c:136-138 and 178-181; 263-284 and 304-305). *)
HeapAccounted ==
  /\ MallocTypeOK
  /\ IF l1_malloc = "chunk" THEN ChunksAccounted ELSE RegionsAccounted

(* A request is refused only when there is no room for it: the search neither
   jumps over a place (malloc.c:120-132) nor loses the end of the free list
   (malloc.c:249-257). *)
RefusedOnlyWhenFull ==
  refused \notin {NULL, 0} =>
    IF l1_malloc = "chunk" THEN ~ChunkRoom(refused) ELSE ~RegionRoom(refused)
=============================================================================
