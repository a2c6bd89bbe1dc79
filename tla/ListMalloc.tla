----------------------------- MODULE ListMalloc -----------------------------
(***************************************************************************)
(* The free list allocator of lab 1 (malloc.c:189-308).  The heap is tiled *)
(* with regions, each a header (magic values around the capacity) and its  *)
(* data; the first word of the data of a free region is the link to the    *)
(* next free region, that of a region in use belongs to the client.        *)
(* Addresses and sizes are in bytes.  Regions are split and never merged.  *)
(***************************************************************************)
EXTENDS Heap

CONSTANTS HEADER,   \* offsetof(l1_list_meta, next)
          ALIGN,    \* sizeof(max_align_t), the size of the padded link too
          DATA      \* what the client writes

ASSUME ListAssumption ==
  /\ ALIGN \in Nat \ {0} /\ HEADER \in Nat \ {0}
  /\ HEADER % ALIGN = 0 /\ ALLOC8R_HEAP_SIZE % ALIGN = 0
  /\ ALLOC8R_HEAP_SIZE >= HEADER + ALIGN
  /\ DATA \notin Int \cup {NULL}

VARIABLES
  l1_list_free_head,
  capacity,   \* of each region, by the position of its header
  next        \* the first word of the data of each region

listVars == <<l1_list_free_head, capacity, next>>

Positions == {i \in 0 .. ALLOC8R_HEAP_SIZE : i % ALIGN = 0}

Regions == DOMAIN capacity

ListTypeOK ==
  /\ l1_list_free_head \in Regions \cup {NULL}
  /\ Regions \subseteq Positions
  /\ \A r \in Regions : capacity[r] \in Positions \ {0}
  /\ DOMAIN next = Regions
  /\ \A r \in Regions : next[r] \in Regions \cup {NULL, DATA}

l1_list_init ==
  /\ l1_list_free_head = 0
  /\ capacity = [r \in {0} |-> ALLOC8R_HEAP_SIZE - HEADER]
  /\ next = [r \in {0} |-> NULL]

(* The regions met along the free list up to its end, or after as many steps as
   there are regions. *)
FreeList ==
  LET at[n \in 1 .. Cardinality(Regions) + 1] ==
        IF n = 1 THEN l1_list_free_head
        ELSE IF at[n - 1] \in Regions THEN next[at[n - 1]] ELSE NULL
      met == {n \in 1 .. Cardinality(Regions) + 1 : at[n] # NULL}
  IN  [n \in 1 .. Cardinality(met) |-> at[n]]

aligned_sz(size) == Ceiling(size, ALIGN) * ALIGN

(* Mutant: a region of no bytes is large enough. *)
min_reg_sz_Empty == HEADER

(* sizeof(l1_list_meta), which is padded, and one aligned piece of data. *)
min_reg_sz == HEADER + ALIGN + ALIGN

(* Mutant: the header of the rest is not accounted for. *)
Take_NoHeader(cur, prev, size) ==
  LET rest == cur + HEADER + aligned_sz(size)
      split == capacity[cur] >= aligned_sz(size) + min_reg_sz
      added == IF split THEN {rest} ELSE {}
      successor == IF split THEN rest ELSE next[cur]
  IN  /\ capacity' = [r \in Regions \cup added |->
                        CASE r = cur /\ split -> aligned_sz(size)
                          [] r \in added -> capacity[cur] - aligned_sz(size)
                          [] OTHER -> capacity[r]]
      /\ next' = [r \in Regions \cup added |->
                    CASE r = cur -> NULL
                      [] r \in added -> next[cur]
                      [] r = prev -> successor
                      [] OTHER -> next[r]]
      /\ l1_list_free_head' = IF prev = NULL THEN successor ELSE l1_list_free_head

(* Lines 263-283: the free region cur is taken, prev being the one before it in
   the list, or NULL.  If it is large enough the rest becomes a free region,
   which has its place in the list (update_list). *)
Take(cur, prev, size) ==
  LET rest == cur + HEADER + aligned_sz(size)
      split == capacity[cur] >= aligned_sz(size) + min_reg_sz
      added == IF split THEN {rest} ELSE {}
      successor == IF split THEN rest ELSE next[cur]
  IN  /\ capacity' = [r \in Regions \cup added |->
                        CASE r = cur /\ split -> aligned_sz(size)
                          [] r \in added -> capacity[cur] - HEADER - aligned_sz(size)
                          [] OTHER -> capacity[r]]
      /\ next' = [r \in Regions \cup added |->
                    CASE r = cur -> NULL
                      [] r \in added -> next[cur]
                      [] r = prev -> successor
                      [] OTHER -> next[r]]
      /\ l1_list_free_head' = IF prev = NULL THEN successor ELSE l1_list_free_head

(* First fit: the place of the first free region that is large enough. *)
FirstFit(size) ==
  {i \in DOMAIN FreeList : /\ capacity[FreeList[i]] >= aligned_sz(size)
                           /\ \A j \in 1 .. i - 1 :
                                capacity[FreeList[j]] < aligned_sz(size)}

l1_list_malloc(size) ==
  \/ /\ size = 0
     /\ Refuses(size, l1_errno)
     /\ UNCHANGED listVars
  \/ /\ size > ALLOC8R_HEAP_SIZE - HEADER
     /\ Refuses(size, "ERRNOMEM")
     /\ UNCHANGED listVars
  \/ /\ size \in 1 .. ALLOC8R_HEAP_SIZE - HEADER
     /\ FirstFit(size) = {}
     /\ Refuses(size, l1_errno)
     /\ UNCHANGED listVars
  \/ /\ size \in 1 .. ALLOC8R_HEAP_SIZE - HEADER
     /\ \E i \in FirstFit(size) :
          /\ Take(FreeList[i], IF i = 1 THEN NULL ELSE FreeList[i - 1], size)
          /\ Gives(size, FreeList[i] + HEADER)

(* The client writes its data. *)
ListWrite(p) ==
  /\ next' = [next EXCEPT ![p - HEADER] = DATA]
  /\ UNCHANGED <<l1_list_free_head, capacity, heapVars>>

(* The region enters the list at its head. *)
l1_list_free(p) ==
  /\ p - HEADER \in Regions
  /\ next' = [next EXCEPT ![p - HEADER] = l1_list_free_head]
  /\ l1_list_free_head' = p - HEADER
  /\ UNCHANGED capacity
  /\ Frees(p)

(* There are no magic values before p: ERRINVAL. *)
NotFreed(p) ==
  /\ p - HEADER \in Positions \ Regions
  /\ UNCHANGED listVars
  /\ Frees(p)

List ==
  \/ \E size \in Requests : l1_list_malloc(size)
  \/ \E p \in DOMAIN live : l1_list_free(p) \/ ListWrite(p)
  \/ \E p \in Positions : NotFreed(p)

-----------------------------------------------------------------------------
(* From the header to the end of the data. *)
RegionExtent(r) == r .. r + HEADER + capacity[r] - 1

(* The regions tile the heap; each is in use, and large enough for what was
   asked, or is on the free list, once.  A region that is in use cannot be
   reached over the free list, whatever the client writes. *)
RegionsAccounted ==
  /\ UNION {RegionExtent(r) : r \in Regions} = 0 .. ALLOC8R_HEAP_SIZE - 1
  /\ \A r, s \in Regions : r # s => RegionExtent(r) \cap RegionExtent(s) = {}
  /\ \A p \in DOMAIN live : p - HEADER \in Regions /\ live[p] <= capacity[p - HEADER]
  /\ {FreeList[i] : i \in DOMAIN FreeList} = Regions \ {p - HEADER : p \in DOMAIN live}
  /\ \A i, j \in DOMAIN FreeList : FreeList[i] = FreeList[j] => i = j

(* There is a region for size bytes that is not in use. *)
RegionRoom(size) ==
  \E r \in Regions : r + HEADER \notin DOMAIN live /\ capacity[r] >= size
=============================================================================
