-------------------------- MODULE DramblastMemory --------------------------
(***************************************************************************)
(* The memory of the dramblast table (l2fwd/libsashstore/dramblast.c):     *)
(* dramblast_init allocates the root, the queue descriptors and one find   *)
(* queue per CPU on the heap and maps the table on huge pages;             *)
(* dramblast_destroy gives all of it back.  Startup calls both.            *)
(*                                                                         *)
(* A pointer is NULL exactly when its object is not on the heap.  Sizes    *)
(* are bytes.                                                              *)
(***************************************************************************)
EXTENDS Integers

CONSTANTS MaxCpu,      \* MAX_CPU, the length of ht->queues
          Lanes,       \* slots of a bucket
          KvSize,      \* sizeof(dramblast_kv_t)
          SmallPage,   \* PAGE_SIZE_2MB
          LargePage    \* PAGE_SIZE_1GB

ASSUME MemoryAssumption ==
    /\ MaxCpu \in Nat \ {0}
    /\ Lanes \in Nat \ {0} /\ KvSize \in Nat \ {0}
    /\ SmallPage \in Nat \ {0} /\ LargePage \in Nat \ {0}
    /\ LargePage % SmallPage = 0
    /\ Lanes * KvSize <= SmallPage

VARIABLES mem,       \* how far dramblast_init or dramblast_destroy has come
          heap,      \* live heap objects
          cpu,       \* the loop counter of both
          len,       \* ht->len
          mapping    \* the table: bytes still mapped, and the size of a page

memVars == <<mem, heap, cpu, len, mapping>>

FindQueueOf(c) == <<"find_queue", c>>
Root == <<"dramblast_ht", 0>>
Queues == <<"queues", 0>>
NoMapping == [bytes |-> 0, page |-> 1]

MemInit ==
    /\ mem = "new"
    /\ heap = {}
    /\ cpu = 0
    /\ len = 0
    /\ mapping = NoMapping

AlignUp(x, align) == ((x + align - 1) \div align) * align

\* "Helper function to guarantee consistent alignment across init and destroy"
get_aligned_table_size(bytes) ==
    AlignUp(bytes, IF bytes > LargePage THEN LargePage ELSE SmallPage)

\* The bytes a capacity needs.
Bytes(capacity) == capacity * KvSize

-----------------------------------------------------------------------------
(* dramblast_init                                                           *)

\* "Aligned alloc failed!" ends the program.
AllocRoot ==
    /\ mem = "new"
    /\ \/ mem' = "queues" /\ heap' = heap \cup {Root}
       \/ mem' = "no_memory" /\ UNCHANGED heap
    /\ UNCHANGED <<cpu, len, mapping>>

\* Not checked: the loop writes through the pointer.
AllocQueues ==
    /\ mem = "queues"
    /\ \/ mem' = "find_queues" /\ heap' = heap \cup {Queues}
       \/ mem' = "null_write" /\ UNCHANGED heap
    /\ UNCHANGED <<cpu, len, mapping>>

\* One find queue per CPU; not checked either, so one may be missing.
AllocFindQueue ==
    /\ mem = "find_queues" /\ cpu < MaxCpu
    /\ heap' \in {heap, heap \cup {FindQueueOf(cpu)}}
    /\ cpu' = cpu + 1
    /\ UNCHANGED <<mem, len, mapping>>

\* Mutant: the mapping is not rounded up to whole pages.
MapTableUnaligned(capacity) ==
    /\ mem = "find_queues" /\ cpu = MaxCpu
    /\ len' = capacity
    /\ mem' = "ready"
    /\ mapping' = [bytes |-> Bytes(capacity), page |-> SmallPage]
    /\ UNCHANGED <<heap, cpu>>

\* allocate_dramblast_table maps whole pages and clears them;
\* "dramblast->table alloc failed!" ends the program.
MapTable(capacity) ==
    /\ mem = "find_queues" /\ cpu = MaxCpu
    /\ len' = capacity
    /\ \/ /\ mem' = "ready"
          /\ mapping' = [bytes |-> get_aligned_table_size(Bytes(capacity)),
                         page |-> IF Bytes(capacity) > LargePage THEN LargePage
                                  ELSE SmallPage]
       \/ mem' = "no_memory" /\ UNCHANGED mapping
    /\ UNCHANGED <<heap, cpu>>

dramblast_init(capacity) ==
    AllocRoot \/ AllocQueues \/ AllocFindQueue \/ MapTable(capacity)

-----------------------------------------------------------------------------
(* dramblast_destroy                                                        *)

\* munmap (external) refuses a length that is not a multiple of the page size
\* and otherwise removes whole pages from the front of the mapping.
munmap(bytes) ==
    mapping' = IF bytes % mapping.page # 0 THEN mapping
               ELSE IF bytes >= mapping.bytes THEN NoMapping
               ELSE [mapping EXCEPT !.bytes = @ - bytes]

\* dramblast_ht is NULL: there is nothing to destroy.
DestroyNothing ==
    /\ mem = "new" /\ Root \notin heap
    /\ mem' = "gone"
    /\ UNCHANGED <<heap, cpu, len, mapping>>

\* Mutant: the table's bytes, not the mapped ones, are unmapped.
UnmapTableBytes ==
    /\ mem = "ready" /\ Root \in heap
    /\ munmap(Bytes(len))
    /\ mem' = "unmapped"
    /\ cpu' = 0
    /\ UNCHANGED <<heap, len>>

\* "Calculate the exact aligned size that was mapped"
UnmapTable ==
    /\ mem = "ready" /\ Root \in heap
    /\ munmap(get_aligned_table_size(Bytes(len)))
    /\ mem' = "unmapped"
    /\ cpu' = 0
    /\ UNCHANGED <<heap, len>>

FreeFindQueue ==
    /\ mem = "unmapped" /\ cpu < MaxCpu
    /\ heap' = heap \ {FindQueueOf(cpu)}
    /\ cpu' = cpu + 1
    /\ UNCHANGED <<mem, len, mapping>>

\* The queue descriptors, then the root; its pointer becomes NULL.
FreeRoot ==
    /\ mem = "unmapped" /\ cpu = MaxCpu
    /\ heap' = heap \ {Queues, Root}
    /\ mem' = "gone"
    /\ UNCHANGED <<cpu, len, mapping>>

dramblast_destroy == DestroyNothing \/ UnmapTable \/ FreeFindQueue \/ FreeRoot

-----------------------------------------------------------------------------
(* What a lookup touches                                                    *)

\* dramblast_hash: "& (len - 1)" and "& ~0x3".
BucketOf(hash) == (hash % len) - ((hash % len) % Lanes)

\* The slots of the bucket loads a lookup makes: its home bucket and the ones
\* it goes on to, idx = (idx + Lanes) & (len - 1).
LoadedSlots ==
    {((BucketOf(h) + Lanes * n) % len) + l :
        h \in 0 .. len - 1, n \in 0 .. len, l \in 0 .. Lanes - 1}

=============================================================================
