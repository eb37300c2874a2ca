----------------------------- MODULE BufferPool -----------------------------
(***************************************************************************)
(* cudaforge::memory::BufferPool (csrc/src/memory/buffer_pool.cpp) over    *)
(* BlockAllocator: released buffers are kept in buckets by size and handed *)
(* out again; when the allocator is out of memory the cached buffers are   *)
(* purged and the allocation is tried once more.                           *)
(*                                                                         *)
(* mutex_ is modelled by owner.  It is held across the allocator's calls,  *)
(* which interleave with those of threads that use the allocator directly, *)
(* and given up around the purge: an acquire that misses goes through      *)
(*   idle -> first -> (purge -> purging -> retry -> second) -> idle.       *)
(* bytes = 0, untracked pointers and buffers already free return at once.  *)
(* What happens under mutex_ between two calls of the allocator is done in *)
(* one step: nobody can see it half done.                                  *)
(***************************************************************************)
EXTENDS BlockAllocator, Sequences, SequencesExt

CONSTANTS
  Direct,            \* threads that call the allocator, not the pool
  max_cached_bytes,  \* max_cached_bytes_
  MaxPower,          \* bound: buckets are 256 * 2^0 .. 256 * 2^MaxPower
  NoThread           \* nobody holds mutex_

ASSUME BufferPoolAssumption ==
  /\ Direct \subseteq Threads
  /\ max_cached_bytes \in Nat /\ MaxPower \in Nat
  /\ \A n \in Sizes : n <= 256 * 2^MaxPower
  /\ NoThread \notin Threads

VARIABLES
  owner,                  \* mutex_
  pc,                     \* where a thread is in acquire or purge
  want,                   \* arguments of its acquire
  pool_nodes,             \* pool_nodes_; asked is history: the category asked for
  free_buckets,           \* free_buckets_: the last released buffer at the end
  total_pooled_bytes,
  active_bytes,
  free_cached_bytes,
  peak_pooled_bytes,
  total_requested_bytes

nodes == <<pool_nodes, free_buckets>>
counters == <<total_pooled_bytes, active_bytes, free_cached_bytes,
              total_requested_bytes>>
poolvars == <<owner, pc, want, nodes, counters, peak_pooled_bytes>>
allvars == <<vars, poolvars>>

Users == Threads \ Direct

Buckets == {256 * 2^k : k \in 0..MaxPower}

(* (a fact of arithmetic that the proofs take from here) *)
ASSUME PowerAssumption == \A k \in 0..MaxPower : 2^k \in Nat

calculate_bucket_size(bytes) ==
  CHOOSE b \in Buckets : b >= bytes /\ \A a \in Buckets : a >= bytes => a >= b

NoWant == [bytes |-> 0, category |-> "WORKSPACE"]

PoolInit ==
  /\ Init
  /\ owner = NoThread
  /\ pc = [t \in Users |-> "idle"]
  /\ want = [t \in Users |-> NoWant]
  /\ pool_nodes = <<>>
  /\ free_buckets = [b \in Buckets |-> <<>>]
  /\ total_pooled_bytes = 0 /\ active_bytes = 0 /\ free_cached_bytes = 0
  /\ peak_pooled_bytes = 0 /\ total_requested_bytes = 0

-----------------------------------------------------------------------------
Pooled == DOMAIN pool_nodes

Cached == {p \in Pooled : ~pool_nodes[p].in_use}

Lock(t) == owner = NoThread /\ owner' = t

(* (the buffer stays in its bucket) *)
NotTaken(b) == free_buckets[b]

Taken(b) == Front(free_buckets[b])

(* acquire, a cached buffer: whatever its category and its stream. *)
AcquireHit(t, bytes, c) ==
  LET b == calculate_bucket_size(bytes)
      p == Last(free_buckets[b])
  IN
  /\ pc[t] = "idle" /\ owner = NoThread
  /\ free_buckets[b] # <<>>
  /\ free_buckets' = [free_buckets EXCEPT ![b] = Taken(b)]
  /\ pool_nodes' = [pool_nodes EXCEPT ![p] =
       [@ EXCEPT !.in_use = TRUE, !.requested = bytes, !.asked = c]]
  /\ free_cached_bytes' = free_cached_bytes - b
  /\ active_bytes' = active_bytes + b
  /\ total_requested_bytes' = total_requested_bytes + bytes
  /\ UNCHANGED <<vars, owner, pc, want, total_pooled_bytes, peak_pooled_bytes>>

(* acquire, no cached buffer: the first attempt_allocation begins. *)
AcquireMiss(t, bytes, c) ==
  /\ pc[t] = "idle"
  /\ free_buckets[calculate_bucket_size(bytes)] = <<>>
  /\ Lock(t)
  /\ pc' = [pc EXCEPT ![t] = "first"]
  /\ want' = [want EXCEPT ![t] = [bytes |-> bytes, category |-> c]]
  /\ AllocateCheck(t, calculate_bucket_size(bytes), c)
  /\ UNCHANGED <<nodes, counters, peak_pooled_bytes>>

(* attempt_allocation has the memory: a node in use is recorded. *)
AcquireGot(t) ==
  LET b == calculate_bucket_size(want[t].bytes)
      p == call[t].ptr
  IN
  /\ pc[t] \in {"first", "second"}
  /\ call[t].op = "returned" /\ Return(t)
  /\ pool_nodes' = [q \in Pooled \cup {p} |->
       IF q = p
       THEN [capacity |-> b, requested |-> want[t].bytes, in_use |-> TRUE,
             category |-> want[t].category, asked |-> want[t].category]
       ELSE pool_nodes[q]]
  /\ total_pooled_bytes' = total_pooled_bytes + b
  /\ active_bytes' = active_bytes + b
  /\ total_requested_bytes' = total_requested_bytes + want[t].bytes
  /\ peak_pooled_bytes' = Larger(peak_pooled_bytes, total_pooled_bytes')
  /\ owner' = NoThread
  /\ pc' = [pc EXCEPT ![t] = "idle"]
  /\ want' = [want EXCEPT ![t] = NoWant]
  /\ UNCHANGED <<free_buckets, free_cached_bytes>>

(* The first attempt is out of memory: the mutex is given up for the purge.*)
AcquireOOM(t) ==
  /\ pc[t] = "first"
  /\ call[t].op = "failed" /\ Return(t)
  /\ owner' = NoThread
  /\ pc' = [pc EXCEPT ![t] = "purge"]
  /\ UNCHANGED <<want, nodes, counters, peak_pooled_bytes>>

(* (a retry that fails is purged for and retried like the first attempt) *)
FirstAgain(t) == "first"

RetryAttempt(t) == "second"

(* The mutex is taken again and the allocation, not the bucket, is tried.  *)
AcquireRetry(t) ==
  /\ pc[t] = "retry"
  /\ Lock(t)
  /\ pc' = [pc EXCEPT ![t] = RetryAttempt(t)]
  /\ AllocateCheck(t, calculate_bucket_size(want[t].bytes), want[t].category)
  /\ UNCHANGED <<want, nodes, counters, peak_pooled_bytes>>

(* BufferPoolOOMException. *)
AcquireThrows(t) ==
  /\ pc[t] = "second"
  /\ call[t].op = "failed" /\ Return(t)
  /\ owner' = NoThread
  /\ pc' = [pc EXCEPT ![t] = "idle"]
  /\ want' = [want EXCEPT ![t] = NoWant]
  /\ UNCHANGED <<nodes, counters, peak_pooled_bytes>>

-----------------------------------------------------------------------------
(* (a buffer already free can be released again) *)
AnyNode(p) == p \in Pooled

InUse(p) == p \in Pooled /\ pool_nodes[p].in_use

(* release: the cache limit is compared with, and nothing is trimmed. *)
Release(t, p) ==
  LET b == pool_nodes[p].capacity
  IN
  /\ pc[t] = "idle" /\ owner = NoThread
  /\ InUse(p)
  /\ pool_nodes' = [pool_nodes EXCEPT ![p] = [@ EXCEPT !.in_use = FALSE]]
  /\ free_buckets' = [free_buckets EXCEPT ![b] = Append(@, p)]
  /\ active_bytes' = active_bytes - b
  /\ total_requested_bytes' = total_requested_bytes - pool_nodes[p].requested
  /\ free_cached_bytes' = free_cached_bytes + b
  /\ UNCHANGED <<vars, owner, pc, want, total_pooled_bytes, peak_pooled_bytes>>

(* purge_free_buffers, called by acquire or by a user of the pool. *)
PurgeBegin(t) ==
  /\ pc[t] \in {"idle", "purge"}
  /\ Lock(t)
  /\ pc' = [pc EXCEPT ![t] = "purging"]
  /\ UNCHANGED <<vars, want, nodes, counters, peak_pooled_bytes>>

NodesWithout(p) == [q \in Pooled \ {p} |-> pool_nodes[q]]

PurgeFree(t) ==
  /\ pc[t] = "purging"
  /\ \E b \in Buckets :
       LET p == Head(free_buckets[b])
       IN
       /\ free_buckets[b] # <<>>
       /\ FreeRecord(t, p)
       /\ pool_nodes' = NodesWithout(p)
       /\ free_buckets' = [free_buckets EXCEPT ![b] = Tail(@)]
       /\ total_pooled_bytes' = total_pooled_bytes - pool_nodes[p].capacity
       /\ free_cached_bytes' = free_cached_bytes - pool_nodes[p].capacity
  /\ UNCHANGED <<owner, pc, want, active_bytes, total_requested_bytes,
                 peak_pooled_bytes>>

PurgeEnd(t) ==
  /\ pc[t] = "purging" /\ call[t].op = "idle"
  /\ \A b \in Buckets : free_buckets[b] = <<>>
  /\ owner' = NoThread
  /\ pc' = [pc EXCEPT ![t] = IF want[t] = NoWant THEN "idle" ELSE "retry"]
  /\ UNCHANGED <<vars, want, nodes, counters, peak_pooled_bytes>>

reset_stats ==
  /\ owner = NoThread
  /\ peak_pooled_bytes' = total_pooled_bytes
  /\ UNCHANGED <<vars, owner, pc, want, nodes, counters>>

-----------------------------------------------------------------------------
(* The driver calls and the second critical section of the allocator. *)
AllocatorStep(t) ==
  /\ \/ CudaMallocAsync(t) \/ CudaMallocAsyncFails(t) \/ AllocateRecord(t)
     \/ CudaFreeAsync(t) \/ CudaFreeAsyncFails(t)
  /\ UNCHANGED poolvars

(* Other users of the allocator: they free only what they allocated. *)
DirectStep(t) ==
  /\ \/ \E n \in Sizes, c \in Categories : AllocateCheck(t, n, c)
     \/ Return(t)
     \/ \E p \in Ptrs \ Pooled : Known(p) /\ FreeRecord(t, p)
  /\ UNCHANGED poolvars

AcquireStep(t) ==
  AcquireGot(t) \/ AcquireOOM(t) \/ AcquireRetry(t) \/ AcquireThrows(t)

PurgeStep(t) == PurgeFree(t) \/ PurgeEnd(t)

PoolNext ==
  \/ \E t \in Users, n \in Sizes, c \in Categories : AcquireHit(t, n, c)
  \/ \E t \in Users, n \in Sizes, c \in Categories : AcquireMiss(t, n, c)
  \/ \E t \in Users : AcquireStep(t)
  \/ \E t \in Users, p \in Ptrs : Release(t, p)
  \/ \E t \in Users : PurgeBegin(t)
  \/ \E t \in Users : PurgeStep(t)
  \/ \E t \in Threads : AllocatorStep(t)
  \/ \E t \in Direct : DirectStep(t)
  \/ reset_stats

PoolSpec == PoolInit /\ [][PoolNext]_allvars

(* Threads are scheduled and every thread that waits for mutex_ gets it in *)
(* the end, whatever the competition for it.                               *)
FairPoolSpec ==
  /\ PoolSpec
  /\ \A t \in Threads : WF_allvars(AllocatorStep(t))
  /\ \A t \in Users :
       /\ WF_allvars(PurgeStep(t))
       /\ SF_allvars(AcquireStep(t))
       /\ SF_allvars(pc[t] = "purge" /\ PurgeBegin(t))

-----------------------------------------------------------------------------
PoolNode == [capacity : Buckets, requested : Nat, in_use : BOOLEAN,
             category : MemoryCategory, asked : MemoryCategory]

(* Every variable has its type; no counter is ever negative (size_t). *)
PoolTypeOK ==
  /\ TypeOK
  /\ owner \in Users \cup {NoThread}
  /\ pc \in [Users -> {"idle", "first", "purge", "purging", "retry", "second"}]
  /\ \A t \in Users : want[t] \in [bytes : Nat, category : MemoryCategory]
  /\ Pooled \subseteq Ptrs /\ \A p \in Pooled : pool_nodes[p] \in PoolNode
  /\ free_buckets \in [Buckets -> Seq(Ptrs)]
  /\ total_pooled_bytes \in Nat /\ active_bytes \in Nat
  /\ free_cached_bytes \in Nat /\ peak_pooled_bytes \in Nat
  /\ total_requested_bytes \in Nat

Capacity == [p \in Pooled |-> pool_nodes[p].capacity]

Requested == [p \in Pooled |-> pool_nodes[p].requested]

(* The counters are the sums over the nodes they summarise. *)
PoolAccountsExact ==
  /\ total_pooled_bytes = SumFunction(Capacity)
  /\ active_bytes = SumFunctionOnSet(Capacity, Pooled \ Cached)
  /\ free_cached_bytes = SumFunctionOnSet(Capacity, Cached)
  /\ total_requested_bytes = SumFunctionOnSet(Requested, Pooled \ Cached)

(* A buffer is in use, or free in the bucket of its capacity, where it is  *)
(* once: it is never handed to two callers.  And it is a block of the      *)
(* allocator's, of the size and the category the pool has on record, and   *)
(* large enough for the request.                                           *)
BufferInOneHand ==
  /\ \A b \in Buckets :
       /\ IsInjective(free_buckets[b])
       /\ ToSet(free_buckets[b]) = {p \in Cached : pool_nodes[p].capacity = b}
  /\ \A p \in Pooled :
       /\ p \in Tracked
       /\ active_allocations[p].size = pool_nodes[p].capacity
       /\ active_allocations[p].category = pool_nodes[p].category
       /\ pool_nodes[p].requested <= pool_nodes[p].capacity

(* The pool is consistent: the counters with the nodes, the nodes with the *)
(* buckets and with the allocator.                                         *)
PoolConsistent == PoolAccountsExact /\ BufferInOneHand

(* An acquire ends, with a buffer or with the exception: no thread waits   *)
(* for itself or for another one with the mutex held.                      *)
AcquireEnds == \A t \in Users : pc[t] # "idle" ~> pc[t] = "idle"

(* "Max VRAM bytes allowed to stay cached in free buckets" (buffer_pool.h).*)
CacheWithinLimit == free_cached_bytes <= max_cached_bytes

(* "Exceeded GPU memory limits even after recovery purge!": acquire throws *)
(* only when no free buffer of its bucket is cached.                       *)
DeniedOnlyWhenEmpty ==
  [][\A t \in Users : AcquireThrows(t) =>
       free_buckets[calculate_bucket_size(want[t].bytes)] = <<>>]_allvars

(* A buffer in use is accounted under the category it was acquired for.    *)
AskedIsAccounted ==
  \A p \in Pooled \ Cached :
    pool_nodes[p].asked = active_allocations[p].category
=============================================================================
