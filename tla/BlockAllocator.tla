--------------------------- MODULE BlockAllocator ---------------------------
(***************************************************************************)
(* cudaforge::memory::BlockAllocator (csrc/src/memory/block_allocator.cpp):*)
(* threads allocate and free GPU memory; the allocator counts bytes under  *)
(* mutex_ but calls the CUDA driver without it.  Each critical section and *)
(* each driver call is an action.  An allocation goes through              *)
(*   idle -> malloc -> record -> returned,   or ends in failed,            *)
(* and a deallocation through idle -> cudaFree -> idle.                    *)
(*                                                                         *)
(* The driver is external: cudaMallocAsync returns an address that is not  *)
(* live or fails; cudaFreeAsync makes the address reusable or fails, which *)
(* the allocator only logs.  A request of 0 bytes returns nullptr, and     *)
(* freeing nullptr or an untracked pointer returns at once: no state       *)
(* changes.  Sizes stay far below 2^64, so that size_t does not wrap.      *)
(***************************************************************************)
EXTENDS Integers, FiniteSets, Functions

CONSTANTS
  Threads,     \* threads that call the allocator
  Ptrs,        \* device addresses the driver can return
  NoPtr,       \* nullptr
  Sizes,       \* bytes of a request
  Categories,  \* MemoryCategory values used
  Threshold    \* vram_safety_threshold_bytes_

ASSUME BlockAllocatorAssumption ==
  /\ NoPtr \notin Ptrs
  /\ IsFiniteSet(Threads) /\ Threads # {}
  /\ Sizes \subseteq Nat \ {0}
  /\ \E largest \in Sizes : \A n \in Sizes : n <= largest
  /\ Categories \subseteq {"WEIGHTS", "ACTIVATIONS", "WORKSPACE", "KV_CACHE"}
  /\ Threshold \in Nat

VARIABLES
  active_allocations,        \* address -> [size, category]
  total_allocated_bytes,
  category_allocated_bytes,
  peak_allocated_bytes,
  live,                      \* addresses the driver has handed out
  leaked,                    \* history: addresses whose cudaFreeAsync failed
  call                       \* where each thread is in allocate or free

accounts == <<active_allocations, total_allocated_bytes,
              category_allocated_bytes>>
vars == <<accounts, peak_allocated_bytes, live, leaked, call>>

MemoryCategory == {"WEIGHTS", "ACTIVATIONS", "WORKSPACE", "KV_CACHE"}

Idle == [op |-> "idle", ptr |-> NoPtr, size |-> 0, category |-> "WORKSPACE"]

Init ==
  /\ active_allocations = <<>>
  /\ total_allocated_bytes = 0
  /\ category_allocated_bytes = [c \in MemoryCategory |-> 0]
  /\ peak_allocated_bytes = 0
  /\ live = {} /\ leaked = {}
  /\ call = [t \in Threads |-> Idle]

(* The call of thread t moves on to op, with address p. *)
With(t, op, p) ==
  [op |-> op, ptr |-> p, size |-> call[t].size, category |-> call[t].category]

-----------------------------------------------------------------------------
Tracked == DOMAIN active_allocations

align_bytes(bytes) == ((bytes + 255) \div 256) * 256

(* (the request itself left out of the projection) *)
WithinBudgetBefore(size) == total_allocated_bytes <= Threshold

WithinBudget(size) == total_allocated_bytes + size <= Threshold

(* allocate, first critical section: the budget check. *)
AllocateCheck(t, bytes, c) ==
  /\ call[t].op = "idle"
  /\ call' = [call EXCEPT ![t] =
       [op |-> IF WithinBudget(align_bytes(bytes)) THEN "malloc" ELSE "failed",
        ptr |-> NoPtr, size |-> align_bytes(bytes), category |-> c]]
  /\ UNCHANGED <<accounts, peak_allocated_bytes, live, leaked>>

CudaMallocAsync(t) ==
  /\ call[t].op = "malloc"
  /\ \E p \in Ptrs \ live :
       /\ live' = live \cup {p}
       /\ call' = [call EXCEPT ![t] = With(t, "record", p)]
  /\ UNCHANGED <<accounts, peak_allocated_bytes, leaked>>

CudaMallocAsyncFails(t) ==
  /\ call[t].op = "malloc"
  /\ call' = [call EXCEPT ![t].op = "failed"]
  /\ UNCHANGED <<accounts, peak_allocated_bytes, live, leaked>>

Larger(a, b) == IF a >= b THEN a ELSE b

PeakWith(total) == Larger(peak_allocated_bytes, total)

(* allocate, second critical section: the handle and the counters. *)
AllocateRecord(t) ==
  LET p == call[t].ptr
      n == call[t].size
      c == call[t].category
  IN
  /\ call[t].op = "record"
  /\ active_allocations' =
       [q \in Tracked \cup {p} |->
          IF q = p THEN [size |-> n, category |-> c] ELSE active_allocations[q]]
  /\ total_allocated_bytes' = total_allocated_bytes + n
  /\ category_allocated_bytes' = [category_allocated_bytes EXCEPT ![c] = @ + n]
  /\ peak_allocated_bytes' = PeakWith(total_allocated_bytes')
  /\ call' = [call EXCEPT ![t].op = "returned"]
  /\ UNCHANGED <<live, leaked>>

(* The caller goes on with the pointer, or with the exception. *)
Return(t) ==
  /\ call[t].op \in {"returned", "failed"}
  /\ call' = [call EXCEPT ![t] = Idle]
  /\ UNCHANGED <<accounts, peak_allocated_bytes, live, leaked>>

-----------------------------------------------------------------------------
(* A caller knows a pointer once allocate has returned it. *)
Known(p) == \A t \in Threads : ~(call[t].op = "returned" /\ call[t].ptr = p)

(* (always the default category) *)
DefaultCategory(p) == "WORKSPACE"

CategoryOf(p) == active_allocations[p].category

(* free, critical section: the handle is erased and its bytes taken off.   *)
FreeRecord(t, p) ==
  LET n == active_allocations[p].size
      c == CategoryOf(p)
  IN
  /\ call[t].op = "idle"
  /\ p \in Tracked
  /\ active_allocations' = [q \in Tracked \ {p} |-> active_allocations[q]]
  /\ total_allocated_bytes' = total_allocated_bytes - n
  /\ category_allocated_bytes' = [category_allocated_bytes EXCEPT ![c] = @ - n]
  /\ call' = [call EXCEPT ![t] = With(t, "cudaFree", p)]
  /\ UNCHANGED <<peak_allocated_bytes, live, leaked>>

(* (every address at hand is given back) *)
AllOf(t) == {call[u].ptr : u \in Threads}

Returned(t) == {call[t].ptr}

CudaFreeAsync(t) ==
  /\ call[t].op = "cudaFree"
  /\ live' = live \ Returned(t)
  /\ call' = [call EXCEPT ![t] = Idle]
  /\ UNCHANGED <<accounts, peak_allocated_bytes, leaked>>

CudaFreeAsyncFails(t) ==
  /\ call[t].op = "cudaFree"
  /\ leaked' = leaked \cup {call[t].ptr}
  /\ call' = [call EXCEPT ![t] = Idle]
  /\ UNCHANGED <<accounts, peak_allocated_bytes, live>>

reset_peak_stats ==
  /\ peak_allocated_bytes' = total_allocated_bytes
  /\ UNCHANGED <<accounts, live, leaked, call>>

-----------------------------------------------------------------------------
Next ==
  \/ \E t \in Threads, bytes \in Sizes, c \in Categories : AllocateCheck(t, bytes, c)
  \/ \E t \in Threads : CudaMallocAsync(t)
  \/ \E t \in Threads : CudaMallocAsyncFails(t)
  \/ \E t \in Threads : AllocateRecord(t)
  \/ \E t \in Threads : Return(t)
  \/ \E t \in Threads, p \in Ptrs : Known(p) /\ FreeRecord(t, p)
  \/ \E t \in Threads : CudaFreeAsync(t)
  \/ \E t \in Threads : CudaFreeAsyncFails(t)
  \/ reset_peak_stats

Spec == Init /\ [][Next]_vars

-----------------------------------------------------------------------------
Blocks == [size : Nat, category : MemoryCategory]

Ops == {"idle", "malloc", "record", "returned", "failed", "cudaFree"}

(* Every variable has its type; no counter is ever negative (size_t).      *)
TypeOK ==
  /\ Tracked \subseteq Ptrs
  /\ \A p \in Tracked : active_allocations[p] \in Blocks
  /\ total_allocated_bytes \in Nat
  /\ category_allocated_bytes \in [MemoryCategory -> Nat]
  /\ peak_allocated_bytes \in Nat
  /\ live \subseteq Ptrs /\ leaked \subseteq Ptrs
  /\ call \in [Threads -> [op : Ops, ptr : Ptrs \cup {NoPtr}, size : Nat,
                           category : MemoryCategory]]

(* The bytes of each tracked block. *)
BytesOf == [p \in Tracked |-> active_allocations[p].size]

BlocksOf(c) == {p \in Tracked : active_allocations[p].category = c}

(* The counters are the sums of the tracked blocks, in all and in each     *)
(* category, however the critical sections of the threads interleave.      *)
AccountsExact ==
  /\ total_allocated_bytes = SumFunction(BytesOf)
  /\ \A c \in MemoryCategory :
       category_allocated_bytes[c] = SumFunctionOnSet(BytesOf, BlocksOf(c))

(* The category counters add up to the total. *)
TotalIsSumOfCategories ==
  total_allocated_bytes =
    category_allocated_bytes["WEIGHTS"] + category_allocated_bytes["ACTIVATIONS"]
      + category_allocated_bytes["WORKSPACE"] + category_allocated_bytes["KV_CACHE"]

(* The addresses a driver call of thread t is about. *)
InDriver(t) ==
  IF call[t].op \in {"record", "cudaFree"} THEN {call[t].ptr} ELSE {}

(* Every address the driver has handed out is tracked, or on its way into  *)
(* or out of the table in exactly one thread, or lost by a failed          *)
(* cudaFreeAsync: no interleaving loses one or holds one twice.            *)
AddressesAccounted ==
  /\ live = Tracked \cup leaked \cup UNION {InDriver(t) : t \in Threads}
  /\ Tracked \cap leaked = {}
  /\ \A t \in Threads : InDriver(t) \cap (Tracked \cup leaked) = {}
  /\ \A t, u \in Threads : t # u => InDriver(t) \cap InDriver(u) = {}

(* The handle of a tracked block is never overwritten by the allocation of *)
(* another thread (active_allocations_[d_ptr] = handle).                   *)
HandlesNeverOverwritten ==
  [][\A p \in Tracked \cap Tracked' :
       active_allocations'[p] = active_allocations[p]]_vars

(* The peak is never below what is allocated. *)
PeakCoversTotal == total_allocated_bytes <= peak_allocated_bytes

LargestRequest == CHOOSE n \in Sizes : \A m \in Sizes : m <= n

(* The budget check and the accounting are two critical sections: each     *)
(* other thread can exceed the safety limit by one request, no more.       *)
OvershootBounded ==
  total_allocated_bytes
    <= Threshold + (Cardinality(Threads) - 1) * align_bytes(LargestRequest)

(* "@throws OutOfMemoryException if budget or physical VRAM is exceeded"   *)
(* (block_allocator.h): what is allocated never exceeds the safety limit.  *)
WithinSafetyLimit == total_allocated_bytes <= Threshold
=============================================================================
