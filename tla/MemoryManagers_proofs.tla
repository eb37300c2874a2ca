----------------------- MODULE MemoryManagers_proofs -----------------------
(***************************************************************************)
(* Proofs about the two memory managers.                                   *)
(*                                                                         *)
(* BlockAllocator, for any threads, addresses, sizes and limit.  The       *)
(* inductive invariant IInv adds to AddressesAccounted the types, with     *)
(* counters that are integers: that they are not negative follows once     *)
(* they are the sums of the tracked blocks (Accounts).  The overshoot is   *)
(* bounded because the last thread that passed the check and still has its *)
(* bytes to record left room for all others (Room).                        *)
(*                                                                         *)
(* BufferPool over it, for any threads, addresses, sizes and limits.  The  *)
(* pool takes over a block when its acquire has returned from the          *)
(* allocator, so PInv follows a block from the allocator to the pool       *)
(* (Handing): it is tracked, in no bucket, and in one thread's hands, of   *)
(* the size and category that thread asked for (Acquiring).                *)
(***************************************************************************)
EXTENDS BufferPool, SequenceTheorems, SumTheorems, TLAPS

Types ==
  /\ Tracked \subseteq Ptrs
  /\ \A p \in Tracked : active_allocations[p] \in Blocks
  /\ total_allocated_bytes \in Int
  /\ category_allocated_bytes \in [MemoryCategory -> Int]
  /\ peak_allocated_bytes \in Int
  /\ live \subseteq Ptrs /\ leaked \subseteq Ptrs
  /\ call \in [Threads -> [op : Ops, ptr : Ptrs \cup {NoPtr}, size : Nat,
                           category : MemoryCategory]]

IInv == Types /\ AddressesAccounted /\ TotalIsSumOfCategories /\ PeakCoversTotal

-----------------------------------------------------------------------------
(* A request is rounded up to a natural number of bytes, never below it. *)
LEMMA AlignedSize ==
  ASSUME NEW n \in Nat
  PROVE  align_bytes(n) \in Nat /\ align_bytes(n) >= n
BY DEF align_bytes

(* The initial state satisfies the invariant. *)
LEMMA InitIInv == Init => IInv
<1> SUFFICES ASSUME Init PROVE IInv
  OBVIOUS
<1>1. Tracked = {}
  BY DEF Init, Tracked
<1>2. Types
  BY <1>1 DEF Init, Types, Idle, Ops, MemoryCategory
<1>3. \A t \in Threads : InDriver(t) = {}
  BY DEF Init, InDriver, Idle
<1>4. AddressesAccounted
  BY <1>1, <1>3 DEF Init, AddressesAccounted
<1>5. TotalIsSumOfCategories /\ PeakCoversTotal
  BY DEF Init, TotalIsSumOfCategories, PeakCoversTotal, MemoryCategory
<1> QED
  BY <1>2, <1>4, <1>5 DEF IInv
-----------------------------------------------------------------------------
(* A step that leaves the addresses where they are keeps them accounted. *)
LEMMA AddressesUnmoved ==
  ASSUME AddressesAccounted, live' = live, leaked' = leaked,
         Tracked' = Tracked, \A t \in Threads : InDriver(t)' = InDriver(t)
  PROVE  AddressesAccounted'
BY DEF AddressesAccounted

LEMMA CheckStep ==
  ASSUME IInv, NEW t \in Threads, NEW n \in Nat, NEW c \in MemoryCategory,
         AllocateCheck(t, n, c)
  PROVE  IInv'
<1> USE DEF IInv
<1>1. align_bytes(n) \in Nat /\ c \in MemoryCategory
  BY AlignedSize
<1>2. Types'
  BY <1>1 DEF Types, AllocateCheck, accounts, Ops, Tracked
<1>3. \A u \in Threads : InDriver(u)' = InDriver(u)
  BY DEF Types, AllocateCheck, InDriver
<1>4. AddressesAccounted'
  BY <1>3, AddressesUnmoved DEF AllocateCheck, accounts, Tracked
<1> QED
  BY <1>2, <1>4 DEF AllocateCheck, accounts, TotalIsSumOfCategories, PeakCoversTotal

LEMMA MallocStep ==
  ASSUME IInv, NEW t \in Threads, CudaMallocAsync(t)
  PROVE  IInv'
<1> USE DEF IInv
<1>1. PICK p \in Ptrs \ live :
        /\ live' = live \cup {p}
        /\ call' = [call EXCEPT ![t] = With(t, "record", p)]
  BY DEF CudaMallocAsync
<1>2. Types'
  BY <1>1 DEF Types, CudaMallocAsync, With, accounts, Ops, Tracked
<1>3. /\ InDriver(t) = {} /\ InDriver(t)' = {p}
      /\ \A u \in Threads \ {t} : InDriver(u)' = InDriver(u)
  BY <1>1 DEF Types, CudaMallocAsync, InDriver, With
<1>4. AddressesAccounted'
  BY <1>1, <1>3 DEF CudaMallocAsync, accounts, AddressesAccounted, Tracked
<1> QED
  BY <1>2, <1>4 DEF CudaMallocAsync, accounts, TotalIsSumOfCategories, PeakCoversTotal

LEMMA MallocFailsStep ==
  ASSUME IInv, NEW t \in Threads, CudaMallocAsyncFails(t)
  PROVE  IInv'
<1> USE DEF IInv
<1>1. Types'
  BY DEF Types, CudaMallocAsyncFails, accounts, Ops, Tracked
<1>2. \A u \in Threads : InDriver(u)' = InDriver(u)
  BY DEF Types, CudaMallocAsyncFails, InDriver
<1>3. AddressesAccounted'
  BY <1>2, AddressesUnmoved DEF CudaMallocAsyncFails, accounts, Tracked
<1> QED
  BY <1>1, <1>3 DEF CudaMallocAsyncFails, accounts, TotalIsSumOfCategories, PeakCoversTotal

LEMMA ReturnStep ==
  ASSUME IInv, NEW t \in Threads, Return(t)
  PROVE  IInv'
<1> USE DEF IInv
<1>1. Types'
  BY DEF Types, Return, accounts, Ops, Tracked, Idle, MemoryCategory
<1>2. \A u \in Threads : InDriver(u)' = InDriver(u)
  BY DEF Types, Return, InDriver, Idle
<1>3. AddressesAccounted'
  BY <1>2, AddressesUnmoved DEF Return, accounts, Tracked
<1> QED
  BY <1>1, <1>3 DEF Return, accounts, TotalIsSumOfCategories, PeakCoversTotal

LEMMA RecordStep ==
  ASSUME IInv, NEW t \in Threads, AllocateRecord(t)
  PROVE  /\ IInv'
         /\ \A q \in Tracked : active_allocations'[q] = active_allocations[q]
<1> USE DEF IInv
<1> DEFINE p == call[t].ptr
           n == call[t].size
           c == call[t].category
<1>1. /\ p \in Ptrs /\ n \in Nat /\ c \in MemoryCategory
      /\ InDriver(t) = {p} /\ p \notin Tracked
  BY DEF AllocateRecord, Types, AddressesAccounted, InDriver
<1>2. active_allocations' =
        [q \in Tracked \cup {p} |->
           IF q = p THEN [size |-> n, category |-> c] ELSE active_allocations[q]]
  BY DEF AllocateRecord
<1>3. Tracked' = Tracked \cup {p}
  BY <1>2 DEF Tracked
<1>4. \A q \in Tracked : active_allocations'[q] = active_allocations[q]
  BY <1>1, <1>2
<1>5. Types'
  <2>1. \A q \in Tracked' : active_allocations'[q] \in Blocks
    BY <1>1, <1>2, <1>3 DEF Types, Blocks
  <2>2. /\ total_allocated_bytes' \in Int /\ peak_allocated_bytes' \in Int
        /\ category_allocated_bytes' \in [MemoryCategory -> Int]
    BY <1>1 DEF Types, AllocateRecord, PeakWith, Larger
  <2>3. call' \in [Threads -> [op : Ops, ptr : Ptrs \cup {NoPtr}, size : Nat,
                               category : MemoryCategory]]
    BY DEF Types, AllocateRecord, Ops
  <2> QED
    BY <1>1, <1>3, <2>1, <2>2, <2>3 DEF Types, AllocateRecord
<1>6. InDriver(t)' = {} /\ \A u \in Threads \ {t} : InDriver(u)' = InDriver(u)
  BY DEF Types, AllocateRecord, InDriver
<1>7. AddressesAccounted'
  BY <1>1, <1>3, <1>6 DEF AllocateRecord, AddressesAccounted
<1>8. TotalIsSumOfCategories'
  <2>1. category_allocated_bytes' =
          [category_allocated_bytes EXCEPT ![c] = @ + n]
    BY DEF AllocateRecord
  <2>2. total_allocated_bytes' = total_allocated_bytes + n
    BY DEF AllocateRecord
  <2> QED
    BY <1>1, <2>1, <2>2 DEF Types, TotalIsSumOfCategories, MemoryCategory
<1>9. PeakCoversTotal'
  BY <1>1 DEF Types, AllocateRecord, PeakCoversTotal, PeakWith, Larger
<1> QED
  BY <1>4, <1>5, <1>7, <1>8, <1>9

LEMMA FreeStep ==
  ASSUME IInv, NEW t \in Threads, NEW p \in Ptrs, FreeRecord(t, p)
  PROVE  /\ IInv'
         /\ \A q \in Tracked' : active_allocations'[q] = active_allocations[q]
<1> USE DEF IInv
<1> DEFINE n == active_allocations[p].size
           c == CategoryOf(p)
<1>1. n \in Nat /\ c \in MemoryCategory /\ p \in Tracked /\ InDriver(t) = {}
  BY DEF FreeRecord, Types, Blocks, CategoryOf, InDriver
<1>2. active_allocations' = [q \in Tracked \ {p} |-> active_allocations[q]]
  BY DEF FreeRecord
<1>3. Tracked' = Tracked \ {p}
  BY <1>2 DEF Tracked
<1>4. \A q \in Tracked' : active_allocations'[q] = active_allocations[q]
  BY <1>2, <1>3
<1>5. Types'
  <2>1. /\ total_allocated_bytes' \in Int
        /\ category_allocated_bytes' \in [MemoryCategory -> Int]
    BY <1>1 DEF Types, FreeRecord
  <2>2. call' \in [Threads -> [op : Ops, ptr : Ptrs \cup {NoPtr}, size : Nat,
                               category : MemoryCategory]]
    BY DEF Types, FreeRecord, With, Ops
  <2> QED
    BY <1>3, <1>4, <2>1, <2>2 DEF Types, FreeRecord
<1>6. InDriver(t)' = {p} /\ \A u \in Threads \ {t} : InDriver(u)' = InDriver(u)
  BY DEF Types, FreeRecord, With, InDriver
<1>7. AddressesAccounted'
  BY <1>1, <1>3, <1>6 DEF FreeRecord, AddressesAccounted
<1>8. TotalIsSumOfCategories'
  <2>1. category_allocated_bytes' =
          [category_allocated_bytes EXCEPT ![c] = @ - n]
    BY DEF FreeRecord
  <2>2. total_allocated_bytes' = total_allocated_bytes - n
    BY DEF FreeRecord
  <2> QED
    BY <1>1, <2>1, <2>2 DEF Types, TotalIsSumOfCategories, MemoryCategory
<1>9. PeakCoversTotal'
  BY <1>1 DEF Types, FreeRecord, PeakCoversTotal
<1> QED
  BY <1>4, <1>5, <1>7, <1>8, <1>9

LEMMA CudaFreeStep ==
  ASSUME IInv, NEW t \in Threads, CudaFreeAsync(t) \/ CudaFreeAsyncFails(t)
  PROVE  IInv'
<1> USE DEF IInv
<1>1. /\ call[t].op = "cudaFree" /\ call' = [call EXCEPT ![t] = Idle]
      /\ InDriver(t) = {call[t].ptr}
  BY DEF CudaFreeAsync, CudaFreeAsyncFails, InDriver
<1>2. /\ InDriver(t)' = {}
      /\ \A u \in Threads \ {t} : InDriver(u)' = InDriver(u)
  BY <1>1 DEF Types, InDriver, Idle
<1>3. call[t].ptr \in live
  BY <1>1 DEF AddressesAccounted
<1>4. UNCHANGED <<accounts, peak_allocated_bytes>>
  BY DEF CudaFreeAsync, CudaFreeAsyncFails
<1>5. Types'
  BY <1>1, <1>3, <1>4
     DEF Types, CudaFreeAsync, CudaFreeAsyncFails, accounts, Tracked, Idle, Ops,
         MemoryCategory
<1>6. AddressesAccounted'
  <2>1. Tracked' = Tracked
    BY <1>4 DEF accounts, Tracked
  <2>2. CASE CudaFreeAsync(t)
    BY <1>1, <1>2, <2>1, <2>2 DEF CudaFreeAsync, Returned, AddressesAccounted
  <2>3. CASE CudaFreeAsyncFails(t)
    BY <1>1, <1>2, <2>1, <2>3 DEF CudaFreeAsyncFails, AddressesAccounted
  <2> QED
    BY <2>2, <2>3
<1> QED
  BY <1>4, <1>5, <1>6 DEF accounts, TotalIsSumOfCategories, PeakCoversTotal

LEMMA ResetStep == IInv /\ reset_peak_stats => IInv'
<1> SUFFICES ASSUME IInv, reset_peak_stats PROVE IInv'
  OBVIOUS
<1> USE DEF IInv
<1>1. Types'
  BY DEF Types, reset_peak_stats, accounts, Tracked
<1>2. AddressesAccounted'
  BY AddressesUnmoved DEF reset_peak_stats, accounts, Tracked, InDriver
<1> QED
  BY <1>1, <1>2
     DEF Types, reset_peak_stats, accounts, TotalIsSumOfCategories, PeakCoversTotal

LEMMA StutterStep == IInv /\ UNCHANGED vars => IInv'
<1> SUFFICES ASSUME IInv, UNCHANGED vars PROVE IInv'
  OBVIOUS
<1> USE DEF IInv
<1>1. Types'
  BY DEF Types, vars, accounts, Tracked
<1>2. AddressesAccounted'
  BY AddressesUnmoved DEF vars, accounts, Tracked, InDriver
<1> QED
  BY <1>1, <1>2 DEF vars, accounts, TotalIsSumOfCategories, PeakCoversTotal

(* Every step preserves the invariant and overwrites no handle. *)
LEMMA NextIInv ==
  ASSUME IInv, [Next]_vars
  PROVE  /\ IInv'
         /\ \A p \in Tracked \cap Tracked' :
              active_allocations'[p] = active_allocations[p]
<1>1. ASSUME NEW t \in Threads, NEW n \in Sizes, NEW c \in Categories,
             AllocateCheck(t, n, c)
      PROVE  IInv' /\ active_allocations' = active_allocations
  <2>1. n \in Nat /\ c \in MemoryCategory
    BY BlockAllocatorAssumption DEF MemoryCategory
  <2> QED BY <1>1, <2>1, CheckStep DEF AllocateCheck, accounts
<1>2. ASSUME NEW t \in Threads, CudaMallocAsync(t)
      PROVE  IInv' /\ active_allocations' = active_allocations
  BY <1>2, MallocStep DEF CudaMallocAsync, accounts
<1>3. ASSUME NEW t \in Threads, CudaMallocAsyncFails(t)
      PROVE  IInv' /\ active_allocations' = active_allocations
  BY <1>3, MallocFailsStep DEF CudaMallocAsyncFails, accounts
<1>4. ASSUME NEW t \in Threads, AllocateRecord(t)
      PROVE  /\ IInv'
             /\ \A p \in Tracked : active_allocations'[p] = active_allocations[p]
  BY <1>4, RecordStep
<1>5. ASSUME NEW t \in Threads, Return(t)
      PROVE  IInv' /\ active_allocations' = active_allocations
  BY <1>5, ReturnStep DEF Return, accounts
<1>6. ASSUME NEW t \in Threads, NEW p \in Ptrs, FreeRecord(t, p)
      PROVE  /\ IInv'
             /\ \A q \in Tracked' : active_allocations'[q] = active_allocations[q]
  BY <1>6, FreeStep
<1>7. ASSUME NEW t \in Threads, CudaFreeAsync(t) \/ CudaFreeAsyncFails(t)
      PROVE  IInv' /\ active_allocations' = active_allocations
  BY <1>7, CudaFreeStep DEF CudaFreeAsync, CudaFreeAsyncFails, accounts
<1>8. ASSUME reset_peak_stats
      PROVE  IInv' /\ active_allocations' = active_allocations
  BY <1>8, ResetStep DEF reset_peak_stats, accounts
<1>9. ASSUME UNCHANGED vars
      PROVE  IInv' /\ active_allocations' = active_allocations
  BY <1>9, StutterStep DEF vars, accounts
<1> QED
  BY <1>1, <1>2, <1>3, <1>4, <1>5, <1>6, <1>7, <1>8, <1>9 DEF Next

-----------------------------------------------------------------------------
(* The table is finite and its sums are the counters. *)
Accounts == IsFiniteSet(Tracked) /\ AccountsExact

(* Sums over blocks that are tracked before and after a step. *)
LEMMA SumKept ==
  ASSUME NEW v, NEW w, NEW S, IsFiniteSet(S), \A q \in S : w[q] = v[q]
  PROVE  SumFunctionOnSet(w, S) = SumFunctionOnSet(v, S)
BY SumOfSame

(* A block that is not in the table adds its bytes to what is in it. *)
LEMMA SumAdds ==
  ASSUME NEW v, NEW w, NEW S, IsFiniteSet(S), NEW p, p \notin S,
         \A q \in S : w[q] = v[q] /\ v[q] \in Nat, w[p] \in Nat
  PROVE  SumFunctionOnSet(w, S \cup {p}) = SumFunctionOnSet(v, S) + w[p]
<1>1. \A q \in S \cup {p} : w[q] \in Nat
  OBVIOUS
<1>2. SumFunctionOnSet(w, S \cup {p}) = SumFunctionOnSet(w, S) + w[p]
  BY <1>1, SumWith
<1> QED BY <1>2, SumKept

LEMMA BytesAreNat ==
  ASSUME Types
  PROVE  /\ DOMAIN BytesOf = Tracked
         /\ \A p \in Tracked : /\ BytesOf[p] = active_allocations[p].size
                               /\ BytesOf[p] \in Nat
BY DEF Types, Blocks, BytesOf

(* A category has finitely many blocks. *)
LEMMA BlocksOfFinite ==
  ASSUME IsFiniteSet(Tracked), NEW c
  PROVE  IsFiniteSet(BlocksOf(c)) /\ BlocksOf(c) \subseteq Tracked
BY FS_Subset DEF BlocksOf

LEMMA RecordKeepsAccounts ==
  ASSUME IInv, IInv', Accounts, NEW t \in Threads, AllocateRecord(t)
  PROVE  Accounts'
<1> USE DEF IInv
<1>1. PICK p, n, c : p = call[t].ptr /\ n = call[t].size /\ c = call[t].category
  OBVIOUS
<1>2. p \in Ptrs /\ n \in Nat /\ c \in MemoryCategory /\ p \notin Tracked
  BY <1>1 DEF AllocateRecord, Types, AddressesAccounted, InDriver
<1>3. active_allocations' =
        [q \in Tracked \cup {p} |->
           IF q = p THEN [size |-> n, category |-> c] ELSE active_allocations[q]]
  BY <1>1 DEF AllocateRecord
<1>4. /\ Tracked' = Tracked \cup {p}
      /\ active_allocations'[p] = [size |-> n, category |-> c]
      /\ \A q \in Tracked : active_allocations'[q] = active_allocations[q]
  BY <1>2, <1>3 DEF Tracked
<1>5. IsFiniteSet(Tracked) /\ IsFiniteSet(Tracked')
  BY <1>4, FS_AddElement DEF Accounts
<1>6. PICK v, w : v = BytesOf /\ w = BytesOf'
  OBVIOUS
<1>7. /\ DOMAIN v = Tracked /\ DOMAIN w = Tracked \cup {p} /\ w[p] = n
      /\ \A q \in Tracked : w[q] = v[q] /\ v[q] \in Nat
  <2>1. /\ DOMAIN w = Tracked'
        /\ \A q \in Tracked' : w[q] = active_allocations'[q].size
    BY <1>6 DEF BytesOf
  <2>2. \A q \in Tracked : v[q] = active_allocations[q].size /\ v[q] \in Nat
    BY <1>6, BytesAreNat
  <2> QED BY <1>4, <1>6, <2>1, <2>2, BytesAreNat
<1>8. total_allocated_bytes' = SumFunction(BytesOf)'
  <2>1. SumFunctionOnSet(w, Tracked \cup {p}) = SumFunctionOnSet(v, Tracked) + n
    BY <1>2, <1>5, <1>7, SumAdds
  <2>2. total_allocated_bytes = SumFunctionOnSet(v, Tracked)
    BY <1>6, <1>7 DEF Accounts, AccountsExact, SumFunction
  <2>3. total_allocated_bytes' = total_allocated_bytes + n
    BY <1>1 DEF AllocateRecord
  <2> QED BY <1>6, <1>7, <2>1, <2>2, <2>3 DEF SumFunction
<1>9. ASSUME NEW d \in MemoryCategory
      PROVE  category_allocated_bytes'[d] = SumFunctionOnSet(BytesOf', BlocksOf(d)')
  <2>1. PICK S : S = BlocksOf(d) /\ IsFiniteSet(S) /\ S \subseteq Tracked
    BY <1>5, BlocksOfFinite
  <2>2. category_allocated_bytes[d] = SumFunctionOnSet(v, S)
    BY <1>6, <2>1 DEF Accounts, AccountsExact
  <2>3. category_allocated_bytes' = [category_allocated_bytes EXCEPT ![c] = @ + n]
    BY <1>1 DEF AllocateRecord
  <2>4. CASE d = c
    <3>1. BlocksOf(d)' = S \cup {p}
      BY <1>2, <1>4, <2>1, <2>4 DEF BlocksOf
    <3>2. SumFunctionOnSet(w, S \cup {p}) = SumFunctionOnSet(v, S) + n
      BY <1>2, <1>7, <2>1, SumAdds
    <3>3. category_allocated_bytes'[d] = category_allocated_bytes[d] + n
      BY <2>3, <2>4 DEF Types
    <3> QED BY <1>6, <2>2, <3>1, <3>2, <3>3
  <2>5. CASE d # c
    <3>1. BlocksOf(d)' = S
      BY <1>2, <1>4, <2>1, <2>5 DEF BlocksOf
    <3>2. SumFunctionOnSet(w, S) = SumFunctionOnSet(v, S)
      BY <1>7, <2>1, SumKept
    <3>3. category_allocated_bytes'[d] = category_allocated_bytes[d]
      BY <2>3, <2>5 DEF Types
    <3> QED BY <1>6, <2>2, <3>1, <3>2, <3>3
  <2> QED BY <2>4, <2>5
<1> QED BY <1>5, <1>8, <1>9 DEF Accounts, AccountsExact

LEMMA FreeKeepsAccounts ==
  ASSUME IInv, IInv', Accounts, NEW t \in Threads, NEW p \in Ptrs, FreeRecord(t, p)
  PROVE  Accounts'
<1> USE DEF IInv
<1>1. PICK n, c : n = active_allocations[p].size /\ c = active_allocations[p].category
  OBVIOUS
<1>2. n \in Nat /\ c \in MemoryCategory /\ p \in Tracked
  BY <1>1 DEF FreeRecord, Types, Blocks
<1>3. active_allocations' = [q \in Tracked \ {p} |-> active_allocations[q]]
  BY DEF FreeRecord
<1>4. /\ Tracked' = Tracked \ {p} /\ Tracked = Tracked' \cup {p} /\ p \notin Tracked'
      /\ \A q \in Tracked' : active_allocations'[q] = active_allocations[q]
  BY <1>2, <1>3 DEF Tracked
<1>5. IsFiniteSet(Tracked) /\ IsFiniteSet(Tracked')
  BY <1>4, FS_RemoveElement DEF Accounts
<1>6. PICK v, w : v = BytesOf /\ w = BytesOf'
  OBVIOUS
<1>7. /\ DOMAIN v = Tracked /\ DOMAIN w = Tracked' /\ v[p] = n
      /\ \A q \in Tracked' : v[q] = w[q] /\ w[q] \in Nat
  <2>1. /\ DOMAIN w = Tracked'
        /\ \A q \in Tracked' : w[q] = active_allocations'[q].size
    BY <1>6 DEF BytesOf
  <2>2. \A q \in Tracked : v[q] = active_allocations[q].size /\ v[q] \in Nat
    BY <1>6, BytesAreNat
  <2> QED BY <1>1, <1>2, <1>4, <1>6, <2>1, <2>2, BytesAreNat
<1>8. total_allocated_bytes' = SumFunction(BytesOf)'
  <2>1. SumFunctionOnSet(v, Tracked) = SumFunctionOnSet(w, Tracked') + n
    BY <1>2, <1>4, <1>5, <1>7, SumAdds
  <2>2. total_allocated_bytes = SumFunctionOnSet(v, Tracked)
    BY <1>6, <1>7 DEF Accounts, AccountsExact, SumFunction
  <2>3. total_allocated_bytes' = total_allocated_bytes - n
    BY <1>1 DEF FreeRecord
  <2>4. SumFunctionOnSet(w, Tracked') \in Nat
    BY <1>5, <1>7, SumIsNat
  <2>5. total_allocated_bytes' = SumFunctionOnSet(w, Tracked')
    BY <1>2, <2>1, <2>2, <2>3, <2>4
  <2> QED BY <1>6, <1>7, <2>5 DEF SumFunction
<1>9. ASSUME NEW d \in MemoryCategory
      PROVE  category_allocated_bytes'[d] = SumFunctionOnSet(BytesOf', BlocksOf(d)')
  <2>1. PICK S : S = BlocksOf(d)' /\ IsFiniteSet(S) /\ S \subseteq Tracked'
    <3>1. BlocksOf(d)' \subseteq Tracked'
      BY DEF BlocksOf
    <3> QED BY <1>5, <3>1, FS_Subset
  <2>2. category_allocated_bytes[d] = SumFunctionOnSet(v, BlocksOf(d))
    BY <1>6 DEF Accounts, AccountsExact
  <2>3. category_allocated_bytes' = [category_allocated_bytes EXCEPT ![c] = @ - n]
    BY <1>1 DEF FreeRecord, CategoryOf
  <2>4. SumFunctionOnSet(w, S) \in Nat
    BY <1>7, <2>1, SumIsNat
  <2>5. CASE d = c
    <3>1. BlocksOf(d) = S \cup {p} /\ p \notin S
      BY <1>1, <1>2, <1>4, <2>1, <2>5 DEF BlocksOf
    <3>2. SumFunctionOnSet(v, S \cup {p}) = SumFunctionOnSet(w, S) + n
      BY <1>2, <1>7, <2>1, <3>1, SumAdds
    <3>3. category_allocated_bytes'[d] = category_allocated_bytes[d] - n
      BY <2>3, <2>5 DEF Types
    <3>4. PICK a \in Nat : a = SumFunctionOnSet(w, S)
      BY <2>4
    <3>5. category_allocated_bytes[d] = a + n
      BY <2>2, <3>1, <3>2, <3>4
    <3>6. category_allocated_bytes'[d] = a
      BY <1>2, <3>3, <3>5
    <3> QED BY <1>6, <2>1, <3>4, <3>6
  <2>6. CASE d # c
    <3>1. BlocksOf(d) = S
      BY <1>1, <1>2, <1>4, <2>1, <2>6 DEF BlocksOf
    <3>2. SumFunctionOnSet(v, S) = SumFunctionOnSet(w, S)
      BY <1>7, <2>1, SumKept
    <3>3. category_allocated_bytes'[d] = category_allocated_bytes[d]
      BY <2>3, <2>6 DEF Types
    <3> QED BY <1>6, <2>1, <2>2, <3>1, <3>2, <3>3
  <2> QED BY <2>5, <2>6
<1> QED BY <1>5, <1>8, <1>9 DEF Accounts, AccountsExact

(* No other step touches the table or the counters. *)
LEMMA AccountsUnmoved ==
  ASSUME Accounts, UNCHANGED accounts
  PROVE  Accounts'
<1>1. Tracked' = Tracked /\ BytesOf' = BytesOf
  BY DEF accounts, Tracked, BytesOf
<1>2. \A c : BlocksOf(c)' = BlocksOf(c)
  BY <1>1 DEF accounts, BlocksOf
<1> QED BY <1>1, <1>2 DEF Accounts, AccountsExact, accounts

LEMMA NextAccounts == IInv /\ IInv' /\ Accounts /\ [Next]_vars => Accounts'
<1> SUFFICES ASSUME IInv, IInv', Accounts, [Next]_vars PROVE Accounts'
  OBVIOUS
<1>1. ASSUME NEW t \in Threads, AllocateRecord(t) PROVE Accounts'
  BY <1>1, RecordKeepsAccounts
<1>2. ASSUME NEW t \in Threads, NEW p \in Ptrs, FreeRecord(t, p) PROVE Accounts'
  BY <1>2, FreeKeepsAccounts
<1>3. ASSUME UNCHANGED accounts PROVE Accounts'
  BY <1>3, AccountsUnmoved
<1> QED
  BY <1>1, <1>2, <1>3
     DEF Next, vars, AllocateCheck, CudaMallocAsync, CudaMallocAsyncFails, Return,
         CudaFreeAsync, CudaFreeAsyncFails, reset_peak_stats

LEMMA InitAccounts == Init => Accounts
<1> SUFFICES ASSUME Init PROVE Accounts
  OBVIOUS
<1>1. Tracked = {} /\ DOMAIN BytesOf = {}
  BY DEF Init, Tracked, BytesOf
<1>2. \A c : BlocksOf(c) = {}
  BY <1>1 DEF BlocksOf
<1>3. \A S : S = {} => SumFunctionOnSet(BytesOf, S) = 0
  BY SumOfNothing
<1> QED BY <1>1, <1>2, <1>3, FS_EmptySet DEF Init, Accounts, AccountsExact, SumFunction

-----------------------------------------------------------------------------
(* Threads that passed the check and have not recorded their bytes.        *)
Pending == {t \in Threads : call[t].op \in {"malloc", "record"}}

Largest == align_bytes(LargestRequest)

Ceiling == Threshold + (Cardinality(Threads) - 1) * Largest

(* One pending thread of P has room for its own bytes and for a largest    *)
(* request of each other one: the last of them to pass the check had.      *)
Fits(P, c, total) ==
  /\ total <= Ceiling
  /\ P # {} => \E t \in P :
       total + c[t].size + (Cardinality(P) - 1) * Largest <= Ceiling

Room ==
  /\ \A t \in Pending : call[t].size <= Largest
  /\ Fits(Pending, call, total_allocated_bytes)

(* A request takes no more than the largest one. *)
LEMMA LargestIsLargest ==
  /\ Largest \in Nat
  /\ \A n \in Sizes : align_bytes(n) <= Largest
<1>1. /\ LargestRequest \in Sizes /\ \A n \in Sizes : n <= LargestRequest
      /\ Sizes \subseteq Nat
  BY BlockAllocatorAssumption DEF LargestRequest
<1>2. Largest \in Nat
  BY <1>1, AlignedSize DEF Largest
<1>3. ASSUME NEW n \in Sizes PROVE align_bytes(n) <= Largest
  <2>1. PICK m \in Nat : m = LargestRequest
    BY <1>1
  <2>2. n \in Nat /\ n <= m
    BY <1>1, <2>1
  <2>3. (n + 255) \div 256 <= (m + 255) \div 256
    BY <2>2
  <2> QED BY <2>1, <2>2, <2>3 DEF Largest, align_bytes
<1> QED BY <1>2, <1>3

LEMMA CeilingIsNat ==
  /\ Ceiling \in Nat /\ Threshold \in Nat /\ Threshold <= Ceiling
  /\ Cardinality(Threads) \in Nat \ {0}
<1>1. PICK n \in Nat : n = Cardinality(Threads)
  BY FS_CardinalityType, BlockAllocatorAssumption
<1>2. n # 0
  BY <1>1, FS_EmptySet, BlockAllocatorAssumption
<1>3. PICK k \in Nat : k = n - 1
  BY <1>2
<1>4. k * Largest \in Nat
  BY LargestIsLargest
<1>5. Ceiling = Threshold + k * Largest
  BY <1>1, <1>3 DEF Ceiling
<1> QED BY <1>1, <1>2, <1>4, <1>5, BlockAllocatorAssumption

LEMMA ThreadsAreFinite ==
  ASSUME NEW P \in SUBSET Threads
  PROVE  IsFiniteSet(P) /\ Cardinality(P) \in Nat
BY FS_Subset, FS_CardinalityType, BlockAllocatorAssumption

(* Fewer threads need room for less. *)
LEMMA TimesGrows ==
  ASSUME NEW a \in Nat, NEW b \in Nat, NEW w \in Nat, a <= b
  PROVE  a * w <= b * w /\ a * w \in Nat
<1>1. b * w = a * w + (b - a) * w
  OBVIOUS
<1>2. (b - a) * w \in Nat /\ a * w \in Nat /\ b - a \in Nat
  OBVIOUS
<1> QED BY <1>1, <1>2

(* A thread that passes the check leaves room for all others. *)
LEMMA FitsOneMore ==
  ASSUME NEW P \in SUBSET Threads, NEW t \in Threads \ P, NEW c, NEW total \in Int,
         c[t].size \in Nat, total + c[t].size <= Threshold
  PROVE  Fits(P \cup {t}, c, total)
<1>1. PICK k \in Nat : k = Cardinality(P)
  BY ThreadsAreFinite
<1>2. Cardinality(P \cup {t}) = k + 1
  BY <1>1, ThreadsAreFinite, FS_AddElement
<1>3. PICK n \in Nat : n = Cardinality(Threads)
  BY CeilingIsNat
<1>4. k + 1 <= n
  BY <1>2, <1>3, FS_Subset, BlockAllocatorAssumption
<1>5. PICK m \in Nat : m = n - 1
  BY <1>4
<1>6. k * Largest <= m * Largest /\ k * Largest \in Nat /\ m * Largest \in Nat
  BY <1>4, <1>5, TimesGrows, LargestIsLargest
<1>7. Ceiling = Threshold + m * Largest
  BY <1>3, <1>5 DEF Ceiling
<1>8. (Cardinality(P \cup {t}) - 1) * Largest = k * Largest
  BY <1>2
<1>9. total + c[t].size + k * Largest <= Ceiling
  BY <1>6, <1>7, BlockAllocatorAssumption
<1>10. total <= Ceiling
  BY CeilingIsNat
<1> QED BY <1>8, <1>9, <1>10 DEF Fits

(* A thread that is done recording, or fails, leaves the others room. *)
LEMMA FitsOneLess ==
  ASSUME NEW P \in SUBSET Threads, NEW t \in P, NEW c, NEW total \in Int,
         \A u \in P : c[u].size \in Nat /\ c[u].size <= Largest,
         Fits(P, c, total), NEW after \in Int, after <= total + c[t].size
  PROVE  Fits(P \ {t}, c, after)
<1>1. PICK k \in Nat : k = Cardinality(P \ {t})
  BY ThreadsAreFinite
<1>2. Cardinality(P) = k + 1
  <2>1. IsFiniteSet(P) /\ t \in P
    BY ThreadsAreFinite
  <2> QED BY <1>1, <2>1, Rest
<1>3. PICK n \in Nat : n = c[t].size
  OBVIOUS
<1>4. PICK u \in P : total + c[u].size + (Cardinality(P) - 1) * Largest <= Ceiling
  BY DEF Fits
<1>5. PICK r \in Nat : r = k * Largest
  BY LargestIsLargest
<1>6. PICK s \in Nat : s = c[u].size /\ s <= Largest
  OBVIOUS
<1>7. total + s + r <= Ceiling
  BY <1>2, <1>4, <1>5, <1>6
<1>8. Largest \in Nat /\ Ceiling \in Nat
  BY LargestIsLargest, CeilingIsNat
<1>9. CASE P \ {t} = {}
  <2>1. u = t
    BY <1>9
  <2>2. after <= Ceiling
    BY <1>3, <1>6, <1>7, <1>8, <2>1
  <2> QED BY <1>9, <2>2 DEF Fits
<1>10. CASE P \ {t} # {}
  <2>1. k # 0
    BY <1>1, <1>10, ThreadsAreFinite, FS_EmptySet
  <2>2. PICK q \in Nat : q = (k - 1) * Largest /\ r = q + Largest
    <3>1. k - 1 \in Nat /\ Largest \in Nat
      BY <2>1, LargestIsLargest
    <3>2. (k - 1) * Largest \in Nat /\ k * Largest = (k - 1) * Largest + Largest
      BY <3>1
    <3> QED BY <1>5, <3>2
  <2>3. PICK z \in P \ {t} : u # t => z = u
    BY <1>10
  <2>4. PICK y \in Nat : y = c[z].size /\ y <= Largest
    OBVIOUS
  <2>5. CASE u = t
    <3>1. after <= total + s
      BY <1>6, <2>5
    <3>2. after + y + q <= Ceiling
      BY <1>7, <1>8, <2>2, <2>4, <3>1
    <3> QED BY <1>1, <1>8, <2>2, <2>4, <3>2 DEF Fits
  <2>6. CASE u # t
    <3>1. y = s
      BY <1>6, <2>3, <2>4, <2>6
    <3>2. n <= Largest
      BY <1>3
    <3>3. after + y + q <= Ceiling
      BY <1>3, <1>7, <1>8, <2>2, <2>4, <3>1, <3>2
    <3> QED BY <1>1, <1>8, <2>2, <2>4, <3>3 DEF Fits
  <2> QED BY <2>5, <2>6
<1> QED BY <1>9, <1>10

(* Fewer bytes fit as well. *)
LEMMA FitsLess ==
  ASSUME NEW P \in SUBSET Threads, NEW c, NEW d, NEW total \in Int, NEW after \in Int,
         \A u \in P : d[u].size = c[u].size /\ c[u].size \in Nat,
         Fits(P, c, total), after <= total
  PROVE  Fits(P, d, after)
<1>1. after <= Ceiling
  BY CeilingIsNat DEF Fits
<1>2. ASSUME P # {}
      PROVE  \E t \in P : after + d[t].size + (Cardinality(P) - 1) * Largest <= Ceiling
  <2>1. PICK t \in P : total + c[t].size + (Cardinality(P) - 1) * Largest <= Ceiling
    BY <1>2 DEF Fits
  <2>2. (Cardinality(P) - 1) * Largest \in Int /\ Ceiling \in Int
    BY ThreadsAreFinite, LargestIsLargest, CeilingIsNat
  <2>3. PICK r \in Int : r = (Cardinality(P) - 1) * Largest
    BY <2>2
  <2>4. after + d[t].size + r <= Ceiling
    BY <2>1, <2>2, <2>3
  <2> QED BY <2>3, <2>4
<1> QED BY <1>1, <1>2 DEF Fits

LEMMA InitRoom == Init => Room
<1> SUFFICES ASSUME Init PROVE Room
  OBVIOUS
<1>1. Pending = {}
  BY DEF Init, Pending, Idle
<1>2. total_allocated_bytes <= Ceiling
  BY CeilingIsNat DEF Init
<1> QED BY <1>1, <1>2 DEF Room, Fits

LEMMA PendingSizes ==
  ASSUME Types, Room
  PROVE  /\ Pending \in SUBSET Threads /\ total_allocated_bytes \in Int
         /\ \A u \in Pending : call[u].size \in Nat /\ call[u].size <= Largest
BY DEF Types, Room, Pending

(* A step that leaves the pending threads as they are, and adds no bytes.  *)
LEMMA RoomStays ==
  ASSUME IInv, IInv', Room, Pending' = Pending,
         \A u \in Pending : call'[u].size = call[u].size,
         total_allocated_bytes' <= total_allocated_bytes
  PROVE  Room'
<1>0. PICK c, d : c = call /\ d = call'
  OBVIOUS
<1>1. PICK P \in SUBSET Threads, a \in Int, b \in Int :
        /\ P = Pending /\ c = call /\ d = call'
        /\ a = total_allocated_bytes /\ b = total_allocated_bytes'
  BY <1>0 DEF IInv, Types, Pending
<1>2. \A u \in P : d[u].size = c[u].size /\ c[u].size \in Nat /\ c[u].size <= Largest
  BY <1>1, PendingSizes DEF IInv
<1>3. Fits(P, c, a) /\ b <= a
  BY <1>1 DEF Room
<1>4. Fits(P, d, b)
  BY <1>2, <1>3, FitsLess
<1>5. Fits(Pending, call, total_allocated_bytes)' <=> Fits(P, d, b)
  BY <1>1 DEF Fits
<1> QED BY <1>1, <1>2, <1>4, <1>5 DEF Room

(* A step in which thread t stops being pending, its bytes added or not. *)
LEMMA RoomLeft ==
  ASSUME IInv, IInv', Room, NEW t \in Pending, Pending' = Pending \ {t},
         \A u \in Pending \ {t} : call'[u] = call[u],
         total_allocated_bytes' <= total_allocated_bytes + call[t].size
  PROVE  Room'
<1>0. PICK c, d : c = call /\ d = call'
  OBVIOUS
<1>1. PICK P \in SUBSET Threads, a \in Int, b \in Int :
        /\ P = Pending /\ c = call /\ d = call'
        /\ a = total_allocated_bytes /\ b = total_allocated_bytes'
  BY <1>0 DEF IInv, Types, Pending
<1>2. \A u \in P : c[u].size \in Nat /\ c[u].size <= Largest
  BY <1>1, PendingSizes DEF IInv
<1>3. Fits(P, c, a) /\ b <= a + c[t].size /\ t \in P
  BY <1>1 DEF Room
<1>4. Fits(P \ {t}, c, b)
  BY <1>2, <1>3, FitsOneLess
<1>5. \A u \in P \ {t} : d[u] = c[u]
  BY <1>1
<1>6. P \ {t} \in SUBSET Threads /\ b <= b
  OBVIOUS
<1>7. Fits(P \ {t}, d, b)
  BY <1>2, <1>4, <1>5, <1>6, FitsLess
<1>8. Fits(Pending, call, total_allocated_bytes)' <=> Fits(P \ {t}, d, b)
  BY <1>1 DEF Fits
<1> QED BY <1>1, <1>2, <1>5, <1>7, <1>8 DEF Room

(* The check admits a thread that fits, on top of those already pending. *)
LEMMA RoomAtCheck ==
  ASSUME IInv, IInv', Room, NEW t \in Threads, NEW n \in Sizes, NEW c \in Categories,
         AllocateCheck(t, n, c)
  PROVE  Room'
<1>1. /\ call[t].op = "idle" /\ UNCHANGED total_allocated_bytes
      /\ call' = [call EXCEPT ![t] =
           [op |-> IF WithinBudget(align_bytes(n)) THEN "malloc" ELSE "failed",
            ptr |-> NoPtr, size |-> align_bytes(n), category |-> c]]
  BY DEF AllocateCheck, accounts
<1>2. t \notin Pending /\ \A u \in Threads \ {t} : call'[u] = call[u]
  BY <1>1 DEF Pending, IInv, Types
<1>3. CASE ~WithinBudget(align_bytes(n))
  <2>1. call'[t].op = "failed"
    BY <1>1, <1>3 DEF IInv, Types
  <2>2. Pending' = Pending
    BY <1>2, <2>1 DEF Pending
  <2>3. \A u \in Pending : call'[u].size = call[u].size
    BY <1>2 DEF Pending
  <2>4. total_allocated_bytes' <= total_allocated_bytes
    BY <1>1 DEF IInv, Types
  <2> QED BY <2>2, <2>3, <2>4, RoomStays
<1>4. CASE WithinBudget(align_bytes(n))
  <2>1. call'[t].op = "malloc" /\ call'[t].size = align_bytes(n)
    BY <1>1, <1>4 DEF IInv, Types
  <2>2. Pending' = Pending \cup {t}
    BY <1>2, <2>1 DEF Pending
  <2>0. PICK d : d = call'
    OBVIOUS
  <2>3. PICK P \in SUBSET Threads, a \in Int :
          P = Pending /\ d = call' /\ a = total_allocated_bytes
    BY <2>0 DEF IInv, Types, Pending
  <2>4. d[t].size \in Nat /\ d[t].size <= Largest /\ a + d[t].size <= Threshold
    BY <1>4, <2>1, <2>3, AlignedSize, LargestIsLargest, BlockAllocatorAssumption
       DEF WithinBudget
  <2>5. Fits(P \cup {t}, d, a)
    BY <1>2, <2>3, <2>4, FitsOneMore
  <2>6. \A u \in P : d[u].size <= Largest
    BY <1>2, <2>3 DEF Room
  <2>7. Fits(Pending, call, total_allocated_bytes)' <=> Fits(P \cup {t}, d, a)
    BY <1>1, <2>2, <2>3 DEF Fits
  <2> QED BY <2>2, <2>3, <2>4, <2>5, <2>6, <2>7 DEF Room
<1> QED BY <1>3, <1>4

LEMMA NextRoom == IInv /\ IInv' /\ Room /\ [Next]_vars => Room'
<1> SUFFICES ASSUME IInv, IInv', Room, [Next]_vars PROVE Room'
  OBVIOUS
<1> USE DEF IInv
<1>0. total_allocated_bytes \in Int /\ total_allocated_bytes <= total_allocated_bytes
  BY DEF Types
<1>1. ASSUME NEW t \in Threads, NEW n \in Sizes, NEW c \in Categories,
             AllocateCheck(t, n, c)
      PROVE  Room'
  BY <1>1, RoomAtCheck
<1>2. ASSUME NEW t \in Threads, CudaMallocAsync(t) PROVE Room'
  <2>1. PICK p : call' = [call EXCEPT ![t] = With(t, "record", p)]
    BY <1>2 DEF CudaMallocAsync
  <2>2. /\ \A u \in Threads : call'[u].size = call[u].size
        /\ Pending' = Pending
    BY <1>2, <2>1 DEF CudaMallocAsync, With, Types, Pending
  <2> QED BY <1>0, <1>2, <2>2, RoomStays DEF CudaMallocAsync, accounts, Pending
<1>3. ASSUME NEW t \in Threads, CudaMallocAsyncFails(t) PROVE Room'
  <2>1. /\ t \in Pending /\ Pending' = Pending \ {t}
        /\ \A u \in Pending \ {t} : call'[u] = call[u]
    BY <1>3 DEF CudaMallocAsyncFails, Types, Pending
  <2>2. total_allocated_bytes' <= total_allocated_bytes + call[t].size
    BY <1>0, <1>3 DEF CudaMallocAsyncFails, accounts, Types
  <2> QED BY <2>1, <2>2, RoomLeft
<1>4. ASSUME NEW t \in Threads, AllocateRecord(t) PROVE Room'
  <2>1. /\ t \in Pending /\ Pending' = Pending \ {t}
        /\ \A u \in Pending \ {t} : call'[u] = call[u]
    BY <1>4 DEF AllocateRecord, Types, Pending
  <2>2. total_allocated_bytes' <= total_allocated_bytes + call[t].size
    BY <1>0, <1>4 DEF AllocateRecord, Types
  <2> QED BY <2>1, <2>2, RoomLeft
<1>5. ASSUME NEW t \in Threads, NEW p \in Ptrs, FreeRecord(t, p) PROVE Room'
  <2>1. total_allocated_bytes' <= total_allocated_bytes
    BY <1>0, <1>5 DEF FreeRecord, Types, Blocks
  <2>2. Pending' = Pending /\ \A u \in Pending : call'[u].size = call[u].size
    BY <1>5 DEF FreeRecord, With, Types, Pending
  <2> QED BY <2>1, <2>2, RoomStays
<1>6. ASSUME NEW t \in Threads, call[t].op \in {"returned", "failed", "cudaFree"},
             call' = [call EXCEPT ![t] = Idle], UNCHANGED accounts
      PROVE  Room'
  <2>1. Pending' = Pending /\ \A u \in Pending : call'[u].size = call[u].size
    BY <1>6 DEF Idle, Types, Pending
  <2> QED BY <1>0, <1>6, <2>1, RoomStays DEF accounts
<1>7. ASSUME UNCHANGED <<accounts, call>> PROVE Room'
  <2>1. Pending' = Pending
    BY <1>7 DEF Pending
  <2> QED BY <1>0, <1>7, <2>1, RoomStays DEF accounts
<1> QED
  BY <1>1, <1>2, <1>3, <1>4, <1>5, <1>6, <1>7
     DEF Next, vars, Return, CudaFreeAsync, CudaFreeAsyncFails, reset_peak_stats

-----------------------------------------------------------------------------
(* IInv holds in every reachable state. *)
THEOREM InductiveInvariant == Spec => []IInv
<1>1. Init => IInv
  BY InitIInv
<1>2. IInv /\ [Next]_vars => IInv'
  BY NextIInv
<1> QED
  BY <1>1, <1>2, PTL DEF Spec

(* Whatever the interleaving of critical sections and driver calls, every  *)
(* address the driver handed out is tracked, in one driver call, or lost   *)
(* by a failed cudaFreeAsync (BlockAllocator::allocate and free).          *)
THEOREM NoAddressLost == Spec => []AddressesAccounted
<1>1. IInv => AddressesAccounted
  BY DEF IInv
<1> QED
  BY <1>1, InductiveInvariant, PTL

(* The category counters always add up to total_allocated_bytes_. *)
THEOREM CategoriesAddUp == Spec => []TotalIsSumOfCategories
<1>1. IInv => TotalIsSumOfCategories
  BY DEF IInv
<1> QED
  BY <1>1, InductiveInvariant, PTL

(* The peak covers what is allocated, resets included. *)
THEOREM PeakIsPeak == Spec => []PeakCoversTotal
<1>1. IInv => PeakCoversTotal
  BY DEF IInv
<1> QED
  BY <1>1, InductiveInvariant, PTL

(* active_allocations_[d_ptr] = handle never hits a tracked address: free  *)
(* erases the handle before the driver may hand the address out again.     *)
THEOREM HandlesKept == Spec => HandlesNeverOverwritten
<1>1. IInv /\ [Next]_vars =>
        [\A p \in Tracked \cap Tracked' :
           active_allocations'[p] = active_allocations[p]]_vars
  BY NextIInv
<1> QED
  BY <1>1, InductiveInvariant, PTL DEF Spec, HandlesNeverOverwritten

(* The counters of allocate and free are the sums of the tracked blocks.   *)
THEOREM CountersExact == Spec => []AccountsExact
<1>1. Init => Accounts
  BY InitAccounts
<1>2. IInv /\ IInv' /\ Accounts /\ [Next]_vars => Accounts'
  BY NextAccounts
<1>3. Accounts => AccountsExact
  BY DEF Accounts
<1> QED
  BY <1>1, <1>2, <1>3, InductiveInvariant, PTL DEF Spec

(* The counters of allocate and free never go below 0, where a size_t      *)
(* would wrap, and every variable has its type.                            *)
THEOREM CountersNeverNegative == Spec => []TypeOK
<1>1. Init => Accounts
  BY InitAccounts
<1>2. IInv /\ IInv' /\ Accounts /\ [Next]_vars => Accounts'
  BY NextAccounts
<1>3. IInv /\ Accounts => TypeOK
  <2> SUFFICES ASSUME IInv, Accounts PROVE TypeOK
    OBVIOUS
  <2> USE DEF IInv, Accounts
  <2>1. total_allocated_bytes \in Nat
    BY BytesAreNat, SumIsNat DEF AccountsExact, SumFunction
  <2>2. \A c \in MemoryCategory : category_allocated_bytes[c] \in Nat
    BY BytesAreNat, BlocksOfFinite, SumIsNat DEF AccountsExact
  <2>3. category_allocated_bytes \in [MemoryCategory -> Nat]
    BY <2>2 DEF Types
  <2>4. peak_allocated_bytes \in Nat
    BY <2>1 DEF Types, PeakCoversTotal
  <2> QED BY <2>1, <2>3, <2>4 DEF Types, TypeOK
<1> QED
  BY <1>1, <1>2, <1>3, InductiveInvariant, PTL DEF Spec

(* The check of allocate and its accounting are two critical sections: all *)
(* other threads together exceed the limit by one request each, no more.   *)
THEOREM OvershootIsBounded == Spec => []OvershootBounded
<1>1. Init => Room
  BY InitRoom
<1>2. IInv /\ IInv' /\ Room /\ [Next]_vars => Room'
  BY NextRoom
<1>3. Room => OvershootBounded
  BY DEF Room, Fits, OvershootBounded, Ceiling, Largest
<1> QED
  BY <1>1, <1>2, <1>3, InductiveInvariant, PTL DEF Spec

-----------------------------------------------------------------------------
PoolTypes ==
  /\ pc \in [Users -> {"idle", "first", "purge", "purging", "retry", "second"}]
  /\ want \in [Users -> [bytes : Nat, category : MemoryCategory]]
  /\ Pooled \subseteq Ptrs /\ IsFiniteSet(Pooled)
  /\ \A p \in Pooled : pool_nodes[p] \in PoolNode
  /\ free_buckets \in [Buckets -> Seq(Ptrs)]

(* What acquire has asked the allocator for. *)
Acquiring ==
  \A t \in Users :
    /\ want[t] = NoWant \/ want[t].bytes \in Sizes
    /\ pc[t] \in {"first", "purge", "retry", "second"} => want[t] # NoWant
    /\ pc[t] \in {"first", "second"} =>
         /\ call[t].op \in {"malloc", "record", "returned", "failed"}
         /\ call[t].size = calculate_bucket_size(want[t].bytes)
         /\ call[t].category = want[t].category

InHand(t) == call[t].op = "returned"

(* A block that allocate returns is in one thread's hands, out of the pool.*)
Handing ==
  /\ \A t \in Threads : InHand(t) =>
       /\ call[t].ptr \in Tracked \ Pooled
       /\ active_allocations[call[t].ptr] =
            [size |-> call[t].size, category |-> call[t].category]
  /\ \A t, u \in Threads : InHand(t) /\ InHand(u) /\ t # u =>
       call[t].ptr # call[u].ptr

(* The free nodes of a bucket, and buckets that hold them once each. *)
FreeNodes(n, b) == {p \in DOMAIN n : ~n[p].in_use /\ n[p].capacity = b}

InBuckets(n, buckets) ==
  \A b \in Buckets :
    IsInjective(buckets[b]) /\ ToSet(buckets[b]) = FreeNodes(n, b)

Backed(n, blocks) ==
  \A p \in DOMAIN n :
    /\ p \in DOMAIN blocks
    /\ blocks[p].size = n[p].capacity /\ blocks[p].category = n[p].category
    /\ n[p].requested <= n[p].capacity

PInv ==
  /\ IInv /\ PoolTypes /\ Acquiring /\ Handing
  /\ InBuckets(pool_nodes, free_buckets) /\ Backed(pool_nodes, active_allocations)
  /\ PoolAccountsExact

-----------------------------------------------------------------------------
LEMMA BucketsAreNat == \A b \in Buckets : b \in Nat /\ align_bytes(b) = b
<1> SUFFICES ASSUME NEW b \in Buckets PROVE b \in Nat /\ align_bytes(b) = b
  OBVIOUS
<1>1. PICK k \in 0..MaxPower : b = 256 * 2^k
  BY DEF Buckets
<1>2. PICK m \in Nat : m = 2^k
  BY PowerAssumption
<1>3. b = 256 * m
  BY <1>1, <1>2
<1>4. (256 * m + 255) \div 256 = m
  OBVIOUS
<1> QED BY <1>3, <1>4 DEF align_bytes

(* Every request fits the bucket it is given. *)
LEMMA BucketFits ==
  ASSUME NEW n \in Sizes
  PROVE  /\ calculate_bucket_size(n) \in Buckets
         /\ n \in Nat /\ n <= calculate_bucket_size(n)
<1> DEFINE S == {b \in Buckets : b >= n}
<1>1. n \in Nat
  BY BlockAllocatorAssumption
<1>2. 256 * 2^MaxPower \in S
  BY BufferPoolAssumption, BucketsAreNat DEF Buckets
<1>3. PICK m \in S : \A k \in S : m <= k
  <2>1. S \in SUBSET Nat /\ S # {}
    BY <1>2, BucketsAreNat
  <2> HIDE DEF S
  <2> QED BY <2>1, LeastNumber
<1>4. m \in Buckets /\ m >= n /\ \A a \in Buckets : a >= n => a >= m
  BY <1>3, BucketsAreNat
<1>5. calculate_bucket_size(n) \in Buckets /\ calculate_bucket_size(n) >= n
  BY <1>4 DEF calculate_bucket_size
<1> QED BY <1>1, <1>5, BucketsAreNat

(* What taking from and putting into a bucket does to the buffers in it. *)
LEMMA TakeLast ==
  ASSUME NEW S, NEW s \in Seq(S), s # <<>>, IsInjective(s)
  PROVE  /\ Last(s) \in ToSet(s) /\ Last(s) \in S
         /\ Front(s) \in Seq(S) /\ IsInjective(Front(s))
         /\ ToSet(Front(s)) = ToSet(s) \ {Last(s)}
<1>1. Len(s) \in Nat \ {0} /\ DOMAIN s = 1..Len(s)
  BY EmptySeq
<1>2. PICK n \in Nat : n = Len(s) - 1
  <2>1. Len(s) - 1 \in Nat
    BY <1>1
  <2> QED BY <2>1
<1>3. /\ Front(s) = SubSeq(s, 1, n) /\ Last(s) = s[n + 1] /\ Len(s) = n + 1
  BY <1>1, <1>2 DEF Front, Last
<1>4. \A i \in 1..n : i \in 1..Len(s) /\ s[i] \in S
  BY <1>1, <1>3
<1>5. /\ Front(s) \in Seq(S) /\ DOMAIN Front(s) = 1..n
      /\ \A i \in 1..n : Front(s)[i] = s[i]
  BY <1>1, <1>3
<1>6. \A i \in 1..n : i # n + 1 /\ s[i] # s[n + 1]
  <2> SUFFICES ASSUME NEW i \in 1..n PROVE i # n + 1 /\ s[i] # s[n + 1]
    OBVIOUS
  <2>1. i \in DOMAIN s /\ n + 1 \in DOMAIN s /\ i # n + 1
    BY <1>1, <1>3
  <2> QED BY <2>1 DEF IsInjective
<1>7. ToSet(Front(s)) = ToSet(s) \ {Last(s)}
  <2>1. ASSUME NEW i \in 1..n
        PROVE  /\ Front(s)[i] \in ToSet(s) \ {Last(s)}
               /\ s[i] \in ToSet(Front(s)) /\ i \in DOMAIN s
    <3>1. i \in DOMAIN s /\ i \in DOMAIN Front(s) /\ Front(s)[i] = s[i]
      BY <1>1, <1>4, <1>5
    <3>2. s[i] # Last(s)
      BY <1>3, <1>6
    <3> QED BY <3>1, <3>2 DEF ToSet
  <2>2. \A i \in DOMAIN s : i = n + 1 \/ i \in 1..n
    BY <1>1, <1>3
  <2>3. \A x \in ToSet(Front(s)) : x \in ToSet(s) \ {Last(s)}
    BY <1>5, <2>1 DEF ToSet
  <2>4. \A x \in ToSet(s) \ {Last(s)} : x \in ToSet(Front(s))
    BY <1>3, <2>1, <2>2 DEF ToSet
  <2> QED BY <2>3, <2>4
<1>8. IsInjective(Front(s))
  BY <1>1, <1>3, <1>5 DEF IsInjective
<1>9. n + 1 \in DOMAIN s /\ s[n + 1] \in S
  BY <1>1, <1>3
<1>10. Last(s) \in ToSet(s) /\ Last(s) \in S
  BY <1>3, <1>9 DEF ToSet
<1> QED BY <1>5, <1>7, <1>8, <1>10

LEMMA TakeFirst ==
  ASSUME NEW S, NEW s \in Seq(S), s # <<>>, IsInjective(s)
  PROVE  /\ Head(s) \in ToSet(s) /\ Head(s) \in S
         /\ Tail(s) \in Seq(S) /\ IsInjective(Tail(s))
         /\ ToSet(Tail(s)) = ToSet(s) \ {Head(s)}
<1>1. Len(s) \in Nat \ {0} /\ DOMAIN s = 1..Len(s)
  BY EmptySeq
<1>2. PICK n \in Nat : n = Len(s) - 1
  <2>1. Len(s) - 1 \in Nat
    BY <1>1
  <2> QED BY <2>1
<1>3. Head(s) = s[1] /\ Len(s) = n + 1 /\ 1 \in DOMAIN s
  BY <1>1, <1>2
<1>4. /\ Tail(s) \in Seq(S) /\ DOMAIN Tail(s) = 1..n
      /\ \A i \in 1..n : Tail(s)[i] = s[i + 1]
  BY <1>1, <1>2
<1>5. \A i \in 1..n : i + 1 \in DOMAIN s /\ s[i + 1] # s[1]
  <2> SUFFICES ASSUME NEW i \in 1..n PROVE i + 1 \in DOMAIN s /\ s[i + 1] # s[1]
    OBVIOUS
  <2>1. i + 1 \in DOMAIN s /\ 1 \in DOMAIN s /\ i + 1 # 1
    BY <1>1, <1>3
  <2> QED BY <2>1 DEF IsInjective
<1>6. \A x \in ToSet(s) \ {s[1]} : \E i \in 1..n : x = s[i + 1]
  <2> SUFFICES ASSUME NEW x \in ToSet(s) \ {s[1]}
               PROVE  \E i \in 1..n : x = s[i + 1]
    OBVIOUS
  <2>1. PICK j \in DOMAIN s : x = s[j] /\ j # 1
    BY DEF ToSet
  <2>2. j - 1 \in 1..n /\ (j - 1) + 1 = j
    BY <1>1, <1>3, <2>1
  <2> QED BY <2>1, <2>2
<1>7. ToSet(Tail(s)) = ToSet(s) \ {Head(s)}
  <2>1. ASSUME NEW i \in 1..n
        PROVE  /\ Tail(s)[i] \in ToSet(s) \ {Head(s)}
               /\ s[i + 1] \in ToSet(Tail(s))
    BY <1>3, <1>4, <1>5 DEF ToSet
  <2>2. \A x \in ToSet(Tail(s)) : x \in ToSet(s) \ {Head(s)}
    BY <1>4, <2>1 DEF ToSet
  <2>3. \A x \in ToSet(s) \ {Head(s)} : x \in ToSet(Tail(s))
    BY <1>3, <1>6, <2>1
  <2> QED BY <2>2, <2>3
<1>8. IsInjective(Tail(s))
  <2> SUFFICES ASSUME NEW i \in 1..n, NEW j \in 1..n, s[i + 1] = s[j + 1] PROVE i = j
    BY <1>4 DEF IsInjective
  <2>1. i + 1 = j + 1
    BY <1>5 DEF IsInjective
  <2> QED BY <2>1
<1> QED BY <1>3, <1>4, <1>7, <1>8 DEF ToSet

LEMMA PutLast ==
  ASSUME NEW S, NEW s \in Seq(S), NEW p \in S, p \notin ToSet(s), IsInjective(s)
  PROVE  /\ Append(s, p) \in Seq(S) /\ IsInjective(Append(s, p))
         /\ ToSet(Append(s, p)) = ToSet(s) \cup {p}
<1>1. PICK n \in Nat : n = Len(s)
  OBVIOUS
<1>2. DOMAIN s = 1..n /\ DOMAIN Append(s, p) = 1..n + 1
  BY <1>1
<1>3. /\ Append(s, p)[n + 1] = p
      /\ \A i \in 1..n : Append(s, p)[i] = s[i] /\ s[i] # p
  BY <1>1, <1>2 DEF ToSet
<1>4. 1..n + 1 = (1..n) \cup {n + 1}
  OBVIOUS
<1>5. ToSet(Append(s, p)) = ToSet(s) \cup {p}
  BY <1>2, <1>3, <1>4 DEF ToSet
<1>6. IsInjective(Append(s, p))
  BY <1>2, <1>3, <1>4 DEF IsInjective
<1> QED BY <1>5, <1>6

-----------------------------------------------------------------------------
(* A free node leaves its bucket, and no other. *)
LEMMA LeavesBucket ==
  ASSUME NEW n, NEW n2, NEW buckets, DOMAIN buckets = Buckets, InBuckets(n, buckets),
         NEW b \in Buckets, NEW p \in FreeNodes(n, b),
         \A a \in Buckets : FreeNodes(n2, a) = FreeNodes(n, a) \ {p},
         NEW s, IsInjective(s), ToSet(s) = ToSet(buckets[b]) \ {p}
  PROVE  InBuckets(n2, [buckets EXCEPT ![b] = s])
<1> DEFINE after == [buckets EXCEPT ![b] = s]
<1>1. after[b] = s /\ \A a \in Buckets \ {b} : after[a] = buckets[a]
  OBVIOUS
<1>2. \A a \in Buckets \ {b} : FreeNodes(n2, a) = FreeNodes(n, a)
  BY DEF FreeNodes
<1>3. FreeNodes(n2, b) = ToSet(s)
  BY DEF InBuckets
<1> HIDE DEF after
<1> QED BY <1>1, <1>2, <1>3 DEF InBuckets

LEMMA NoLongerFree ==
  ASSUME NEW n, NEW n2, NEW p \in DOMAIN n, DOMAIN n2 = DOMAIN n,
         \A q \in DOMAIN n \ {p} : n2[q] = n[q], n2[p].in_use
  PROVE  \A a : FreeNodes(n2, a) = FreeNodes(n, a) \ {p}
BY DEF FreeNodes

(* The counters as sums over the nodes n. *)
Used(n) == {p \in DOMAIN n : n[p].in_use}
Kept(n) == {p \in DOMAIN n : ~n[p].in_use}
Capacities(n) == [p \in DOMAIN n |-> n[p].capacity]
Requests(n) == [p \in DOMAIN n |-> n[p].requested]

Counted(n, pooled, active, cached, requested) ==
  /\ pooled = SumFunctionOnSet(Capacities(n), DOMAIN n)
  /\ active = SumFunctionOnSet(Capacities(n), Used(n))
  /\ cached = SumFunctionOnSet(Capacities(n), Kept(n))
  /\ requested = SumFunctionOnSet(Requests(n), Used(n))

LEMMA AccountsCounted ==
  PoolAccountsExact <=>
    Counted(pool_nodes, total_pooled_bytes, active_bytes, free_cached_bytes,
            total_requested_bytes)
<1>1. /\ Cached = Kept(pool_nodes) /\ Pooled \ Cached = Used(pool_nodes)
      /\ Capacity = Capacities(pool_nodes) /\ Requested = Requests(pool_nodes)
      /\ DOMAIN Capacity = DOMAIN pool_nodes
  BY DEF Cached, Kept, Used, Capacities, Requests, Capacity, Requested, Pooled
<1> QED BY <1>1 DEF PoolAccountsExact, Counted, SumFunction

LEMMA AccountsCountedNext ==
  ASSUME Counted(pool_nodes', total_pooled_bytes', active_bytes', free_cached_bytes',
                 total_requested_bytes')
  PROVE  PoolAccountsExact'
<1>1. /\ Cached' = Kept(pool_nodes') /\ (Pooled \ Cached)' = Used(pool_nodes')
      /\ Capacity' = Capacities(pool_nodes') /\ Requested' = Requests(pool_nodes')
      /\ DOMAIN Capacity' = DOMAIN pool_nodes'
  BY DEF Cached, Kept, Used, Capacities, Requests, Capacity, Requested, Pooled
<1> QED BY <1>1 DEF PoolAccountsExact, Counted, SumFunction

Nodes(n) == IsFiniteSet(DOMAIN n) /\ \A p \in DOMAIN n : n[p] \in PoolNode

LEMMA NodeFacts ==
  ASSUME NEW n, Nodes(n)
  PROVE  /\ IsFiniteSet(Used(n)) /\ IsFiniteSet(Kept(n)) /\ IsFiniteSet(DOMAIN n)
         /\ Used(n) \subseteq DOMAIN n /\ Kept(n) \subseteq DOMAIN n
         /\ \A p \in DOMAIN n :
              /\ Capacities(n)[p] = n[p].capacity /\ Requests(n)[p] = n[p].requested
              /\ n[p].capacity \in Nat /\ n[p].requested \in Nat
              /\ n[p].in_use \in BOOLEAN /\ n[p].capacity \in Buckets
<1>1. Used(n) \in SUBSET (DOMAIN n) /\ Kept(n) \in SUBSET (DOMAIN n)
  BY DEF Used, Kept
<1>2. IsFiniteSet(Used(n)) /\ IsFiniteSet(Kept(n))
  BY <1>1, FS_Subset DEF Nodes
<1>3. ASSUME NEW p \in DOMAIN n
      PROVE  /\ Capacities(n)[p] = n[p].capacity /\ Requests(n)[p] = n[p].requested
             /\ n[p].capacity \in Nat /\ n[p].requested \in Nat
             /\ n[p].in_use \in BOOLEAN /\ n[p].capacity \in Buckets
  BY BucketsAreNat DEF Nodes, PoolNode, Capacities, Requests
<1> QED BY <1>1, <1>2, <1>3 DEF Nodes

(* A sum over S and p, all of it numbers. *)
LEMMA SumSplits ==
  ASSUME NEW v, NEW w, NEW S, IsFiniteSet(S), NEW p, p \notin S, w[p] \in Nat,
         \A q \in S : w[q] = v[q] /\ v[q] \in Nat
  PROVE  /\ SumFunctionOnSet(v, S) \in Nat
         /\ SumFunctionOnSet(w, S \cup {p}) = SumFunctionOnSet(v, S) + w[p]
BY SumAdds, SumIsNat

LEMMA CountedUsed ==
  ASSUME NEW n, NEW n2, Nodes(n), Nodes(n2), DOMAIN n2 = DOMAIN n, NEW p \in DOMAIN n,
         ~n[p].in_use, n2[p].in_use, n2[p].capacity = n[p].capacity,
         \A q \in DOMAIN n \ {p} : n2[q] = n[q],
         NEW x, NEW a, NEW c, NEW r, Counted(n, x, a, c, r)
  PROVE  Counted(n2, x, a + n[p].capacity, c - n[p].capacity, r + n2[p].requested)
<1>1. /\ Used(n2) = Used(n) \cup {p} /\ p \notin Used(n)
      /\ Kept(n) = Kept(n2) \cup {p} /\ p \notin Kept(n2)
      /\ Capacities(n2) = Capacities(n)
  BY DEF Used, Kept, Capacities
<1>2. PICK k \in Nat, m \in Nat : k = n[p].capacity /\ m = n2[p].requested
  BY NodeFacts
<1>3. /\ Capacities(n)[p] = k /\ Requests(n2)[p] = m
      /\ \A q \in DOMAIN n : Capacities(n)[q] \in Nat /\ Requests(n)[q] \in Nat
      /\ \A q \in Used(n) : Requests(n2)[q] = Requests(n)[q]
  <2>1. \A q \in Used(n) : q \in DOMAIN n \ {p}
    BY DEF Used
  <2> QED BY <1>2, <2>1, NodeFacts DEF Requests
<1>4. a + k = SumFunctionOnSet(Capacities(n2), Used(n2))
  BY <1>1, <1>3, NodeFacts, SumSplits DEF Counted
<1>5. c - k = SumFunctionOnSet(Capacities(n2), Kept(n2))
  <2>1. PICK y \in Nat : y = SumFunctionOnSet(Capacities(n), Kept(n2))
    BY <1>1, <1>3, NodeFacts, SumIsNat
  <2>2. c = y + k
    BY <1>1, <1>3, <2>1, NodeFacts, SumSplits DEF Counted
  <2> QED BY <1>1, <2>1, <2>2
<1>6. r + m = SumFunctionOnSet(Requests(n2), Used(n2))
  BY <1>1, <1>3, NodeFacts, SumSplits DEF Counted
<1> QED BY <1>1, <1>2, <1>4, <1>5, <1>6 DEF Counted

LEMMA CountedKept ==
  ASSUME NEW n, NEW n2, Nodes(n), Nodes(n2), DOMAIN n2 = DOMAIN n, NEW p \in DOMAIN n,
         n[p].in_use, ~n2[p].in_use, n2[p].capacity = n[p].capacity,
         \A q \in DOMAIN n \ {p} : n2[q] = n[q],
         NEW x, NEW a, NEW c, NEW r, Counted(n, x, a, c, r)
  PROVE  Counted(n2, x, a - n[p].capacity, c + n[p].capacity, r - n[p].requested)
<1>1. /\ Used(n) = Used(n2) \cup {p} /\ p \notin Used(n2)
      /\ Kept(n2) = Kept(n) \cup {p} /\ p \notin Kept(n)
      /\ Capacities(n2) = Capacities(n)
  BY DEF Used, Kept, Capacities
<1>2. PICK k \in Nat, m \in Nat : k = n[p].capacity /\ m = n[p].requested
  BY NodeFacts
<1>3. /\ Capacities(n)[p] = k /\ Requests(n)[p] = m
      /\ \A q \in DOMAIN n : Capacities(n)[q] \in Nat /\ Requests(n2)[q] \in Nat
      /\ \A q \in Used(n2) : Requests(n)[q] = Requests(n2)[q]
  <2>1. \A q \in Used(n2) : q \in DOMAIN n \ {p}
    BY DEF Used
  <2> QED BY <1>2, <2>1, NodeFacts DEF Requests
<1>4. c + k = SumFunctionOnSet(Capacities(n2), Kept(n2))
  BY <1>1, <1>3, NodeFacts, SumSplits DEF Counted
<1>5. a - k = SumFunctionOnSet(Capacities(n2), Used(n2))
  <2>1. PICK y \in Nat : y = SumFunctionOnSet(Capacities(n), Used(n2))
    BY <1>1, <1>3, NodeFacts, SumIsNat
  <2>2. a = y + k
    BY <1>1, <1>3, <2>1, NodeFacts, SumSplits DEF Counted
  <2> QED BY <1>1, <2>1, <2>2
<1>6. r - m = SumFunctionOnSet(Requests(n2), Used(n2))
  <2>1. PICK y \in Nat : y = SumFunctionOnSet(Requests(n2), Used(n2))
    BY <1>1, <1>3, NodeFacts, SumIsNat
  <2>2. r = y + m
    BY <1>1, <1>2, <1>3, <2>1, NodeFacts, SumSplits DEF Counted
  <2> QED BY <2>1, <2>2
<1> QED BY <1>1, <1>2, <1>4, <1>5, <1>6 DEF Counted

LEMMA CountedNew ==
  ASSUME NEW n, NEW n2, Nodes(n), Nodes(n2), NEW p, p \notin DOMAIN n,
         DOMAIN n2 = DOMAIN n \cup {p}, n2[p].in_use,
         \A q \in DOMAIN n : n2[q] = n[q],
         NEW x, NEW a, NEW c, NEW r, Counted(n, x, a, c, r)
  PROVE  Counted(n2, x + n2[p].capacity, a + n2[p].capacity, c, r + n2[p].requested)
<1>1. /\ Used(n2) = Used(n) \cup {p} /\ p \notin Used(n)
      /\ Kept(n2) = Kept(n)
  BY DEF Used, Kept
<1>2. PICK k \in Nat, m \in Nat : k = n2[p].capacity /\ m = n2[p].requested
  BY NodeFacts
<1>3. /\ Capacities(n2)[p] = k /\ Requests(n2)[p] = m
      /\ \A q \in DOMAIN n :
           /\ Capacities(n)[q] \in Nat /\ Requests(n)[q] \in Nat
           /\ Capacities(n2)[q] = Capacities(n)[q]
           /\ Requests(n2)[q] = Requests(n)[q]
  BY <1>2, NodeFacts DEF Capacities, Requests
<1>4. x + k = SumFunctionOnSet(Capacities(n2), DOMAIN n2)
  BY <1>3, NodeFacts, SumSplits DEF Counted
<1>5. a + k = SumFunctionOnSet(Capacities(n2), Used(n2))
  BY <1>1, <1>3, NodeFacts, SumSplits DEF Counted
<1>6. c = SumFunctionOnSet(Capacities(n2), Kept(n2))
  BY <1>1, <1>3, NodeFacts, SumKept DEF Counted
<1>7. r + m = SumFunctionOnSet(Requests(n2), Used(n2))
  BY <1>1, <1>3, NodeFacts, SumSplits DEF Counted
<1> QED BY <1>2, <1>4, <1>5, <1>6, <1>7 DEF Counted

LEMMA CountedFreed ==
  ASSUME NEW n, NEW n2, Nodes(n), Nodes(n2), NEW p \in DOMAIN n, ~n[p].in_use,
         DOMAIN n2 = DOMAIN n \ {p}, \A q \in DOMAIN n2 : n2[q] = n[q],
         NEW x, NEW a, NEW c, NEW r, Counted(n, x, a, c, r)
  PROVE  Counted(n2, x - n[p].capacity, a, c - n[p].capacity, r)
<1>1. /\ Kept(n) = Kept(n2) \cup {p} /\ p \notin Kept(n2)
      /\ Used(n2) = Used(n)
      /\ DOMAIN n = DOMAIN n2 \cup {p} /\ p \notin DOMAIN n2
  BY DEF Used, Kept
<1>2. PICK k \in Nat : k = n[p].capacity
  BY NodeFacts
<1>3. /\ Capacities(n)[p] = k
      /\ \A q \in DOMAIN n2 :
           /\ Capacities(n2)[q] \in Nat /\ Requests(n2)[q] \in Nat
           /\ Capacities(n)[q] = Capacities(n2)[q]
           /\ Requests(n)[q] = Requests(n2)[q]
  BY <1>2, NodeFacts DEF Capacities, Requests
<1>4. x - k = SumFunctionOnSet(Capacities(n2), DOMAIN n2)
  <2>1. PICK y \in Nat : y = SumFunctionOnSet(Capacities(n2), DOMAIN n2)
    BY <1>3, NodeFacts, SumIsNat
  <2>2. x = y + k
    <3>1. PICK D : D = DOMAIN n2 /\ IsFiniteSet(D) /\ p \notin D
      BY <1>1, NodeFacts
    <3>2. SumFunctionOnSet(Capacities(n), D \cup {p}) =
            SumFunctionOnSet(Capacities(n2), D) + k
      BY <1>3, <3>1, SumSplits
    <3> QED BY <1>1, <2>1, <3>1, <3>2 DEF Counted
  <2> QED BY <2>1, <2>2
<1>5. c - k = SumFunctionOnSet(Capacities(n2), Kept(n2))
  <2>1. PICK y \in Nat : y = SumFunctionOnSet(Capacities(n2), Kept(n2))
    BY <1>3, NodeFacts, SumIsNat
  <2>2. c = y + k
    BY <1>1, <1>3, <2>1, NodeFacts, SumSplits DEF Counted
  <2> QED BY <2>1, <2>2
<1>6. a = SumFunctionOnSet(Capacities(n2), Used(n2))
  BY <1>1, <1>3, NodeFacts, SumKept DEF Counted
<1>7. r = SumFunctionOnSet(Requests(n2), Used(n2))
  BY <1>1, <1>3, NodeFacts, SumKept DEF Counted
<1> QED BY <1>2, <1>4, <1>5, <1>6, <1>7 DEF Counted

-----------------------------------------------------------------------------
LEMMA InitPool == PoolInit => PInv
<1> SUFFICES ASSUME PoolInit PROVE PInv
  OBVIOUS
<1>1. IInv
  BY InitIInv DEF PoolInit
<1>2. Pooled = {} /\ \A t \in Threads : call[t] = Idle
  BY DEF PoolInit, Init, Pooled
<1>3. PoolTypes
  <2>1. \A b \in Buckets : free_buckets[b] = <<>> /\ <<>> \in Seq(Ptrs)
    BY DEF PoolInit
  <2>2. free_buckets \in [Buckets -> Seq(Ptrs)]
    BY <2>1 DEF PoolInit
  <2> QED
    BY <1>2, <2>2, FS_EmptySet DEF PoolInit, PoolTypes, NoWant, MemoryCategory
<1>4. Acquiring
  BY DEF PoolInit, Acquiring
<1>5. Handing
  BY <1>2 DEF Handing, InHand, Idle
<1>6. InBuckets(pool_nodes, free_buckets)
  <2> SUFFICES ASSUME NEW b \in Buckets
               PROVE  /\ IsInjective(free_buckets[b])
                      /\ ToSet(free_buckets[b]) = FreeNodes(pool_nodes, b)
    BY DEF InBuckets
  <2>1. free_buckets[b] = <<>>
    BY DEF PoolInit
  <2>2. DOMAIN free_buckets[b] = {}
    BY <2>1
  <2> QED BY <1>2, <2>2 DEF IsInjective, ToSet, FreeNodes, Pooled
<1>7. Backed(pool_nodes, active_allocations)
  BY <1>2 DEF Backed, Pooled
<1>8. PoolAccountsExact
  <2>1. DOMAIN Capacity = {} /\ Pooled \ Cached = {} /\ Cached = {}
    BY <1>2 DEF Capacity, Cached
  <2>2. \A v, S : S = {} => SumFunctionOnSet(v, S) = 0
    BY SumOfNothing
  <2> QED BY <2>1, <2>2 DEF PoolInit, PoolAccountsExact, SumFunction
<1> QED BY <1>1, <1>3, <1>4, <1>5, <1>6, <1>7, <1>8 DEF PInv

(* A step that leaves the nodes alone, and the blocks of the pool. *)
LEMMA NodesUnmoved ==
  ASSUME PInv, IInv', UNCHANGED <<nodes, counters>>,
         pc' \in [Users -> {"idle", "first", "purge", "purging", "retry", "second"}],
         want' \in [Users -> [bytes : Nat, category : MemoryCategory]],
         \A p \in Pooled : p \in Tracked' /\ active_allocations'[p] = active_allocations[p],
         Acquiring', Handing'
  PROVE  PInv'
<1>1. pool_nodes' = pool_nodes /\ free_buckets' = free_buckets /\ Pooled' = Pooled
  BY DEF nodes, Pooled
<1>2. PoolTypes'
  BY <1>1 DEF PInv, PoolTypes
<1>3. InBuckets(pool_nodes', free_buckets') /\ Backed(pool_nodes', active_allocations')
  BY <1>1 DEF PInv, InBuckets, Backed, Tracked, Pooled
<1>4. PoolAccountsExact'
  <2>1. Capacity' = Capacity /\ Requested' = Requested /\ Cached' = Cached
    BY <1>1 DEF Capacity, Requested, Cached
  <2> QED BY <1>1, <2>1 DEF PInv, PoolAccountsExact, counters
<1> QED BY <1>2, <1>3, <1>4 DEF PInv

(* The allocator at rest keeps its invariant. *)
LEMMA AllocatorRests == IInv /\ UNCHANGED vars => IInv'
BY StutterStep

LEMMA HitStep ==
  ASSUME PInv, NEW t \in Users, NEW n \in Sizes, NEW c \in Categories,
         AcquireHit(t, n, c)
  PROVE  PInv'
<1> USE DEF PInv
<1>1. PICK b \in Buckets : b = calculate_bucket_size(n) /\ n \in Nat /\ n <= b
  BY BucketFits
<1>2. PICK p : p = Last(free_buckets[b])
  OBVIOUS
<1>3. /\ UNCHANGED <<vars, owner, pc, want, total_pooled_bytes>>
      /\ free_buckets[b] # <<>>
      /\ free_buckets' = [free_buckets EXCEPT ![b] = Front(free_buckets[b])]
      /\ pool_nodes' = [pool_nodes EXCEPT ![p] =
           [@ EXCEPT !.in_use = TRUE, !.requested = n, !.asked = c]]
      /\ free_cached_bytes' = free_cached_bytes - b
      /\ active_bytes' = active_bytes + b
      /\ total_requested_bytes' = total_requested_bytes + n
  BY <1>1, <1>2 DEF AcquireHit, Taken
<1>4. /\ p \in ToSet(free_buckets[b]) /\ p \in Ptrs
      /\ Front(free_buckets[b]) \in Seq(Ptrs) /\ IsInjective(Front(free_buckets[b]))
      /\ ToSet(Front(free_buckets[b])) = ToSet(free_buckets[b]) \ {p}
  BY <1>2, <1>3, TakeLast DEF PoolTypes, InBuckets
<1>5. p \in FreeNodes(pool_nodes, b)
  BY <1>4 DEF InBuckets
<1>6. /\ p \in Pooled /\ ~pool_nodes[p].in_use /\ pool_nodes[p].capacity = b
      /\ pool_nodes[p] \in PoolNode
  BY <1>5 DEF FreeNodes, Pooled, PoolTypes
<1>7. c \in MemoryCategory
  BY BlockAllocatorAssumption DEF MemoryCategory
<1>8. /\ DOMAIN pool_nodes' = DOMAIN pool_nodes
      /\ \A q \in DOMAIN pool_nodes \ {p} : pool_nodes'[q] = pool_nodes[q]
      /\ pool_nodes'[p] = [pool_nodes[p] EXCEPT !.in_use = TRUE, !.requested = n,
                                                !.asked = c]
  BY <1>3, <1>6 DEF Pooled
<1>9. /\ pool_nodes'[p].in_use /\ pool_nodes'[p].capacity = b
      /\ pool_nodes'[p].requested = n
      /\ pool_nodes'[p].category = pool_nodes[p].category
      /\ pool_nodes'[p] \in PoolNode
  BY <1>1, <1>6, <1>7, <1>8 DEF PoolNode
<1>10. IInv'
  BY <1>3, AllocatorRests
<1>11. PoolTypes'
  <2>1. free_buckets' \in [Buckets -> Seq(Ptrs)]
    BY <1>3, <1>4 DEF PoolTypes
  <2>2. \A q \in Pooled' : pool_nodes'[q] \in PoolNode
    BY <1>8, <1>9 DEF PoolTypes, Pooled
  <2> QED BY <1>3, <1>8, <2>1, <2>2 DEF PoolTypes, Pooled
<1>12. Acquiring'
  BY <1>3 DEF Acquiring, vars
<1>13. Handing'
  BY <1>3, <1>8 DEF Handing, InHand, vars, accounts, Tracked, Pooled
<1>14. InBuckets(pool_nodes', free_buckets')
  <2>0. PICK m, m2 : m = pool_nodes /\ m2 = pool_nodes'
    OBVIOUS
  <2>1. \A a : FreeNodes(m2, a) = FreeNodes(m, a) \ {p}
    <3>1. p \in DOMAIN m /\ DOMAIN m2 = DOMAIN m /\ m2[p].in_use
      BY <1>6, <1>8, <1>9, <2>0 DEF Pooled
    <3>2. \A q \in DOMAIN m \ {p} : m2[q] = m[q]
      BY <1>8, <2>0
    <3> QED BY <3>1, <3>2, NoLongerFree
  <2>2. DOMAIN free_buckets = Buckets
    BY DEF PoolTypes
  <2> QED BY <1>3, <1>4, <1>5, <2>0, <2>1, <2>2, LeavesBucket
<1>15. Backed(pool_nodes', active_allocations')
  BY <1>1, <1>3, <1>6, <1>8, <1>9 DEF Backed, vars, accounts, Pooled
<1>16. PoolAccountsExact'
  <2>1. Counted(pool_nodes, total_pooled_bytes, active_bytes, free_cached_bytes,
                total_requested_bytes)
    BY AccountsCounted
  <2>2. Nodes(pool_nodes) /\ Nodes(pool_nodes')
    BY <1>11 DEF PoolTypes, Nodes, Pooled
  <2>3. p \in DOMAIN pool_nodes
    BY <1>6 DEF Pooled
  <2>4. Counted(pool_nodes', total_pooled_bytes, active_bytes + pool_nodes[p].capacity,
                free_cached_bytes - pool_nodes[p].capacity,
                total_requested_bytes + pool_nodes'[p].requested)
    BY <1>6, <1>8, <1>9, <2>1, <2>2, <2>3, CountedUsed
  <2>5. Counted(pool_nodes', total_pooled_bytes', active_bytes', free_cached_bytes',
                total_requested_bytes')
    BY <1>3, <1>6, <1>9, <2>4
  <2> QED BY <2>5, AccountsCountedNext
<1> QED BY <1>10, <1>11, <1>12, <1>13, <1>14, <1>15, <1>16

LEMMA ReleaseStep ==
  ASSUME PInv, NEW t \in Users, NEW p \in Ptrs, Release(t, p)
  PROVE  PInv'
<1> USE DEF PInv
<1>1. PICK b : b = pool_nodes[p].capacity
  OBVIOUS
<1>2. /\ UNCHANGED <<vars, owner, pc, want, total_pooled_bytes>>
      /\ p \in Pooled /\ pool_nodes[p].in_use
      /\ pool_nodes' = [pool_nodes EXCEPT ![p] = [@ EXCEPT !.in_use = FALSE]]
      /\ free_buckets' = [free_buckets EXCEPT ![b] = Append(@, p)]
      /\ active_bytes' = active_bytes - b
      /\ total_requested_bytes' = total_requested_bytes - pool_nodes[p].requested
      /\ free_cached_bytes' = free_cached_bytes + b
  BY <1>1 DEF Release, InUse
<1>3. pool_nodes[p] \in PoolNode /\ b \in Buckets
  BY <1>1, <1>2 DEF PoolTypes, PoolNode
<1>4. /\ DOMAIN pool_nodes' = DOMAIN pool_nodes
      /\ \A q \in DOMAIN pool_nodes \ {p} : pool_nodes'[q] = pool_nodes[q]
      /\ pool_nodes'[p] = [pool_nodes[p] EXCEPT !.in_use = FALSE]
  BY <1>2 DEF Pooled
<1>5. /\ ~pool_nodes'[p].in_use /\ pool_nodes'[p].capacity = b
      /\ pool_nodes'[p].requested = pool_nodes[p].requested
      /\ pool_nodes'[p].category = pool_nodes[p].category
      /\ pool_nodes'[p] \in PoolNode
  BY <1>1, <1>3, <1>4 DEF PoolNode
<1>6. p \notin ToSet(free_buckets[b])
  BY <1>2, <1>3 DEF InBuckets, FreeNodes
<1>7. PICK s : s = Append(free_buckets[b], p)
  OBVIOUS
<1>8. s \in Seq(Ptrs) /\ IsInjective(s) /\ ToSet(s) = ToSet(free_buckets[b]) \cup {p}
  BY <1>3, <1>6, <1>7, PutLast DEF PoolTypes, InBuckets
<1>9. free_buckets'[b] = s /\ \A a \in Buckets \ {b} : free_buckets'[a] = free_buckets[a]
  BY <1>2, <1>3, <1>7 DEF PoolTypes
<1>10. IInv'
  BY <1>2, AllocatorRests
<1>11. PoolTypes'
  <2>1. free_buckets' \in [Buckets -> Seq(Ptrs)]
    BY <1>2, <1>7, <1>8 DEF PoolTypes
  <2>2. \A q \in Pooled' : pool_nodes'[q] \in PoolNode
    BY <1>4, <1>5 DEF PoolTypes, Pooled
  <2> QED BY <1>2, <1>4, <2>1, <2>2 DEF PoolTypes, Pooled
<1>12. Acquiring'
  BY <1>2 DEF Acquiring, vars
<1>13. Handing'
  BY <1>2, <1>4 DEF Handing, InHand, vars, accounts, Tracked, Pooled
<1>14. InBuckets(pool_nodes', free_buckets')
  <2>1. PICK m, m2 : m = pool_nodes /\ m2 = pool_nodes'
    OBVIOUS
  <2>2. /\ p \in DOMAIN m /\ DOMAIN m2 = DOMAIN m /\ ~m2[p].in_use /\ m2[p].capacity = b
        /\ \A q \in DOMAIN m \ {p} : m2[q] = m[q]
        /\ m[p].in_use
    BY <1>2, <1>4, <1>5, <2>1 DEF Pooled
  <2>3. /\ FreeNodes(m2, b) = FreeNodes(m, b) \cup {p}
        /\ \A a \in Buckets \ {b} : FreeNodes(m2, a) = FreeNodes(m, a)
    BY <2>2 DEF FreeNodes
  <2>4. ASSUME NEW a \in Buckets
        PROVE  /\ IsInjective(free_buckets'[a])
               /\ ToSet(free_buckets'[a]) = FreeNodes(m2, a)
    <3>1. IsInjective(free_buckets[a]) /\ ToSet(free_buckets[a]) = FreeNodes(m, a)
      BY <2>1 DEF InBuckets
    <3>2. CASE a = b
      BY <1>8, <1>9, <2>3, <3>1, <3>2
    <3>3. CASE a # b
      BY <1>9, <2>3, <3>1, <3>3
    <3> QED BY <3>2, <3>3
  <2> QED BY <2>1, <2>4 DEF InBuckets
<1>15. Backed(pool_nodes', active_allocations')
  BY <1>1, <1>2, <1>4, <1>5 DEF Backed, vars, accounts, Pooled
<1>16. PoolAccountsExact'
  <2>1. Counted(pool_nodes, total_pooled_bytes, active_bytes, free_cached_bytes,
                total_requested_bytes)
    BY AccountsCounted
  <2>2. Nodes(pool_nodes) /\ Nodes(pool_nodes')
    BY <1>11 DEF PoolTypes, Nodes, Pooled
  <2>3. p \in DOMAIN pool_nodes
    BY <1>2 DEF Pooled
  <2>4. Counted(pool_nodes', total_pooled_bytes, active_bytes - pool_nodes[p].capacity,
                free_cached_bytes + pool_nodes[p].capacity,
                total_requested_bytes - pool_nodes[p].requested)
    BY <1>1, <1>2, <1>4, <1>5, <2>1, <2>2, <2>3, CountedKept
  <2>5. Counted(pool_nodes', total_pooled_bytes', active_bytes', free_cached_bytes',
                total_requested_bytes')
    BY <1>1, <1>2, <2>4
  <2> QED BY <2>5, AccountsCountedNext
<1> QED BY <1>10, <1>11, <1>12, <1>13, <1>14, <1>15, <1>16

LEMMA PurgeFreeStep ==
  ASSUME PInv, NEW t \in Users, PurgeFree(t)
  PROVE  PInv'
<1> USE DEF PInv
<1>1. PICK b \in Buckets :
        LET p == Head(free_buckets[b])
        IN
        /\ free_buckets[b] # <<>>
        /\ FreeRecord(t, p)
        /\ pool_nodes' = NodesWithout(p)
        /\ free_buckets' = [free_buckets EXCEPT ![b] = Tail(@)]
        /\ total_pooled_bytes' = total_pooled_bytes - pool_nodes[p].capacity
        /\ free_cached_bytes' = free_cached_bytes - pool_nodes[p].capacity
  BY DEF PurgeFree
<1>2. PICK p, s : p = Head(free_buckets[b]) /\ s = Tail(free_buckets[b])
  OBVIOUS
<1>3. /\ FreeRecord(t, p)
      /\ pool_nodes' = [q \in Pooled \ {p} |-> pool_nodes[q]]
      /\ free_buckets' = [free_buckets EXCEPT ![b] = s]
      /\ total_pooled_bytes' = total_pooled_bytes - pool_nodes[p].capacity
      /\ free_cached_bytes' = free_cached_bytes - pool_nodes[p].capacity
      /\ UNCHANGED <<owner, pc, want, active_bytes, total_requested_bytes>>
      /\ pc[t] = "purging"
  BY <1>1, <1>2 DEF NodesWithout, PurgeFree
<1>4. /\ p \in ToSet(free_buckets[b]) /\ p \in Ptrs
      /\ s \in Seq(Ptrs) /\ IsInjective(s) /\ ToSet(s) = ToSet(free_buckets[b]) \ {p}
  BY <1>1, <1>2, TakeFirst DEF PoolTypes, InBuckets
<1>5. p \in FreeNodes(pool_nodes, b) /\ p \in Pooled /\ ~pool_nodes[p].in_use
  BY <1>4 DEF InBuckets, FreeNodes, Pooled
<1>6. /\ DOMAIN pool_nodes' = DOMAIN pool_nodes \ {p}
      /\ \A q \in DOMAIN pool_nodes' : pool_nodes'[q] = pool_nodes[q]
      /\ Pooled' = Pooled \ {p}
  BY <1>3 DEF Pooled
<1>7. t \in Threads /\ IInv'
  BY <1>3, <1>4, FreeStep DEF Users
<1>8. /\ Tracked' = Tracked \ {p}
      /\ \A q \in Tracked' : active_allocations'[q] = active_allocations[q]
  BY <1>3 DEF FreeRecord, Tracked
<1>9. PoolTypes'
  <2>1. IsFiniteSet(Pooled')
    BY <1>6, FS_RemoveElement DEF PoolTypes
  <2>2. free_buckets' \in [Buckets -> Seq(Ptrs)]
    BY <1>3, <1>4 DEF PoolTypes
  <2>3. \A q \in Pooled' : pool_nodes'[q] \in PoolNode
    BY <1>6 DEF PoolTypes, Pooled
  <2> QED BY <1>3, <1>6, <2>1, <2>2, <2>3 DEF PoolTypes
<1>10. call'[t].op = "cudaFree" /\ \A u \in Threads \ {t} : call'[u] = call[u]
  BY <1>3, <1>7 DEF FreeRecord, With, IInv, Types
<1>11. Acquiring'
  <2>1. \A u \in Users \ {t} : call'[u] = call[u]
    BY <1>10 DEF Users
  <2> QED BY <1>3, <2>1 DEF Acquiring
<1>12. Handing'
  <2>1. \A u \in Threads : InHand(u)' => u # t /\ InHand(u) /\ call'[u] = call[u]
    BY <1>10 DEF InHand
  <2>2. ASSUME NEW u \in Threads, InHand(u)'
        PROVE  /\ call'[u].ptr \in Tracked' \ Pooled'
               /\ active_allocations'[call'[u].ptr] =
                    [size |-> call'[u].size, category |-> call'[u].category]
    <3>1. call[u].ptr \in Tracked \ Pooled
      BY <2>1, <2>2 DEF Handing
    <3>2. call[u].ptr \in Tracked' \ Pooled'
      BY <1>5, <1>6, <1>8, <3>1
    <3> QED BY <1>8, <2>1, <2>2, <3>2 DEF Handing
  <2>3. \A u, v \in Threads : InHand(u)' /\ InHand(v)' /\ u # v =>
          call'[u].ptr # call'[v].ptr
    BY <2>1 DEF Handing
  <2> QED BY <2>2, <2>3 DEF Handing
<1>13. InBuckets(pool_nodes', free_buckets')
  <2>1. PICK m, m2 : m = pool_nodes /\ m2 = pool_nodes'
    OBVIOUS
  <2>2. \A a : FreeNodes(m2, a) = FreeNodes(m, a) \ {p}
    <3>1. DOMAIN m2 = DOMAIN m \ {p} /\ \A q \in DOMAIN m2 : m2[q] = m[q]
      BY <1>6, <2>1
    <3> QED BY <3>1 DEF FreeNodes
  <2>3. DOMAIN free_buckets = Buckets
    BY DEF PoolTypes
  <2> QED BY <1>3, <1>4, <1>5, <2>1, <2>2, <2>3, LeavesBucket
<1>14. Backed(pool_nodes', active_allocations')
  BY <1>6, <1>8 DEF Backed, Tracked
<1>15. PoolAccountsExact'
  <2>1. Counted(pool_nodes, total_pooled_bytes, active_bytes, free_cached_bytes,
                total_requested_bytes)
    BY AccountsCounted
  <2>2. Nodes(pool_nodes) /\ Nodes(pool_nodes')
    BY <1>9 DEF PoolTypes, Nodes, Pooled
  <2>3. p \in DOMAIN pool_nodes
    BY <1>5 DEF Pooled
  <2>4. Counted(pool_nodes', total_pooled_bytes - pool_nodes[p].capacity, active_bytes,
                free_cached_bytes - pool_nodes[p].capacity, total_requested_bytes)
    BY <1>5, <1>6, <2>1, <2>2, <2>3, CountedFreed
  <2>5. Counted(pool_nodes', total_pooled_bytes', active_bytes', free_cached_bytes',
                total_requested_bytes')
    BY <1>3, <2>4
  <2> QED BY <2>5, AccountsCountedNext
<1> QED BY <1>7, <1>9, <1>11, <1>12, <1>13, <1>14, <1>15

(* The thread returns from the allocator: the others hold what they held.  *)
LEMMA ReturnsHand ==
  ASSUME PInv, NEW t \in Threads, Return(t)
  PROVE  /\ IInv' /\ call' = [call EXCEPT ![t] = Idle]
         /\ Tracked' = Tracked /\ active_allocations' = active_allocations
         /\ \A u \in Threads : InHand(u)' => u # t /\ InHand(u) /\ call'[u] = call[u]
<1>1. call' = [call EXCEPT ![t] = Idle] /\ active_allocations' = active_allocations
  BY DEF Return, accounts
<1>2. IInv'
  BY ReturnStep DEF PInv
<1> QED BY <1>1, <1>2 DEF Tracked, InHand, Idle, PInv, IInv, Types

LEMMA GotStep ==
  ASSUME PInv, NEW t \in Users, AcquireGot(t)
  PROVE  PInv'
<1> USE DEF PInv
<1>0. t \in Threads
  BY DEF Users
<1>1. PICK p, b, n, c :
        /\ p = call[t].ptr /\ b = calculate_bucket_size(want[t].bytes)
        /\ n = want[t].bytes /\ c = want[t].category
  OBVIOUS
<1>2. /\ pc[t] \in {"first", "second"} /\ InHand(t) /\ Return(t)
      /\ pool_nodes' = [q \in Pooled \cup {p} |->
           IF q = p
           THEN [capacity |-> b, requested |-> n, in_use |-> TRUE,
                 category |-> c, asked |-> c]
           ELSE pool_nodes[q]]
      /\ total_pooled_bytes' = total_pooled_bytes + b
      /\ active_bytes' = active_bytes + b
      /\ total_requested_bytes' = total_requested_bytes + n
      /\ pc' = [pc EXCEPT ![t] = "idle"]
      /\ want' = [want EXCEPT ![t] = NoWant]
      /\ UNCHANGED <<free_buckets, free_cached_bytes>>
  BY <1>1 DEF AcquireGot, InHand
<1>3. n \in Sizes /\ n \in Nat /\ c \in MemoryCategory
  BY <1>1, <1>2, BlockAllocatorAssumption DEF Acquiring, PoolTypes
<1>4. b \in Buckets /\ b \in Nat /\ n <= b
  BY <1>1, <1>3, BucketFits, BucketsAreNat
<1>5. /\ p \in Tracked /\ p \notin Pooled /\ p \in Ptrs
      /\ active_allocations[p] = [size |-> b, category |-> c]
  BY <1>0, <1>1, <1>2 DEF Handing, Acquiring, IInv, Types
<1>6. /\ DOMAIN pool_nodes' = DOMAIN pool_nodes \cup {p} /\ Pooled' = Pooled \cup {p}
      /\ \A q \in DOMAIN pool_nodes : pool_nodes'[q] = pool_nodes[q]
      /\ pool_nodes'[p] = [capacity |-> b, requested |-> n, in_use |-> TRUE,
                           category |-> c, asked |-> c]
  BY <1>2, <1>5 DEF Pooled
<1>7. /\ pool_nodes'[p].in_use /\ pool_nodes'[p].capacity = b
      /\ pool_nodes'[p].requested = n /\ pool_nodes'[p].category = c
      /\ pool_nodes'[p] \in PoolNode
  BY <1>3, <1>4, <1>6 DEF PoolNode
<1>8. /\ IInv' /\ call' = [call EXCEPT ![t] = Idle]
      /\ Tracked' = Tracked /\ active_allocations' = active_allocations
      /\ \A u \in Threads : InHand(u)' => u # t /\ InHand(u) /\ call'[u] = call[u]
  BY <1>0, <1>2, ReturnsHand
<1>9. PoolTypes'
  <2>1. IsFiniteSet(Pooled') /\ Pooled' \subseteq Ptrs
    BY <1>5, <1>6, FS_AddElement DEF PoolTypes
  <2>2. \A q \in Pooled' : pool_nodes'[q] \in PoolNode
    BY <1>6, <1>7 DEF PoolTypes, Pooled
  <2>3. NoWant \in [bytes : Nat, category : MemoryCategory]
    BY DEF NoWant, MemoryCategory
  <2>4. /\ pc' \in [Users -> {"idle", "first", "purge", "purging", "retry", "second"}]
        /\ want' \in [Users -> [bytes : Nat, category : MemoryCategory]]
    BY <1>2, <2>3 DEF PoolTypes
  <2> QED BY <1>2, <2>1, <2>2, <2>4 DEF PoolTypes
<1>10. Acquiring'
  <2>1. /\ pc'[t] = "idle" /\ want'[t] = NoWant
        /\ \A u \in Users \ {t} :
             pc'[u] = pc[u] /\ want'[u] = want[u] /\ call'[u] = call[u]
    BY <1>2, <1>8 DEF PoolTypes, Users, IInv, Types
  <2> QED BY <2>1 DEF Acquiring
<1>11. Handing'
  <2>1. ASSUME NEW u \in Threads, InHand(u)'
        PROVE  /\ call'[u].ptr \in Tracked' \ Pooled'
               /\ active_allocations'[call'[u].ptr] =
                    [size |-> call'[u].size, category |-> call'[u].category]
    <3>1. u # t /\ InHand(u) /\ call'[u] = call[u]
      BY <1>8, <2>1
    <3>2. call[u].ptr # p
      BY <1>0, <1>1, <1>2, <3>1 DEF Handing
    <3> QED BY <1>6, <1>8, <3>1, <3>2 DEF Handing
  <2>2. \A u, v \in Threads : InHand(u)' /\ InHand(v)' /\ u # v =>
          call'[u].ptr # call'[v].ptr
    BY <1>8 DEF Handing
  <2> QED BY <2>1, <2>2 DEF Handing
<1>12. InBuckets(pool_nodes', free_buckets')
  <2>1. PICK m, m2 : m = pool_nodes /\ m2 = pool_nodes'
    OBVIOUS
  <2>2. /\ DOMAIN m2 = DOMAIN m \cup {p} /\ m2[p].in_use
        /\ \A q \in DOMAIN m : m2[q] = m[q]
        /\ p \notin DOMAIN m
    BY <1>5, <1>6, <1>7, <2>1 DEF Pooled
  <2>3. \A a : FreeNodes(m2, a) = FreeNodes(m, a)
    BY <2>2 DEF FreeNodes
  <2> QED BY <1>2, <2>1, <2>3 DEF InBuckets
<1>13. Backed(pool_nodes', active_allocations')
  <2> SUFFICES ASSUME NEW q \in DOMAIN pool_nodes'
               PROVE  /\ q \in DOMAIN active_allocations'
                      /\ active_allocations'[q].size = pool_nodes'[q].capacity
                      /\ active_allocations'[q].category = pool_nodes'[q].category
                      /\ pool_nodes'[q].requested <= pool_nodes'[q].capacity
    BY DEF Backed
  <2>1. CASE q = p
    BY <1>4, <1>5, <1>7, <1>8, <2>1 DEF Tracked
  <2>2. CASE q # p
    BY <1>6, <1>8, <2>2 DEF Backed
  <2> QED BY <2>1, <2>2
<1>14. PoolAccountsExact'
  <2>1. Counted(pool_nodes, total_pooled_bytes, active_bytes, free_cached_bytes,
                total_requested_bytes)
    BY AccountsCounted
  <2>2. Nodes(pool_nodes) /\ Nodes(pool_nodes')
    BY <1>9 DEF PoolTypes, Nodes, Pooled
  <2>3. p \notin DOMAIN pool_nodes
    BY <1>5 DEF Pooled
  <2>4. Counted(pool_nodes', total_pooled_bytes + pool_nodes'[p].capacity,
                active_bytes + pool_nodes'[p].capacity, free_cached_bytes,
                total_requested_bytes + pool_nodes'[p].requested)
    BY <1>6, <1>7, <2>1, <2>2, <2>3, CountedNew
  <2>5. Counted(pool_nodes', total_pooled_bytes', active_bytes', free_cached_bytes',
                total_requested_bytes')
    BY <1>2, <1>7, <2>4
  <2> QED BY <2>5, AccountsCountedNext
<1> QED BY <1>8, <1>9, <1>10, <1>11, <1>12, <1>13, <1>14

-----------------------------------------------------------------------------
(* Nothing that was not in a hand before comes into one, and no handle of  *)
(* a tracked block is touched.                                             *)
LEMMA HandsUnmoved ==
  ASSUME PInv, Pooled' = Pooled, Tracked \subseteq Tracked',
         \A p \in Tracked : active_allocations'[p] = active_allocations[p],
         \A u \in Threads : InHand(u)' => InHand(u) /\ call'[u] = call[u]
  PROVE  Handing'
<1>1. ASSUME NEW u \in Threads, InHand(u)'
      PROVE  /\ call'[u].ptr \in Tracked' \ Pooled'
             /\ active_allocations'[call'[u].ptr] =
                  [size |-> call'[u].size, category |-> call'[u].category]
  BY <1>1 DEF PInv, Handing
<1>2. \A u, v \in Threads : InHand(u)' /\ InHand(v)' /\ u # v =>
        call'[u].ptr # call'[v].ptr
  BY DEF PInv, Handing
<1> QED BY <1>1, <1>2 DEF Handing

(* acquire asks the allocator for a bucket: the first attempt or the retry.*)
LEMMA AskStep ==
  ASSUME PInv, NEW t \in Users, NEW n \in Sizes, NEW c \in MemoryCategory,
         AllocateCheck(t, calculate_bucket_size(n), c),
         NEW step \in {"first", "second"}, pc' = [pc EXCEPT ![t] = step],
         want' = [want EXCEPT ![t] = [bytes |-> n, category |-> c]],
         UNCHANGED <<nodes, counters>>
  PROVE  PInv'
<1> USE DEF PInv
<1>0. t \in Threads /\ n \in Nat
  BY BucketFits DEF Users
<1>1. PICK b \in Buckets : b = calculate_bucket_size(n) /\ b \in Nat /\ align_bytes(b) = b
  BY BucketFits, BucketsAreNat
<1>2. IInv'
  BY <1>0, <1>1, CheckStep
<1>3. /\ call'[t].op \in {"malloc", "failed"}
      /\ call'[t].size = b /\ call'[t].category = c
      /\ \A u \in Threads \ {t} : call'[u] = call[u]
      /\ active_allocations' = active_allocations
  BY <1>0, <1>1 DEF AllocateCheck, accounts, IInv, Types
<1>4. n # 0
  BY BlockAllocatorAssumption
<1>5. /\ pc'[t] = step /\ want'[t] = [bytes |-> n, category |-> c]
      /\ \A u \in Users \ {t} :
           pc'[u] = pc[u] /\ want'[u] = want[u] /\ call'[u] = call[u]
  BY <1>3 DEF PoolTypes, Users
<1>6. Acquiring'
  <2>1. want'[t] # NoWant /\ want'[t].bytes = n /\ want'[t].category = c
    BY <1>4, <1>5 DEF NoWant
  <2> QED BY <1>1, <1>3, <1>5, <2>1 DEF Acquiring
<1>7. Pooled' = Pooled /\ Tracked' = Tracked
  BY <1>3 DEF nodes, Pooled, Tracked
<1>8. Handing'
  BY <1>0, <1>3, <1>7, HandsUnmoved DEF InHand
<1>9. /\ pc' \in [Users -> {"idle", "first", "purge", "purging", "retry", "second"}]
      /\ want' \in [Users -> [bytes : Nat, category : MemoryCategory]]
  BY <1>0 DEF PoolTypes
<1>10. \A p \in Pooled : p \in Tracked
  BY DEF Backed, Pooled, Tracked
<1> QED BY <1>2, <1>3, <1>6, <1>7, <1>8, <1>9, <1>10, NodesUnmoved

LEMMA MissStep ==
  ASSUME PInv, NEW t \in Users, NEW n \in Sizes, NEW c \in Categories,
         AcquireMiss(t, n, c)
  PROVE  PInv'
<1>1. c \in MemoryCategory
  BY BlockAllocatorAssumption DEF MemoryCategory
<1> QED BY <1>1, AskStep DEF AcquireMiss

LEMMA RetryStep ==
  ASSUME PInv, NEW t \in Users, AcquireRetry(t)
  PROVE  PInv'
<1>1. PICK n, c : n = want[t].bytes /\ c = want[t].category
  OBVIOUS
<1>2. want[t] \in [bytes : Nat, category : MemoryCategory] /\ n \in Sizes
  BY <1>1 DEF PInv, PoolTypes, Acquiring, AcquireRetry
<1>3. c \in MemoryCategory /\ want[t] = [bytes |-> n, category |-> c]
  BY <1>1, <1>2
<1>4. want' = [want EXCEPT ![t] = [bytes |-> n, category |-> c]]
  BY <1>3 DEF AcquireRetry, PInv, PoolTypes
<1> QED BY <1>1, <1>2, <1>3, <1>4, AskStep DEF AcquireRetry, RetryAttempt

(* An attempt has failed: the purge is next, or the exception. *)
LEMMA DeniedStep ==
  ASSUME PInv, NEW t \in Users, AcquireOOM(t) \/ AcquireThrows(t)
  PROVE  PInv'
<1> USE DEF PInv
<1>0. t \in Threads
  BY DEF Users
<1>1. Return(t) /\ UNCHANGED <<nodes, counters>>
  BY DEF AcquireOOM, AcquireThrows
<1>2. /\ IInv' /\ call' = [call EXCEPT ![t] = Idle]
      /\ Tracked' = Tracked /\ active_allocations' = active_allocations
      /\ \A u \in Threads : InHand(u)' => u # t /\ InHand(u) /\ call'[u] = call[u]
  BY <1>0, <1>1, ReturnsHand
<1>3. Pooled' = Pooled
  BY <1>1 DEF nodes, Pooled
<1>4. Handing'
  BY <1>2, <1>3, HandsUnmoved
<1>5. NoWant \in [bytes : Nat, category : MemoryCategory]
  BY DEF NoWant, MemoryCategory
<1>6. /\ pc' \in [Users -> {"idle", "first", "purge", "purging", "retry", "second"}]
      /\ want' \in [Users -> [bytes : Nat, category : MemoryCategory]]
  BY <1>5 DEF PoolTypes, AcquireOOM, AcquireThrows
<1>7. Acquiring'
  <2>1. \A u \in Users \ {t} :
          pc'[u] = pc[u] /\ want'[u] = want[u] /\ call'[u] = call[u]
    BY <1>2 DEF AcquireOOM, AcquireThrows, PoolTypes, Users, IInv, Types
  <2>2. \/ pc'[t] = "purge" /\ want'[t] = want[t] /\ want[t] # NoWant
        \/ pc'[t] = "idle" /\ want'[t] = NoWant
    BY DEF AcquireOOM, AcquireThrows, PoolTypes, Acquiring
  <2> QED BY <2>1, <2>2 DEF Acquiring
<1>8. \A p \in Pooled : p \in Tracked
  BY DEF Backed, Pooled, Tracked
<1> QED BY <1>1, <1>2, <1>4, <1>6, <1>7, <1>8, NodesUnmoved

(* The mutex taken for the purge, or given up after it. *)
LEMMA PurgeAroundStep ==
  ASSUME PInv, NEW t \in Users, PurgeBegin(t) \/ PurgeEnd(t)
  PROVE  PInv'
<1> USE DEF PInv
<1>1. UNCHANGED <<vars, want, nodes, counters>>
  BY DEF PurgeBegin, PurgeEnd
<1>2. IInv' /\ Tracked' = Tracked /\ active_allocations' = active_allocations
  BY <1>1, AllocatorRests DEF vars, accounts, Tracked
<1>3. pc' \in [Users -> {"idle", "first", "purge", "purging", "retry", "second"}]
  BY DEF PoolTypes, PurgeBegin, PurgeEnd
<1>4. Handing'
  BY <1>1, <1>2, HandsUnmoved DEF InHand, vars, nodes, Pooled
<1>5. Acquiring'
  <2>1. \A u \in Users \ {t} : pc'[u] = pc[u]
    BY DEF PurgeBegin, PurgeEnd, PoolTypes
  <2>2. \/ pc'[t] \in {"purging", "idle"}
        \/ pc'[t] = "retry" /\ want[t] # NoWant
    BY DEF PurgeBegin, PurgeEnd, PoolTypes
  <2> QED BY <1>1, <2>1, <2>2 DEF Acquiring, vars
<1>6. \A p \in Pooled : p \in Tracked
  BY DEF Backed, Pooled, Tracked
<1>7. want' \in [Users -> [bytes : Nat, category : MemoryCategory]]
  BY <1>1 DEF PoolTypes
<1> QED BY <1>1, <1>2, <1>3, <1>4, <1>5, <1>6, <1>7, NodesUnmoved

(* A step of the allocator that no acquire notices: t goes on with its     *)
(* call, or is no thread of the pool's.                                    *)
LEMMA PoolUnmoved ==
  ASSUME PInv, IInv', UNCHANGED poolvars, NEW t \in Threads,
         \A u \in Threads \ {t} : call'[u] = call[u],
         \/ t \in Direct
         \/ call[t].op \in {"malloc", "record"}
            /\ call'[t].op \in {"record", "returned", "failed"}
            /\ call'[t].size = call[t].size /\ call'[t].category = call[t].category
         \/ call[t].op = "cudaFree",
         \A p \in Pooled : p \in Tracked' /\ active_allocations'[p] = active_allocations[p],
         Handing'
  PROVE  PInv'
<1> USE DEF PInv
<1>1. UNCHANGED <<pc, want, nodes, counters>>
  BY DEF poolvars
<1>2. Acquiring'
  <2> SUFFICES ASSUME NEW u \in Users
               PROVE  /\ want'[u] = NoWant \/ want'[u].bytes \in Sizes
                      /\ pc'[u] \in {"first", "purge", "retry", "second"} =>
                           want'[u] # NoWant
                      /\ pc'[u] \in {"first", "second"} =>
                           /\ call'[u].op \in {"malloc", "record", "returned", "failed"}
                           /\ call'[u].size = calculate_bucket_size(want'[u].bytes)
                           /\ call'[u].category = want'[u].category
    BY DEF Acquiring
  <2>1. /\ u \in Threads /\ u \notin Direct
        /\ pc'[u] = pc[u] /\ want'[u] = want[u]
    BY <1>1 DEF Users
  <2>2. CASE u # t
    BY <2>1, <2>2 DEF Acquiring
  <2>3. CASE u = t
    BY <2>1, <2>3 DEF Acquiring
  <2> QED BY <2>2, <2>3
<1>3. /\ pc' \in [Users -> {"idle", "first", "purge", "purging", "retry", "second"}]
      /\ want' \in [Users -> [bytes : Nat, category : MemoryCategory]]
  BY <1>1 DEF PoolTypes
<1> QED BY <1>1, <1>2, <1>3, NodesUnmoved

LEMMA PooledIsTracked ==
  ASSUME PInv, UNCHANGED poolvars
  PROVE  Pooled' = Pooled /\ \A p \in Pooled : p \in Tracked
BY DEF PInv, Backed, Pooled, Tracked, poolvars, nodes

LEMMA DriverStep ==
  ASSUME PInv, NEW t \in Threads, UNCHANGED poolvars,
         \/ CudaMallocAsync(t) \/ CudaMallocAsyncFails(t)
         \/ CudaFreeAsync(t) \/ CudaFreeAsyncFails(t)
  PROVE  PInv'
<1> USE DEF PInv
<1>1. IInv'
  BY MallocStep, MallocFailsStep, CudaFreeStep
<1>2. active_allocations' = active_allocations /\ Tracked' = Tracked
  BY DEF CudaMallocAsync, CudaMallocAsyncFails, CudaFreeAsync, CudaFreeAsyncFails,
         accounts, Tracked
<1>3. \A u \in Threads \ {t} : call'[u] = call[u]
  BY DEF CudaMallocAsync, CudaMallocAsyncFails, CudaFreeAsync, CudaFreeAsyncFails,
         IInv, Types
<1>4. /\ ~InHand(t)'
      /\ \/ call[t].op \in {"malloc", "record"}
            /\ call'[t].op \in {"record", "returned", "failed"}
            /\ call'[t].size = call[t].size /\ call'[t].category = call[t].category
         \/ call[t].op = "cudaFree"
  <2>1. CASE CudaMallocAsync(t)
    <3>1. PICK p : call' = [call EXCEPT ![t] = With(t, "record", p)]
      BY <2>1 DEF CudaMallocAsync
    <3>2. call'[t] = With(t, "record", p) /\ call[t].op = "malloc"
      BY <2>1, <3>1 DEF CudaMallocAsync, IInv, Types
    <3> QED BY <3>2 DEF With, InHand
  <2>2. CASE CudaMallocAsyncFails(t)
    BY <2>2 DEF CudaMallocAsyncFails, InHand, IInv, Types
  <2>3. CASE CudaFreeAsync(t) \/ CudaFreeAsyncFails(t)
    BY <2>3 DEF CudaFreeAsync, CudaFreeAsyncFails, Idle, InHand, IInv, Types
  <2> QED BY <2>1, <2>2, <2>3
<1>5. Pooled' = Pooled /\ \A p \in Pooled : p \in Tracked
  BY PooledIsTracked
<1>6. Handing'
  <2>1. \A u \in Threads : InHand(u)' => InHand(u) /\ call'[u] = call[u]
    BY <1>3, <1>4 DEF InHand
  <2> QED BY <1>2, <1>5, <2>1, HandsUnmoved
<1> QED BY <1>1, <1>2, <1>3, <1>4, <1>5, <1>6, PoolUnmoved

LEMMA PoolRecordStep ==
  ASSUME PInv, NEW t \in Threads, UNCHANGED poolvars, AllocateRecord(t)
  PROVE  PInv'
<1> USE DEF PInv
<1>1. /\ IInv'
      /\ \A q \in Tracked : active_allocations'[q] = active_allocations[q]
  BY RecordStep
<1>2. PICK p, n, c : p = call[t].ptr /\ n = call[t].size /\ c = call[t].category
  OBVIOUS
<1>3. p \notin Tracked
  BY <1>2 DEF AllocateRecord, IInv, AddressesAccounted, InDriver
<1>4. /\ Tracked' = Tracked \cup {p}
      /\ active_allocations'[p] = [size |-> n, category |-> c]
  BY <1>2 DEF AllocateRecord, Tracked
<1>5. /\ call[t].op = "record" /\ call'[t].op = "returned" /\ call'[t].ptr = p
      /\ call'[t].size = n /\ call'[t].category = c
      /\ \A u \in Threads \ {t} : call'[u] = call[u]
  BY <1>2 DEF AllocateRecord, IInv, Types
<1>6. Pooled' = Pooled /\ \A q \in Pooled : q \in Tracked
  BY PooledIsTracked
<1>7. Handing'
  <2>1. \A u \in Threads \ {t} : InHand(u)' => InHand(u) /\ call'[u] = call[u]
    BY <1>5 DEF InHand
  <2>2. ASSUME NEW u \in Threads, InHand(u)'
        PROVE  /\ call'[u].ptr \in Tracked' \ Pooled'
               /\ active_allocations'[call'[u].ptr] =
                    [size |-> call'[u].size, category |-> call'[u].category]
    <3>1. CASE u = t
      BY <1>3, <1>4, <1>5, <1>6, <3>1
    <3>2. CASE u # t
      BY <1>1, <1>4, <1>6, <2>1, <2>2, <3>2 DEF Handing
    <3> QED BY <3>1, <3>2
  <2>3. ASSUME NEW u \in Threads, NEW v \in Threads, InHand(u)', InHand(v)', u # v
        PROVE  call'[u].ptr # call'[v].ptr
    <3>1. \A w \in Threads \ {t} : InHand(w)' => call'[w].ptr \in Tracked
      BY <2>1 DEF Handing
    <3>2. CASE u = t \/ v = t
      BY <1>3, <1>5, <2>3, <3>1, <3>2
    <3>3. CASE u # t /\ v # t
      BY <2>1, <2>3, <3>3 DEF Handing
    <3> QED BY <3>2, <3>3
  <2> QED BY <2>2, <2>3 DEF Handing
<1> QED BY <1>1, <1>2, <1>4, <1>5, <1>6, <1>7, PoolUnmoved

LEMMA DirectCheckStep ==
  ASSUME PInv, NEW t \in Direct, UNCHANGED poolvars, NEW n \in Sizes,
         NEW c \in Categories, AllocateCheck(t, n, c)
  PROVE  PInv'
<1> USE DEF PInv
<1>1. t \in Threads /\ n \in Nat /\ c \in MemoryCategory
  BY BufferPoolAssumption, BlockAllocatorAssumption DEF MemoryCategory
<1>2. IInv'
  BY <1>1, CheckStep
<1>3. /\ \A u \in Threads \ {t} : call'[u] = call[u]
      /\ call'[t].op \in {"malloc", "failed"}
      /\ active_allocations' = active_allocations /\ Tracked' = Tracked
  BY <1>1 DEF AllocateCheck, accounts, Tracked, IInv, Types
<1>4. Pooled' = Pooled /\ \A q \in Pooled : q \in Tracked
  BY PooledIsTracked
<1>5. Handing'
  BY <1>3, <1>4, HandsUnmoved DEF InHand
<1> QED BY <1>1, <1>2, <1>3, <1>4, <1>5, PoolUnmoved

LEMMA DirectReturnStep ==
  ASSUME PInv, NEW t \in Direct, UNCHANGED poolvars, Return(t)
  PROVE  PInv'
<1> USE DEF PInv
<1>1. t \in Threads
  BY BufferPoolAssumption
<1>2. /\ IInv' /\ call' = [call EXCEPT ![t] = Idle]
      /\ Tracked' = Tracked /\ active_allocations' = active_allocations
      /\ \A u \in Threads : InHand(u)' => u # t /\ InHand(u) /\ call'[u] = call[u]
  BY <1>1, ReturnsHand
<1>3. \A u \in Threads \ {t} : call'[u] = call[u]
  BY <1>2 DEF IInv, Types
<1>4. Pooled' = Pooled /\ \A q \in Pooled : q \in Tracked
  BY PooledIsTracked
<1>5. Handing'
  BY <1>2, <1>4, HandsUnmoved
<1> QED BY <1>1, <1>2, <1>3, <1>4, <1>5, PoolUnmoved

(* Another user frees a block that it knows, and that is none of the pool's.*)
LEMMA DirectFreeStep ==
  ASSUME PInv, NEW t \in Direct, UNCHANGED poolvars, NEW p \in Ptrs \ Pooled,
         Known(p), FreeRecord(t, p)
  PROVE  PInv'
<1> USE DEF PInv
<1>1. t \in Threads
  BY BufferPoolAssumption
<1>2. IInv' /\ \A q \in Tracked' : active_allocations'[q] = active_allocations[q]
  BY <1>1, FreeStep
<1>3. Tracked' = Tracked \ {p}
  BY DEF FreeRecord, Tracked
<1>4. call'[t].op = "cudaFree" /\ \A u \in Threads \ {t} : call'[u] = call[u]
  BY <1>1 DEF FreeRecord, With, IInv, Types
<1>5. Pooled' = Pooled /\ \A q \in Pooled : q \in Tracked
  BY PooledIsTracked
<1>6. Handing'
  <2>1. \A u \in Threads : InHand(u)' => InHand(u) /\ call'[u] = call[u]
    BY <1>4 DEF InHand
  <2>2. ASSUME NEW u \in Threads, InHand(u)'
        PROVE  /\ call'[u].ptr \in Tracked' \ Pooled'
               /\ active_allocations'[call'[u].ptr] =
                    [size |-> call'[u].size, category |-> call'[u].category]
    <3>1. call[u].ptr # p
      BY <2>1, <2>2 DEF Known, InHand
    <3>2. call'[u].ptr \in Tracked' \ Pooled'
      BY <1>3, <1>5, <2>1, <2>2, <3>1 DEF Handing
    <3> QED BY <1>2, <2>1, <2>2, <3>2 DEF Handing
  <2>3. \A u, v \in Threads : InHand(u)' /\ InHand(v)' /\ u # v =>
          call'[u].ptr # call'[v].ptr
    BY <2>1 DEF Handing
  <2> QED BY <2>2, <2>3 DEF Handing
<1>7. \A q \in Pooled :
        q \in Tracked' /\ active_allocations'[q] = active_allocations[q]
  BY <1>2, <1>3, <1>5
<1> QED BY <1>1, <1>2, <1>4, <1>6, <1>7, PoolUnmoved

(* reset_stats, and a step that changes nothing. *)
LEMMA RestStep ==
  ASSUME PInv, UNCHANGED <<vars, owner, pc, want, nodes, counters>>
  PROVE  PInv'
<1>1. IInv' /\ Tracked' = Tracked /\ active_allocations' = active_allocations
  BY AllocatorRests DEF PInv, vars, accounts, Tracked
<1>2. Handing'
  BY <1>1, HandsUnmoved DEF InHand, vars, nodes, Pooled
<1>3. Acquiring'
  BY DEF PInv, Acquiring, vars
<1>4. \A p \in Pooled : p \in Tracked
  BY DEF PInv, Backed, Pooled, Tracked
<1>5. /\ pc' \in [Users -> {"idle", "first", "purge", "purging", "retry", "second"}]
      /\ want' \in [Users -> [bytes : Nat, category : MemoryCategory]]
  BY DEF PInv, PoolTypes
<1> QED BY <1>1, <1>2, <1>3, <1>4, <1>5, NodesUnmoved

LEMMA NextPool == PInv /\ [PoolNext]_allvars => PInv'
<1> SUFFICES ASSUME PInv, [PoolNext]_allvars PROVE PInv'
  OBVIOUS
<1>1. ASSUME NEW t \in Users, NEW n \in Sizes, NEW c \in Categories,
             AcquireHit(t, n, c) \/ AcquireMiss(t, n, c)
      PROVE  PInv'
  BY <1>1, HitStep, MissStep
<1>2. ASSUME NEW t \in Users, AcquireStep(t) PROVE PInv'
  BY <1>2, GotStep, DeniedStep, RetryStep DEF AcquireStep
<1>3. ASSUME NEW t \in Users, NEW p \in Ptrs, Release(t, p) PROVE PInv'
  BY <1>3, ReleaseStep
<1>4. ASSUME NEW t \in Users, PurgeBegin(t) \/ PurgeStep(t) PROVE PInv'
  BY <1>4, PurgeAroundStep, PurgeFreeStep DEF PurgeStep
<1>5. ASSUME NEW t \in Threads, AllocatorStep(t) PROVE PInv'
  BY <1>5, DriverStep, PoolRecordStep DEF AllocatorStep
<1>6. ASSUME NEW t \in Direct, DirectStep(t) PROVE PInv'
  BY <1>6, DirectCheckStep, DirectReturnStep, DirectFreeStep DEF DirectStep
<1>7. ASSUME reset_stats PROVE PInv'
  BY <1>7, RestStep DEF reset_stats
<1>8. ASSUME UNCHANGED allvars PROVE PInv'
  BY <1>8, RestStep DEF allvars, poolvars
<1> QED BY <1>1, <1>2, <1>3, <1>4, <1>5, <1>6, <1>7, <1>8 DEF PoolNext

-----------------------------------------------------------------------------
(* PInv holds in every reachable state of the pool over the allocator. *)
THEOREM PoolInvariant == PoolSpec => []PInv
BY InitPool, NextPool, PTL DEF PoolSpec

(* acquire, release and purge_free_buffers keep the counters the sums of   *)
(* the nodes, each buffer in one hand or once in the bucket of its size,   *)
(* and each node a block the allocator tracks with that size and category. *)
THEOREM PoolIsConsistent == PoolSpec => []PoolConsistent
<1>1. PInv => PoolConsistent
  <2> SUFFICES ASSUME PInv PROVE PoolConsistent
    OBVIOUS
  <2>1. \A b \in Buckets :
          /\ IsInjective(free_buckets[b])
          /\ ToSet(free_buckets[b]) = {p \in Cached : pool_nodes[p].capacity = b}
    BY DEF PInv, InBuckets, FreeNodes, Cached, Pooled
  <2>2. BufferInOneHand
    BY <2>1 DEF PInv, Backed, BufferInOneHand, Pooled, Tracked
  <2> QED BY <2>2 DEF PInv, PoolConsistent
<1> QED
  BY <1>1, PoolInvariant, PTL

(* The pool and the other users of its allocator together lose no address: *)
(* purge_free_buffers frees a block the allocator still tracks.            *)
THEOREM PoolLosesNoAddress == PoolSpec => []AddressesAccounted
<1>1. PInv => AddressesAccounted
  BY DEF PInv, IInv
<1> QED
  BY <1>1, PoolInvariant, PTL
=============================================================================
