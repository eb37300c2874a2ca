------------------------- MODULE KVMetadataStaging -------------------------
(***************************************************************************)
(* PagedKVCache::prepare_batch_metadata                                    *)
(* (csrc/src/memory/paged_kv_cache.cpp, lines 318-396): the page tables of *)
(* a batch are flattened into ONE pinned host buffer and copied            *)
(* asynchronously, on the caller's stream, into ONE device buffer; the     *)
(* descriptor that the attention kernel gets points to that device buffer. *)
(* A row has as many entries as the longest table of the batch has blocks. *)
(*                                                                         *)
(* A stream is a queue of operations that the device takes in order; the   *)
(* streams run side by side, and cudaMemcpyAsync from pinned memory reads  *)
(* its source when its turn comes.  The callers launch one kernel for      *)
(* every descriptor; Waits says whether they let the device finish before  *)
(* they prepare the next batch, as the test of the repository does         *)
(* (tests/cpp/test_paged_kv_cache.cpp:54).                                 *)
(*                                                                         *)
(* The page tables change between calls as PagedKVCache lets them; here    *)
(* they are any tables with at least one block (an empty one, which only   *)
(* an empty prompt leaves, makes line 360 undefined and is excluded).      *)
(* All of prepare_batch_metadata holds mutex_ and is one action.           *)
(***************************************************************************)
EXTENDS Integers, Sequences, FiniteSets, FiniteSetsExt

CONSTANTS
  SeqIds,     \* sequence ids
  Tables,     \* tables a sequence can have: [blocks : Seq(Nat), filled : Nat]
  Batches,    \* values of active_sequence_ids
  BlockSize,  \* block_size
  MaxBatch,   \* max_supported_batch_size
  MaxBlocks,  \* max_blocks_per_sequence
  Streams,    \* CUDA streams, one per caller
  Waits       \* whether callers wait for the device between two calls

ASSUME StagingAssumption ==
  /\ {BlockSize, MaxBatch, MaxBlocks} \subseteq Nat \ {0}
  /\ Batches \subseteq Seq(SeqIds)
  /\ \A t \in Tables :
       t.blocks \in Seq(Nat) /\ Len(t.blocks) > 0 /\ t.filled \in 1..BlockSize
  /\ Waits \in BOOLEAN

VARIABLES
  page_tables,  \* page_tables_, with the fill of the last block; NoTable if none
  pinned,       \* h_pinned_block_tables_ and h_pinned_context_lens_
  device,       \* d_block_tables_ and d_context_lens_
  queue,        \* the operations waiting in each stream
  descriptor    \* per caller: the descriptors it has not launched a kernel for

stagingVars == <<page_tables, pinned, device, queue, descriptor>>

NoTable == [blocks |-> <<>>, filled |-> 0]
Unset == -1
Cells == 0..(MaxBatch * MaxBlocks - 1)
Blank == [tables |-> [c \in Cells |-> Unset],
          lens |-> [i \in 1..MaxBatch |-> Unset]]

StagingInit ==
  /\ page_tables = [s \in SeqIds |-> NoTable]
  /\ pinned = Blank
  /\ device = Blank
  /\ queue = [st \in Streams |-> <<>>]
  /\ descriptor = [st \in Streams |-> <<>>]

-----------------------------------------------------------------------------
(* Registration, growth and release of a sequence. *)
ChangeTable(s) ==
  /\ \E t \in Tables \cup {NoTable} : page_tables' = [page_tables EXCEPT ![s] = t]
  /\ UNCHANGED <<pinned, device, queue, descriptor>>

(* (the width of the last sequence, not the greatest) *)
WidthOfLast(batch) ==
  IF batch = <<>> THEN 0 ELSE Len(page_tables[batch[Len(batch)]].blocks)

(* max_blocks_in_batch, the width of a row *)
Width(batch) ==
  Max({0} \cup {Len(page_tables[batch[i]].blocks) : i \in DOMAIN batch})

ContextLen(t) == (Len(t.blocks) - 1) * BlockSize + t.filled

(* The two range tests of the call, and the lookup of every sequence. *)
BatchFits(batch) ==
  /\ Len(batch) <= MaxBatch
  /\ \A i \in DOMAIN batch : page_tables[batch[i]] # NoTable
  /\ Width(batch) <= MaxBlocks

(* Row i of the batch in the flat buffer; the rest of the row is -1 and    *)
(* cells beyond the batch keep what they had.                              *)
CellOf(i, b, width) == (i - 1) * width + (b - 1)

Flattened(batch, width) ==
  LET written == 0..(Len(batch) * width - 1)
      block[c \in written] ==
        LET t == page_tables[batch[(c \div width) + 1]]
            b == (c % width) + 1
        IN  IF b <= Len(t.blocks) THEN t.blocks[b] ELSE Unset
  IN  [tables |-> [c \in Cells \cup written |->
                     IF c \in written THEN block[c] ELSE pinned.tables[c]],
       lens |-> [i \in 1..MaxBatch |->
                   IF i <= Len(batch) THEN ContextLen(page_tables[batch[i]])
                                      ELSE pinned.lens[i]]]

Idle == \A st \in Streams : queue[st] = <<>> /\ descriptor[st] = <<>>

CopyTables(n) == [op |-> "copy_tables", cells |-> n, want |-> <<>>, width |-> 0]
CopyLens(n) == [op |-> "copy_lens", cells |-> n, want |-> <<>>, width |-> 0]

(* What the caller is entitled to: the tables of its batch, as they are    *)
(* when it is prepared.                                                    *)
Described(batch) ==
  [op |-> "kernel", cells |-> Len(batch), width |-> Width(batch),
   want |-> [i \in DOMAIN batch |-> page_tables[batch[i]]]]

Prepare(st, batch) ==
  /\ descriptor[st] = <<>>
  /\ Waits => Idle
  /\ BatchFits(batch)
  /\ pinned' = Flattened(batch, Width(batch))
  /\ queue' = [queue EXCEPT ![st] =
       @ \o <<CopyTables(Len(batch) * Width(batch)), CopyLens(Len(batch))>>]
  /\ descriptor' = [descriptor EXCEPT ![st] = <<Described(batch)>>]
  /\ UNCHANGED <<page_tables, device>>

(* One of the two cudaMemcpyAsync fails: the call throws with the buffer   *)
(* written and possibly the first copy under way.  A batch that does not   *)
(* fit throws before anything is written.                                  *)
PrepareThrows(st, batch) ==
  /\ descriptor[st] = <<>>
  /\ Waits => Idle
  /\ BatchFits(batch)
  /\ pinned' = Flattened(batch, Width(batch))
  /\ \/ UNCHANGED queue
     \/ queue' = [queue EXCEPT ![st] =
          Append(@, CopyTables(Len(batch) * Width(batch)))]
  /\ UNCHANGED <<page_tables, device, descriptor>>

(* The caller launches its kernel with the descriptor. *)
Launch(st) ==
  /\ descriptor[st] # <<>>
  /\ queue' = [queue EXCEPT ![st] = @ \o descriptor[st]]
  /\ descriptor' = [descriptor EXCEPT ![st] = <<>>]
  /\ UNCHANGED <<page_tables, pinned, device>>

-----------------------------------------------------------------------------
(* The device takes the next operation of a stream. *)
RunCopyTables(st) ==
  /\ queue[st] # <<>> /\ Head(queue[st]).op = "copy_tables"
  /\ device' = [device EXCEPT !.tables =
       [c \in DOMAIN @ |-> IF c < Head(queue[st]).cells THEN pinned.tables[c]
                                                        ELSE @[c]]]
  /\ queue' = [queue EXCEPT ![st] = Tail(@)]
  /\ UNCHANGED <<page_tables, pinned, descriptor>>

RunCopyLens(st) ==
  /\ queue[st] # <<>> /\ Head(queue[st]).op = "copy_lens"
  /\ device' = [device EXCEPT !.lens =
       [i \in DOMAIN @ |-> IF i <= Head(queue[st]).cells THEN pinned.lens[i]
                                                         ELSE @[i]]]
  /\ queue' = [queue EXCEPT ![st] = Tail(@)]
  /\ UNCHANGED <<page_tables, pinned, descriptor>>

RunKernel(st) ==
  /\ queue[st] # <<>> /\ Head(queue[st]).op = "kernel"
  /\ queue' = [queue EXCEPT ![st] = Tail(@)]
  /\ UNCHANGED <<page_tables, pinned, device, descriptor>>

StagingNext ==
  \/ \E s \in SeqIds : ChangeTable(s)
  \/ \E st \in Streams :
       \/ \E batch \in Batches : Prepare(st, batch) \/ PrepareThrows(st, batch)
       \/ Launch(st)
       \/ RunCopyTables(st) \/ RunCopyLens(st) \/ RunKernel(st)

StagingSpec == StagingInit /\ [][StagingNext]_stagingVars

-----------------------------------------------------------------------------
(* A kernel whose turn has come reads its own batch from the device        *)
(* buffers: row i holds the blocks of its i-th sequence, padded, and the   *)
(* length is that of the tables it was prepared from ("valid device        *)
(* pointers ready for kernel launch", paged_kv_cache.h:122).  All of it is *)
(* inside the capacity that the constructor allocates (paged_kv_cache.cpp, *)
(* lines 24-39).                                                           *)
ReadsOwnBatch(kernel) ==
  \A i \in DOMAIN kernel.want :
    LET t == kernel.want[i] IN
    /\ device.lens[i] = (Len(t.blocks) - 1) * BlockSize + t.filled
    /\ Len(t.blocks) <= kernel.width
    /\ \A b \in 1..kernel.width :
         /\ CellOf(i, b, kernel.width) \in Cells
         /\ device.tables[CellOf(i, b, kernel.width)] =
              IF b <= Len(t.blocks) THEN t.blocks[b] ELSE Unset

KernelSeesItsBatch ==
  \A st \in Streams :
    queue[st] # <<>> /\ Head(queue[st]).op = "kernel" =>
      ReadsOwnBatch(Head(queue[st]))
=============================================================================
