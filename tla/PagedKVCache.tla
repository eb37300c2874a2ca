---------------------------- MODULE PagedKVCache ----------------------------
(***************************************************************************)
(* cudaforge::memory::PagedKVCache (csrc/src/memory/paged_kv_cache.cpp):   *)
(* a pool of physical blocks, the page tables that map sequences to them,  *)
(* and the prefix tree through which sequences share full prompt blocks.   *)
(* Every operation holds mutex_ from beginning to end, so each is one      *)
(* action, exceptions included: a call that throws OutOfPagesException     *)
(* half way leaves the state it had reached.                               *)
(*                                                                         *)
(* A prompt is the contents of its full blocks, then the number of tokens  *)
(* of its partial block.  compute_block_hash chains the hash of a block    *)
(* with that of its parent: block k is identified here by the contents of  *)
(* blocks 1..k (no collisions), and <<>> stands for hash_value 0.  The     *)
(* tree is then a function from such paths to the block of their node;     *)
(* hash_to_node_map_ is written but never read and has no counterpart.     *)
(*                                                                         *)
(* Eviction leaves the node of the evicted block in the tree.  A prompt    *)
(* that matches such a stale node may put one block in two places (see     *)
(* OneHome and SharedOnlyByPrefix); the model is exact up to and including *)
(* the first state where that happens.  EvictedPromptsReturn says whether  *)
(* a run explores such prompts.                                            *)
(***************************************************************************)
EXTENDS Integers, FiniteSets, Sequences, SequencesExt

CONSTANTS
  SeqIds,               \* sequence ids
  NumBlocks,            \* total_gpu_blocks
  BlockSize,            \* block_size
  EnablePrefixCaching,  \* enable_prefix_caching
  Prompts,              \* [full : Seq(Content), tail : 0..BlockSize - 1]
  AppendSizes,          \* values of num_tokens passed to append_tokens
  MaxTokens,            \* bound: no sequence grows beyond this many tokens
  MaxOrphans,           \* bound: block references lost before the run ends
  Forks,                \* whether fork_sequence is called
  EvictedPromptsReturn  \* whether a prompt may match an evicted block

(* The contents of full blocks. *)
Contents == UNION {ToSet(p.full) : p \in Prompts}

ASSUME KVAssumption ==
  /\ NumBlocks \in Nat \ {0}
  /\ BlockSize \in Nat \ {0}
  /\ {EnablePrefixCaching, Forks, EvictedPromptsReturn} \subseteq BOOLEAN
  /\ \A p \in Prompts : p.full \in Seq(Contents) /\ p.tail \in 0..(BlockSize - 1)
  /\ AppendSizes \subseteq Nat \ {0}
  /\ MaxTokens \in Nat /\ MaxOrphans \in Nat

VARIABLES
  physical_blocks,   \* physical_blocks_ (ref_count, num_tokens_filled, hash_value)
  free_block_stack,  \* free_block_stack_, the top at the end
  lru_list,          \* lru_list_, the most recently freed block first
  tree,              \* the prefix tree: path -> physical_block_id
  page_tables,       \* page_tables_; <<>> when the id has no entry
  prompt,            \* history: the prompt of a registered sequence
  tokens,            \* history: how many tokens a sequence should have
  orphans,           \* history: references to a block no page table holds
  outcome,           \* history: how the last call ended
  forked             \* history: "no", "full" (only between blocks), "partial"

vars == <<physical_blocks, free_block_stack, lru_list, tree, page_tables,
          prompt, tokens, orphans, outcome, forked>>

Blocks == 0..(NumBlocks - 1)

NoPrompt == [full |-> <<>>, tail |-> 0]

Init ==
  /\ physical_blocks = [b \in Blocks |-> [ref |-> 0, filled |-> 0, hash |-> <<>>]]
  /\ free_block_stack = [k \in 1..NumBlocks |-> NumBlocks - k]
  /\ lru_list = <<>>
  /\ tree = <<>>
  /\ page_tables = [s \in SeqIds |-> <<>>]
  /\ prompt = [s \in SeqIds |-> NoPrompt]
  /\ tokens = [s \in SeqIds |-> 0]
  /\ orphans = [b \in Blocks |-> 0]
  /\ outcome = "ok"
  /\ forked = "no"

-----------------------------------------------------------------------------
Smaller(a, b) == IF a <= b THEN a ELSE b

Occurrences(b, s) == Cardinality({k \in DOMAIN s : s[k] = b})

(* The elements of s that are in S, in their order (SelectSeq, in a form   *)
(* that proofs can expand).                                                *)
Filtered(s, S) ==
  LET kept[k \in 0..Len(s)] ==
        IF k = 0 THEN <<>>
        ELSE IF s[k] \in S THEN Append(kept[k - 1], s[k]) ELSE kept[k - 1]
  IN  kept[Len(s)]

Registered == {s \in SeqIds : page_tables[s] # <<>>}

(* The hash of full block k of prompt p. *)
Path(p, k) == SubSeq(p.full, 1, k)

(* allocate_physical_block, called again and again, hands out the free     *)
(* stack from its top; when it is empty evict_lru_block puts there, one by *)
(* one, the cached blocks nobody references, least recently freed first.   *)
Allocatable(free, lru) ==
  Reverse(free) \o
    Reverse(Filtered(lru, {b \in Blocks : physical_blocks[b].ref = 0}))

FreeAfter(free, n) == SubSeq(free, 1, Len(free) - Smaller(n, Len(free)))

EvictedBy(free, order, n) ==
  {order[k] : k \in (Len(free) + 1)..n}

LruAfter(free, lru, order, n) ==
  Filtered(lru, Blocks \ EvictedBy(free, order, n))

(* A block just allocated: one reference; only eviction resets its hash.   *)
Allocated(b, evicted, filled) ==
  [ref |-> 1, filled |-> filled,
   hash |-> IF b \in evicted THEN <<>> ELSE physical_blocks[b].hash]

-----------------------------------------------------------------------------
(* How many leading blocks of p have a node: the walk down the tree stops  *)
(* at the first one without.                                               *)
Matched(p) ==
  IF EnablePrefixCaching
  THEN CHOOSE m \in 0..Len(p.full) :
         /\ \A k \in 1..m : Path(p, k) \in DOMAIN tree
         /\ m < Len(p.full) => Path(p, m + 1) \notin DOMAIN tree
  ELSE 0

(* register_sequence_with_prefix.  The matched blocks gain a reference and *)
(* leave the LRU list; the other full blocks are allocated and become      *)
(* nodes; a partial block, or an empty one for an empty prompt, comes      *)
(* last.  When the pool runs out the call throws: references, nodes and    *)
(* allocated blocks stay, but no page table is stored.                     *)
NodeOf(p, k) == IF k \in 1..Matched(p) THEN tree[Path(p, k)] ELSE -1

MatchedBlocks(p) == [k \in 1..Matched(p) |-> NodeOf(p, k)]

(* (a matched block stays evictable) *)
LruKept(p) == lru_list

LruAfterMatch(p) == Filtered(lru_list, Blocks \ ToSet(MatchedBlocks(p)))

FreshFull(p) == Len(p.full) - Matched(p)

BlocksNeeded(p) ==
  FreshFull(p) + (IF p.tail > 0 \/ Len(p.full) = 0 THEN 1 ELSE 0)

(* Overwriting a child of a node drops the subtree below it. *)
TreeWith(p, new, n) ==
  LET m == Matched(p)
      kept == {q \in DOMAIN tree : n = 0 \/ ~IsPrefix(Path(p, m + 1), q)}
      added == {Path(p, m + k) : k \in 1..n}
  IN  [q \in kept \cup added |->
         IF q \in added THEN new[Len(q) - m] ELSE tree[q]]

(* (references taken by a call that throws are given back) *)
NothingLost(p, new) == [b \in Blocks |-> 0]

LostReferences(p, new) ==
  [b \in Blocks |-> Occurrences(b, MatchedBlocks(p) \o new)]

Register(s, p) ==
  LET order   == Allocatable(free_block_stack, LruAfterMatch(p))
      got     == Smaller(BlocksNeeded(p), Len(order))
      new     == SubSeq(order, 1, got)
      full    == Smaller(got, FreshFull(p))
      evicted == EvictedBy(free_block_stack, order, got)
      table   == MatchedBlocks(p) \o new
  IN
  /\ page_tables[s] = <<>>
  /\ physical_blocks' = [b \in Blocks |->
       IF b \in ToSet(new)
       THEN LET k == CHOOSE i \in 1..got : new[i] = b
            IN  IF k <= full
                THEN [ref |-> 1, filled |-> BlockSize, hash |-> Path(p, Matched(p) + k)]
                ELSE Allocated(b, evicted, p.tail)
       ELSE [physical_blocks[b] EXCEPT !.ref = @ + Occurrences(b, MatchedBlocks(p))]]
  /\ free_block_stack' = FreeAfter(free_block_stack, got)
  /\ lru_list' = LruAfter(free_block_stack, LruAfterMatch(p), order, got)
  /\ tree' = TreeWith(p, new, full)
  /\ UNCHANGED forked
  /\ IF got = BlocksNeeded(p)
     THEN /\ page_tables' = [page_tables EXCEPT ![s] = table]
          /\ prompt' = [prompt EXCEPT ![s] = p]
          /\ tokens' = [tokens EXCEPT ![s] = Len(p.full) * BlockSize + p.tail]
          /\ outcome' = "ok"
          /\ UNCHANGED orphans
     ELSE /\ orphans' = [b \in Blocks |-> orphans[b] + LostReferences(p, new)[b]]
          /\ outcome' = "OutOfPages"
          /\ UNCHANGED <<page_tables, prompt, tokens>>

-----------------------------------------------------------------------------
(* append_tokens: fills the last block, then allocates; a call that throws *)
(* keeps what it has appended so far.                                      *)
CeilDiv(n, d) == (n + d - 1) \div d

Available(s) == BlockSize - physical_blocks[Last(page_tables[s])].filled

AppendWithinBlock(s, n) ==
  /\ n <= Available(s)
  /\ physical_blocks' =
       [physical_blocks EXCEPT ![Last(page_tables[s])].filled = @ + n]
  /\ tokens' = [tokens EXCEPT ![s] = @ + n]
  /\ outcome' = "ok"
  /\ UNCHANGED <<free_block_stack, lru_list, tree, page_tables, prompt, orphans,
                 forked>>

(* (the partial block counted as full when it is left) *)
FilledOfNew(rest, k) == BlockSize

FilledOf(rest, k) == Smaller(rest - (k - 1) * BlockSize, BlockSize)

AppendBeyondBlock(s, n) ==
  LET rest    == n - Available(s)
      order   == Allocatable(free_block_stack, lru_list)
      needed  == CeilDiv(rest, BlockSize)
      got     == Smaller(needed, Len(order))
      new     == SubSeq(order, 1, got)
      evicted == EvictedBy(free_block_stack, order, got)
  IN
  /\ n > Available(s)
  /\ physical_blocks' = [b \in Blocks |->
       IF b \in ToSet(new)
       THEN Allocated(b, evicted, FilledOf(rest, CHOOSE i \in 1..got : new[i] = b))
       ELSE IF b = Last(page_tables[s])
            THEN [physical_blocks[b] EXCEPT !.filled = BlockSize]
            ELSE physical_blocks[b]]
  /\ free_block_stack' = FreeAfter(free_block_stack, got)
  /\ lru_list' = LruAfter(free_block_stack, lru_list, order, got)
  /\ page_tables' = [page_tables EXCEPT ![s] = @ \o new]
  /\ tokens' = [tokens EXCEPT ![s] =
       @ + (IF got = needed THEN n ELSE Available(s) + got * BlockSize)]
  /\ outcome' = IF got = needed THEN "ok" ELSE "OutOfPages"
  /\ UNCHANGED <<tree, prompt, orphans, forked>>

Append_tokens(s, n) ==
  /\ s \in Registered
  /\ tokens[s] + n <= MaxTokens
  /\ AppendWithinBlock(s, n) \/ AppendBeyondBlock(s, n)

-----------------------------------------------------------------------------
(* A block without a hash, or without prefix caching, goes back to the     *)
(* stack; the others are kept in the LRU list.                             *)
ToStack(b) == ~EnablePrefixCaching \/ physical_blocks[b].hash = <<>>

(* (the last reference, whatever the count) *)
AnyReference(b) == TRUE

LastReference(b) == physical_blocks[b].ref = 1

(* unregister_sequence: free_physical_block on every block of the table. *)
Unregister(s) ==
  LET table    == page_tables[s]
      released == Filtered(table, {b \in Blocks : LastReference(b)})
      stacked  == Filtered(released, {b \in Blocks : ToStack(b)})
      kept     == Filtered(released, {b \in Blocks : ~ToStack(b)})
  IN
  /\ s \in Registered
  /\ physical_blocks' = [b \in Blocks |->
       [physical_blocks[b] EXCEPT
          !.ref = IF b \in ToSet(table) /\ @ > 0 THEN @ - 1 ELSE @,
          !.filled = IF b \in ToSet(stacked) THEN 0 ELSE @]]
  /\ free_block_stack' = free_block_stack \o stacked
  /\ lru_list' = Reverse(kept) \o lru_list
  /\ page_tables' = [page_tables EXCEPT ![s] = <<>>]
  /\ prompt' = [prompt EXCEPT ![s] = NoPrompt]
  /\ tokens' = [tokens EXCEPT ![s] = 0]
  /\ outcome' = "ok"
  /\ UNCHANGED <<tree, orphans, forked>>

(* fork_sequence: the child shares every block, the partial one included;  *)
(* a table the child id already had is overwritten without being freed.    *)
Fork(parent, child) ==
  /\ Forks
  /\ parent \in Registered
  /\ physical_blocks' = [b \in Blocks |->
       [physical_blocks[b] EXCEPT !.ref = @ + Occurrences(b, page_tables[parent])]]
  /\ page_tables' = [page_tables EXCEPT ![child] = page_tables[parent]]
  /\ prompt' = [prompt EXCEPT ![child] = prompt[parent]]
  /\ tokens' = [tokens EXCEPT ![child] = tokens[parent]]
  /\ orphans' = [b \in Blocks |-> orphans[b] + Occurrences(b, page_tables[child])]
  /\ outcome' = "ok"
  /\ forked' = IF Available(parent) > 0 THEN "partial"
               ELSE IF forked = "no" THEN "full" ELSE forked
  /\ UNCHANGED <<free_block_stack, lru_list, tree>>

-----------------------------------------------------------------------------
(* The bound on lost references stops registrations and forks only. *)
LostSoFar == FoldFunction(LAMBDA n, m : n + m, 0, orphans)

(* Every block the walk finds still holds the prefix of its node. *)
MatchIsCurrent(p) ==
  \A k \in 1..Matched(p) : physical_blocks[NodeOf(p, k)].hash = Path(p, k)

Next ==
  \/ \E s \in SeqIds, p \in Prompts :
       /\ LostSoFar < MaxOrphans
       /\ EvictedPromptsReturn \/ MatchIsCurrent(p)
       /\ Register(s, p)
  \/ \E s \in SeqIds, n \in AppendSizes : Append_tokens(s, n)
  \/ \E s \in SeqIds : Unregister(s)
  \/ \E s, t \in SeqIds : LostSoFar < MaxOrphans /\ Fork(s, t)

Spec == Init /\ [][Next]_vars

-----------------------------------------------------------------------------
(* Every variable has its type; no page table is longer than the pool.     *)
TypeOK ==
  /\ \A b \in Blocks :
       /\ physical_blocks[b].ref \in Nat
       /\ physical_blocks[b].filled \in 0..BlockSize
  /\ free_block_stack \in Seq(Blocks)
  /\ lru_list \in Seq(Blocks)
  /\ \A q \in DOMAIN tree : Len(q) > 0 /\ tree[q] \in Blocks
  /\ \A s \in SeqIds : page_tables[s] \in Seq(Blocks) /\ tokens[s] \in Nat
  /\ orphans \in [Blocks -> Nat]
  /\ outcome \in {"ok", "OutOfPages"}
  /\ forked \in {"no", "full", "partial"}

(* A block carries one reference for each page table entry naming it, and  *)
(* one for each entry a failed registration or an overwriting fork has     *)
(* lost: no block is ever freed under a sequence that uses it.             *)
RefCountsExact ==
  \A b \in Blocks :
    physical_blocks[b].ref =
      orphans[b] + Cardinality({x \in SeqIds \X (1..NumBlocks) :
                                  /\ x[2] \in DOMAIN page_tables[x[1]]
                                  /\ page_tables[x[1]][x[2]] = b})

(* A block is referenced, free or cached for reuse, and exactly one of the *)
(* three; the free stack and the LRU list hold no block twice.  A cached   *)
(* block is full, and found again: the tree leads from its prefix to it.   *)
OneHome ==
  LET free   == ToSet(free_block_stack)
      cached == ToSet(lru_list)
      used   == {b \in Blocks : physical_blocks[b].ref > 0}
  IN  /\ Len(free_block_stack) = Cardinality(free)
      /\ Len(lru_list) = Cardinality(cached)
      /\ free \cap cached = {} /\ used \cap (free \cup cached) = {}
      /\ free \cup cached \cup used = Blocks
      /\ \A b \in cached :
           LET path == physical_blocks[b].hash
           IN  /\ path \in DOMAIN tree /\ tree[path] = b
               /\ physical_blocks[b].filled = BlockSize

(* Every block of the cache is accounted for: by its references, and by    *)
(* the one place it is in.                                                 *)
BlocksAccounted == RefCountsExact /\ OneHome

(* prepare_batch_metadata computes the context length of a sequence from    *)
(* the length of its table and the fill of its last block.                 *)
ContextLength(s) ==
  (Len(page_tables[s]) - 1) * BlockSize
    + physical_blocks[Last(page_tables[s])].filled

(* That length ("Total context length calculation") is the number of       *)
(* tokens the sequence was given, its prompt and what was appended to it,  *)
(* as long as no fork has shared a partial block (a later append through   *)
(* either sequence then fills it for both).                                *)
ContextLengthExact ==
  forked # "partial" => \A s \in Registered : ContextLength(s) = tokens[s]

(* Two sequences share a block only where their prompts agree up to and    *)
(* including that block ("prefix reuse", README.md), unless one of them    *)
(* was forked from the other.                                              *)
SharedOnlyByPrefix ==
  forked = "no" => \A s, t \in Registered : s # t =>
    \A i \in DOMAIN page_tables[s], j \in DOMAIN page_tables[t] :
      page_tables[s][i] = page_tables[t][j] =>
        /\ i = j
        /\ i <= Len(prompt[s].full) /\ i <= Len(prompt[t].full)
        /\ Path(prompt[s], i) = Path(prompt[t], i)

(* OutOfPagesException says "All {} blocks in active use": a block that    *)
(* was taken before the call that throws is in the page table of some      *)
(* sequence.                                                               *)
OutOfPagesMeansInUse ==
  [][outcome' = "OutOfPages" =>
       \A b \in Blocks : physical_blocks[b].ref > 0 =>
         \E s \in SeqIds : b \in ToSet(page_tables[s])]_vars
=============================================================================
