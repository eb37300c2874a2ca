------------------------- MODULE PagedKVCache_proofs -------------------------
(***************************************************************************)
(* Proofs about PagedKVCache, for any sequences, prompts, number and size  *)
(* of blocks, with prefix caching or without, as long as no prompt matches *)
(* an evicted block (~EvictedPromptsReturn).                               *)
(***************************************************************************)
EXTENDS PagedKVCache, SequenceTheorems, SumTheorems

(* What is in a set counts once. *)
Once(b, S) == IF b \in S THEN 1 ELSE 0

(* The entries of the page tables that name a block. *)
Entries(tables, b) ==
  {x \in SeqIds \X (1..NumBlocks) :
     /\ x[2] \in DOMAIN tables[x[1]]
     /\ tables[x[1]][x[2]] = b}

Block == [ref : Nat, filled : 0..BlockSize, hash : Seq(Contents)]

KVTypes ==
  /\ physical_blocks \in [Blocks -> Block]
  /\ free_block_stack \in Seq(Blocks) /\ lru_list \in Seq(Blocks)
  /\ \A q \in DOMAIN tree : q \in Seq(Contents) /\ Len(q) > 0 /\ tree[q] \in Blocks
  /\ page_tables \in [SeqIds -> Seq(Blocks)]
  /\ prompt \in [SeqIds -> Prompts \cup {NoPrompt}]
  /\ tokens \in [SeqIds -> Nat]
  /\ orphans \in [Blocks -> Nat]
  /\ outcome \in {"ok", "OutOfPages"}
  /\ forked \in {"no", "full", "partial"}

Used == {b \in Blocks : physical_blocks[b].ref > 0}

(* Every block is in one place, once. *)
Places ==
  /\ IsInjective(free_block_stack) /\ IsInjective(lru_list)
  /\ ToSet(free_block_stack) \cap ToSet(lru_list) = {}
  /\ Used \cap (ToSet(free_block_stack) \cup ToSet(lru_list)) = {}
  /\ ToSet(free_block_stack) \cup ToSet(lru_list) \cup Used = Blocks

(* With prefix caching: a block with a hash is full, has its node, and is  *)
(* not on the free stack; the tree has a node for every prefix of a path.  *)
(* Without, nothing is kept.                                               *)
Hashes ==
  /\ \A b \in ToSet(lru_list) :
       EnablePrefixCaching /\ physical_blocks[b].hash # <<>>
  /\ EnablePrefixCaching =>
       /\ \A b \in ToSet(free_block_stack) : physical_blocks[b].hash = <<>>
       /\ \A b \in Blocks : physical_blocks[b].hash # <<>> =>
            /\ physical_blocks[b].hash \in DOMAIN tree
            /\ tree[physical_blocks[b].hash] = b
            /\ physical_blocks[b].filled = BlockSize
       /\ \A q \in DOMAIN tree : \A k \in 1..Len(q) : SubSeq(q, 1, k) \in DOMAIN tree

(* A page table names a block once; its first blocks are those of the      *)
(* prompt, by their hashes, and all blocks but the last are full.          *)
Tables ==
  \A s \in SeqIds :
    /\ IsInjective(page_tables[s])
    /\ Len(prompt[s].full) <= Len(page_tables[s])
    /\ \A k \in DOMAIN page_tables[s] :
         LET block == physical_blocks[page_tables[s][k]]
         IN  /\ k <= Len(prompt[s].full) => block.hash = Path(prompt[s], k)
             /\ k > Len(prompt[s].full) /\ EnablePrefixCaching => block.hash = <<>>
             /\ k < Len(page_tables[s]) => block.filled = BlockSize

Counts ==
  /\ IsFiniteSet(Registered)
  /\ \A b \in Blocks :
       /\ Cardinality(Entries(page_tables, b)) \in Nat
       /\ physical_blocks[b].ref = orphans[b] + Cardinality(Entries(page_tables, b))

(* What two sequences share: blocks of their prompts before there were     *)
(* forks, and full blocks until a partial one was shared by a fork.        *)
Sharing ==
  \A s, t \in SeqIds : s # t =>
    \A i \in DOMAIN page_tables[s], j \in DOMAIN page_tables[t] :
      page_tables[s][i] = page_tables[t][j] =>
        /\ forked = "no" => /\ EnablePrefixCaching
                            /\ i <= Len(prompt[s].full) /\ j <= Len(prompt[t].full)
        /\ forked # "partial" => physical_blocks[page_tables[s][i]].filled = BlockSize

KVInv ==
  KVTypes /\ Places /\ Hashes /\ Tables /\ Counts /\ Sharing /\ ContextLengthExact

-----------------------------------------------------------------------------
(* Sequences: what a filter keeps, a reversal, a concatenation, a part.    *)
KeptStep(F, s, S, k) ==
  IF k = 0 THEN <<>>
  ELSE IF s[k] \in S THEN Append(F[k - 1], s[k]) ELSE F[k - 1]

Keeps(F, s, S) == F = [k \in 0..Len(s) |-> KeptStep(F, s, S, k)]

Keeper(s, S) == CHOOSE F : Keeps(F, s, S)

LEMMA FilteredIsKept ==
  ASSUME NEW s, NEW S
  PROVE  Filtered(s, S) = Keeper(s, S)[Len(s)]
BY DEF Filtered, Keeper, Keeps, KeptStep

(* The function the filter recurs with exists. *)
LEMMA KeeperKeeps ==
  ASSUME NEW X, NEW s \in Seq(X), NEW S
  PROVE  \A k \in 0..Len(s) : Keeper(s, S)[k] = KeptStep(Keeper(s, S), s, S, k)
<1> DEFINE Good(n) == \E F : /\ DOMAIN F = 0..n
                             /\ \A k \in 0..n : F[k] = KeptStep(F, s, S, k)
           K == {n \in Nat : ~Good(n)}
<1>0. Len(s) \in Nat
  OBVIOUS
<1>1. Good(0)
  <2> DEFINE F == [k \in 0..0 |-> <<>>]
  <2>1. \A k \in 0..0 : F[k] = KeptStep(F, s, S, k)
    BY DEF KeptStep
  <2> QED BY <2>1
<1>2. ASSUME NEW n \in Nat, Good(n) PROVE Good(n + 1)
  <2>1. PICK F : DOMAIN F = 0..n /\ \A k \in 0..n : F[k] = KeptStep(F, s, S, k)
    BY <1>2
  <2> DEFINE G == [k \in 0..(n + 1) |-> IF k = n + 1 THEN KeptStep(F, s, S, k) ELSE F[k]]
  <2>2. DOMAIN G = 0..(n + 1) /\ \A k \in 0..n : G[k] = F[k]
    OBVIOUS
  <2>3. G[n + 1] = KeptStep(F, s, S, n + 1)
    OBVIOUS
  <2> HIDE DEF G
  <2>4. ASSUME NEW k \in 0..(n + 1) PROVE G[k] = KeptStep(G, s, S, k)
    <3>1. G[k] = KeptStep(F, s, S, k)
      BY <2>1, <2>2, <2>3
    <3>2. k # 0 => k - 1 \in 0..n
      OBVIOUS
    <3> QED BY <3>1, <3>2, <2>2 DEF KeptStep
  <2> QED BY <2>2, <2>4
<1> HIDE DEF Good
<1>3. K = {}
  <2> SUFFICES ASSUME K # {} PROVE FALSE
    OBVIOUS
  <2>1. PICK m \in K : \A k \in K : m <= k
    <3>1. K \in SUBSET Nat
      OBVIOUS
    <3> HIDE DEF K
    <3> QED BY <3>1, LeastNumber
  <2>2. m \in Nat /\ m # 0 /\ ~Good(m)
    BY <1>1, <2>1
  <2>3. m - 1 \in Nat /\ m - 1 \notin K
    BY <2>1, <2>2
  <2>4. Good(m - 1)
    BY <2>3
  <2>5. Good(m - 1 + 1)
    BY <1>2, <2>3, <2>4
  <2> QED BY <2>2, <2>5
<1>4. Good(Len(s))
  BY <1>0, <1>3
<1>5. PICK F : DOMAIN F = 0..Len(s) /\ \A k \in 0..Len(s) : F[k] = KeptStep(F, s, S, k)
  BY <1>4 DEF Good
<1> DEFINE G == [k \in 0..Len(s) |-> F[k]]
<1>6. \A k \in 0..Len(s) : G[k] = F[k]
  OBVIOUS
<1>7. ASSUME NEW k \in 0..Len(s) PROVE G[k] = KeptStep(G, s, S, k)
  <2>1. k # 0 => k - 1 \in 0..Len(s)
    BY <1>0
  <2> HIDE DEF G
  <2> QED BY <1>5, <1>6, <2>1 DEF KeptStep
<1>8. G = [k \in 0..Len(s) |-> KeptStep(G, s, S, k)]
  <2>1. G = [k \in 0..Len(s) |-> G[k]]
    OBVIOUS
  <2> HIDE DEF G
  <2> QED BY <1>7, <2>1
<1> HIDE DEF G
<1>9. Keeps(Keeper(s, S), s, S)
  BY <1>8 DEF Keeps, Keeper
<1>10. Keeper(s, S) = [k \in 0..Len(s) |-> KeptStep(Keeper(s, S), s, S, k)]
  BY <1>9 DEF Keeps
<1> QED BY <1>10

LEMMA FilteredFacts ==
  ASSUME NEW X, NEW s \in Seq(X), NEW S
  PROVE  /\ Filtered(s, S) \in Seq(X)
         /\ ToSet(Filtered(s, S)) = ToSet(s) \cap S
         /\ IsInjective(s) => IsInjective(Filtered(s, S))
<1> DEFINE F == Keeper(s, S)
           Part(k) == {s[i] : i \in 1..k} \cap S
           Good(k) == /\ F[k] \in Seq(X)
                      /\ {F[k][i] : i \in 1..Len(F[k])} = Part(k)
                      /\ IsInjective(s) => IsInjective(F[k])
           K == {k \in 0..Len(s) : ~Good(k)}
<1>0. Len(s) \in Nat /\ DOMAIN s = 1..Len(s)
  OBVIOUS
<1>1. \A k \in 0..Len(s) : F[k] = KeptStep(F, s, S, k)
  BY KeeperKeeps
<1> HIDE DEF F
<1>2. Good(0)
  <2>1. F[0] = <<>>
    BY <1>0, <1>1 DEF KeptStep
  <2>2. <<>> \in Seq(X) /\ 1..Len(<<>>) = {} /\ Part(0) = {} /\ IsInjective(<<>>)
    BY DEF IsInjective
  <2> QED BY <2>1, <2>2
<1>3. ASSUME NEW k \in 1..Len(s), Good(k - 1) PROVE Good(k)
  <2>1. PICK g \in Seq(X) : g = F[k - 1]
    BY <1>3
  <2>2. /\ {g[i] : i \in 1..Len(g)} = Part(k - 1)
        /\ IsInjective(s) => IsInjective(g)
    BY <1>3, <2>1
  <2>3. F[k] = IF s[k] \in S THEN Append(g, s[k]) ELSE g
    BY <1>0, <1>1, <2>1 DEF KeptStep
  <2>4. 1..k = 1..(k - 1) \cup {k} /\ s[k] \in X
    BY <1>0
  <2>5. CASE s[k] \notin S
    <3>1. F[k] = g
      BY <2>3, <2>5
    <3>2. Part(k) = Part(k - 1)
      BY <2>4, <2>5
    <3> QED BY <2>2, <3>1, <3>2
  <2>6. CASE s[k] \in S
    <3>1. F[k] = Append(g, s[k])
      BY <2>3, <2>6
    <3>2. /\ Append(g, s[k]) \in Seq(X) /\ Len(Append(g, s[k])) = Len(g) + 1
          /\ \A i \in 1..Len(g) : Append(g, s[k])[i] = g[i]
          /\ Append(g, s[k])[Len(g) + 1] = s[k]
      BY <2>4
    <3>3. 1..(Len(g) + 1) = 1..Len(g) \cup {Len(g) + 1} /\ Len(g) \in Nat
      OBVIOUS
    <3> DEFINE h == Append(g, s[k])
    <3>4. {h[i] : i \in 1..(Len(g) + 1)} = {g[i] : i \in 1..Len(g)} \cup {s[k]}
      <4> HIDE DEF h
      <4>1. \A i \in 1..Len(g) : h[i] = g[i]
        BY <3>2 DEF h
      <4>2. h[Len(g) + 1] = s[k]
        BY <3>2 DEF h
      <4> QED BY <3>3, <4>1, <4>2
    <3>5. Part(k) = Part(k - 1) \cup {s[k]}
      BY <2>4, <2>6
    <3>6. ASSUME IsInjective(s) PROVE IsInjective(Append(g, s[k]))
      <4>1. IsInjective(g)
        BY <2>2, <3>6
      <4>2. \A i \in 1..Len(g) : g[i] # s[k]
        <5>1. \A i \in 1..Len(g) : g[i] \in Part(k - 1)
          BY <2>2
        <5>2. \A j \in 1..(k - 1) : s[j] # s[k]
          BY <1>0, <3>6 DEF IsInjective
        <5> QED BY <5>1, <5>2
      <4> QED BY <3>2, <3>3, <4>1, <4>2 DEF IsInjective
    <3> QED BY <2>2, <3>1, <3>2, <3>4, <3>5, <3>6
  <2> QED BY <2>5, <2>6
<1> HIDE DEF Good
<1>4. K = {}
  <2> SUFFICES ASSUME K # {} PROVE FALSE
    OBVIOUS
  <2>1. PICK m \in K : \A k \in K : m <= k
    <3>1. K \in SUBSET Nat
      OBVIOUS
    <3> HIDE DEF K
    <3> QED BY <3>1, LeastNumber
  <2>2. m \in 0..Len(s) /\ m # 0 /\ ~Good(m)
    BY <1>2, <2>1
  <2>3. m \in 1..Len(s) /\ m - 1 \in 0..Len(s) /\ m - 1 \notin K
    BY <1>0, <2>1, <2>2
  <2>4. Good(m - 1)
    BY <2>3
  <2>5. Good(m)
    BY <1>3, <2>3, <2>4
  <2> QED BY <2>2, <2>5
<1>5. Good(Len(s))
  BY <1>0, <1>4
<1>6. Filtered(s, S) = F[Len(s)]
  BY FilteredIsKept DEF F
<1>7. /\ Filtered(s, S) \in Seq(X)
      /\ {Filtered(s, S)[i] : i \in 1..Len(Filtered(s, S))} = Part(Len(s))
      /\ IsInjective(s) => IsInjective(Filtered(s, S))
  BY <1>5, <1>6 DEF Good
<1>8. DOMAIN Filtered(s, S) = 1..Len(Filtered(s, S))
  BY <1>7
<1> QED BY <1>0, <1>7, <1>8 DEF ToSet

LEMMA ReverseFacts ==
  ASSUME NEW X, NEW s \in Seq(X)
  PROVE  /\ Reverse(s) \in Seq(X) /\ Len(Reverse(s)) = Len(s)
         /\ \A k \in 1..Len(s) : Reverse(s)[k] = s[Len(s) - k + 1]
         /\ ToSet(Reverse(s)) = ToSet(s)
         /\ IsInjective(s) => IsInjective(Reverse(s))
<1>1. PICK n \in Nat : n = Len(s) /\ DOMAIN s = 1..n
  OBVIOUS
<1>2. \A k \in 1..n : n - k + 1 \in 1..n /\ n - (n - k + 1) + 1 = k /\ (n - k) + 1 = n - k + 1
  OBVIOUS
<1> DEFINE r == Reverse(s)
<1>3. r = [k \in 1..n |-> s[n - k + 1]]
  BY <1>1, <1>2 DEF Reverse
<1>4. r \in Seq(X) /\ Len(r) = n /\ DOMAIN r = 1..n /\ \A k \in 1..n : r[k] = s[n - k + 1]
  BY <1>1, <1>2, <1>3
<1> HIDE DEF r
<1>5. ToSet(r) = ToSet(s)
  <2>1. \A k \in 1..n : r[k] \in ToSet(s)
    BY <1>1, <1>2, <1>4 DEF ToSet
  <2>2. \A k \in 1..n : s[k] = r[n - k + 1]
    BY <1>2, <1>4
  <2>3. \A k \in 1..n : s[k] \in ToSet(r)
    BY <1>2, <1>4, <2>2 DEF ToSet
  <2> QED BY <1>1, <1>4, <2>1, <2>3 DEF ToSet
<1>6. ASSUME IsInjective(s) PROVE IsInjective(r)
  BY <1>1, <1>2, <1>4, <1>6 DEF IsInjective
<1> QED BY <1>1, <1>4, <1>5, <1>6 DEF r

LEMMA ConcatFacts ==
  ASSUME NEW X, NEW s \in Seq(X), NEW t \in Seq(X)
  PROVE  /\ s \o t \in Seq(X) /\ Len(s \o t) = Len(s) + Len(t)
         /\ \A k \in 1..Len(s) : (s \o t)[k] = s[k]
         /\ \A k \in 1..Len(t) : (s \o t)[Len(s) + k] = t[k]
         /\ ToSet(s \o t) = ToSet(s) \cup ToSet(t)
         /\ IsInjective(s) /\ IsInjective(t) /\ ToSet(s) \cap ToSet(t) = {} =>
              IsInjective(s \o t)
<1>1. PICK n \in Nat : n = Len(s) /\ DOMAIN s = 1..n
  OBVIOUS
<1>2. PICK m \in Nat : m = Len(t) /\ DOMAIN t = 1..m
  OBVIOUS
<1> DEFINE c == s \o t
<1>3. /\ c \in Seq(X) /\ Len(c) = n + m /\ DOMAIN c = 1..(n + m)
      /\ \A k \in 1..n : c[k] = s[k]
      /\ \A k \in 1..m : c[n + k] = t[k]
  BY <1>1, <1>2
<1>4. \A k \in 1..(n + m) : k \in 1..n \/ (k - n \in 1..m /\ n + (k - n) = k)
  OBVIOUS
<1>5. \A k \in 1..m : n + k \in 1..(n + m)
  OBVIOUS
<1> HIDE DEF c
<1>6. ToSet(c) = ToSet(s) \cup ToSet(t)
  <2>1. ASSUME NEW k \in 1..(n + m) PROVE c[k] \in ToSet(s) \cup ToSet(t)
    <3>1. CASE k \in 1..n
      BY <1>1, <1>3, <3>1 DEF ToSet
    <3>2. CASE k - n \in 1..m /\ n + (k - n) = k
      <4>1. c[k] = t[k - n]
        BY <1>3, <3>2
      <4> QED BY <1>2, <3>2, <4>1 DEF ToSet
    <3> QED BY <1>4, <3>1, <3>2
  <2>2. \A k \in 1..n : k \in 1..(n + m)
    OBVIOUS
  <2>3. ToSet(s) \subseteq ToSet(c)
    BY <1>1, <1>3, <2>2 DEF ToSet
  <2>4. ToSet(t) \subseteq ToSet(c)
    <3>1. \A k \in 1..m : t[k] \in ToSet(c)
      BY ONLY <1>3, <1>5 DEF ToSet
    <3> QED BY <1>2, <3>1 DEF ToSet
  <2> QED BY <1>3, <2>1, <2>3, <2>4 DEF ToSet
<1>7. ASSUME IsInjective(s), IsInjective(t), ToSet(s) \cap ToSet(t) = {}
      PROVE  IsInjective(c)
  <2>1. SUFFICES ASSUME NEW i \in 1..(n + m), NEW j \in 1..(n + m), c[i] = c[j]
                 PROVE  i = j
    BY <1>3 DEF IsInjective
  <2>2. CASE i \in 1..n /\ j \in 1..n
    BY <1>1, <1>3, <1>7, <2>1, <2>2 DEF IsInjective
  <2>6. \A k \in 1..n : c[k] \in ToSet(s)
    BY <1>1, <1>3 DEF ToSet
  <2>7. ASSUME NEW k \in 1..(n + m), k \notin 1..n PROVE c[k] \in ToSet(t)
    <3>1. k - n \in 1..m /\ n + (k - n) = k
      BY <1>4, <2>7
    <3>2. c[k] = t[k - n]
      BY <1>3, <3>1
    <3> QED BY <1>2, <3>1, <3>2 DEF ToSet
  <2>3. CASE i \in 1..n /\ j \notin 1..n
    BY <1>7, <2>1, <2>3, <2>6, <2>7
  <2>4. CASE i \notin 1..n /\ j \in 1..n
    BY <1>7, <2>1, <2>4, <2>6, <2>7
  <2>5. CASE i \notin 1..n /\ j \notin 1..n
    <3>1. /\ i - n \in 1..m /\ n + (i - n) = i
          /\ j - n \in 1..m /\ n + (j - n) = j
      BY <1>4, <2>5
    <3>2. t[i - n] = t[j - n]
      BY <1>3, <2>1, <3>1
    <3>3. i - n = j - n
      BY <1>2, <1>7, <3>1, <3>2 DEF IsInjective
    <3> QED BY <3>1, <3>3
  <2> QED BY <2>2, <2>3, <2>4, <2>5
<1> QED BY <1>1, <1>2, <1>3, <1>6, <1>7 DEF c

LEMMA PartFacts ==
  ASSUME NEW X, NEW s \in Seq(X), NEW n \in 0..Len(s)
  PROVE  /\ SubSeq(s, 1, n) \in Seq(X) /\ Len(SubSeq(s, 1, n)) = n
         /\ \A k \in 1..n : SubSeq(s, 1, n)[k] = s[k]
         /\ ToSet(SubSeq(s, 1, n)) = {s[k] : k \in 1..n}
         /\ IsInjective(s) => IsInjective(SubSeq(s, 1, n))
<1>1. Len(s) \in Nat /\ DOMAIN s = 1..Len(s) /\ 1..n \subseteq DOMAIN s
  OBVIOUS
<1> DEFINE p == SubSeq(s, 1, n)
<1>2. p \in Seq(X) /\ Len(p) = n /\ DOMAIN p = 1..n /\ \A k \in 1..n : p[k] = s[k]
  BY <1>1
<1> HIDE DEF p
<1>3. ToSet(p) = {s[k] : k \in 1..n}
  BY <1>2 DEF ToSet
<1>4. IsInjective(s) => IsInjective(p)
  BY <1>1, <1>2 DEF IsInjective
<1> QED BY <1>2, <1>3, <1>4 DEF p

LEMMA LenOfInjective ==
  ASSUME NEW X, NEW s \in Seq(X), IsInjective(s)
  PROVE  IsFiniteSet(ToSet(s)) /\ Cardinality(ToSet(s)) = Len(s)
<1>1. PICK n \in Nat : n = Len(s) /\ DOMAIN s = 1..n /\ s = [k \in 1..n |-> s[k]]
  OBVIOUS
<1>2. IsFiniteSet(1..n) /\ Cardinality(1..n) = n
  BY FS_Interval
<1>3. s \in Bijection(1..n, ToSet(s))
  <2>1. s \in [1..n -> ToSet(s)]
    BY <1>1 DEF ToSet
  <2>2. \A i, j \in 1..n : s[i] = s[j] => i = j
    BY <1>1 DEF IsInjective
  <2>3. \A x \in ToSet(s) : \E i \in 1..n : s[i] = x
    BY <1>1 DEF ToSet
  <2> QED BY <2>1, <2>2, <2>3 DEF Bijection, Injection, Surjection, IsInjective
<1>4. ExistsBijection(1..n, ToSet(s))
  BY <1>3 DEF ExistsBijection
<1> QED BY <1>1, <1>2, <1>4, FS_Bijection

LEMMA SmallerFacts ==
  ASSUME NEW a \in Nat, NEW b \in Nat
  PROVE  /\ Smaller(a, b) \in Nat /\ Smaller(a, b) <= a /\ Smaller(a, b) <= b
         /\ Smaller(a, b) = a \/ Smaller(a, b) = b
BY DEF Smaller

Idle(lru) == \A b \in ToSet(lru) : physical_blocks[b].ref = 0

(* new is what got calls of allocate_physical_block return. *)
Allocates(free, lru, order, got, new) ==
  /\ free \in Seq(Blocks) /\ lru \in Seq(Blocks)
  /\ IsInjective(free) /\ IsInjective(lru) /\ ToSet(free) \cap ToSet(lru) = {}
  /\ Idle(lru)
  /\ order = Allocatable(free, lru)
  /\ got \in Nat /\ got <= Len(order)
  /\ new = SubSeq(order, 1, got)

(* What the calls of allocate_physical_block take comes off the stack from *)
(* its top and then off the LRU list, and each block once.                 *)
LEMMA Allocation ==
  ASSUME NEW free, NEW lru, NEW order, NEW got, NEW new,
         Allocates(free, lru, order, got, new)
  PROVE  /\ new \in Seq(Blocks) /\ Len(new) = got /\ IsInjective(new)
         /\ ToSet(new) \subseteq ToSet(free) \cup ToSet(lru)
         /\ FreeAfter(free, got) \in Seq(Blocks) /\ IsInjective(FreeAfter(free, got))
         /\ ToSet(FreeAfter(free, got)) = ToSet(free) \ ToSet(new)
         /\ LruAfter(free, lru, order, got) \in Seq(Blocks)
         /\ IsInjective(LruAfter(free, lru, order, got))
         /\ ToSet(LruAfter(free, lru, order, got)) = ToSet(lru) \ ToSet(new)
         /\ EvictedBy(free, order, got) = ToSet(new) \cap ToSet(lru)
<1> USE DEF Allocates
<1> DEFINE zero == {b \in Blocks : physical_blocks[b].ref = 0}
           kept == Filtered(lru, zero)
<1>1. /\ kept \in Seq(Blocks) /\ IsInjective(kept)
      /\ ToSet(kept) = ToSet(lru) \cap zero
  BY FilteredFacts
<1>2. ToSet(lru) \subseteq Blocks /\ ToSet(free) \subseteq Blocks
  BY DEF ToSet
<1>3. ToSet(kept) = ToSet(lru)
  BY <1>1, <1>2 DEF Idle
<1> HIDE DEF kept
<1>4. PICK n \in Nat : n = Len(free) /\ DOMAIN free = 1..n
  OBVIOUS
<1>5. PICK m \in Nat : m = Len(kept)
  BY <1>1
<1>6. PICK rf \in Seq(Blocks) : rf = Reverse(free)
  BY ReverseFacts
<1>7. PICK rk \in Seq(Blocks) : rk = Reverse(kept)
  BY <1>1, ReverseFacts
<1>8. /\ Len(rf) = n /\ \A k \in 1..n : rf[k] = free[n - k + 1]
      /\ ToSet(rf) = ToSet(free) /\ IsInjective(rf)
  BY <1>4, <1>6, ReverseFacts
<1>9. Len(rk) = m /\ ToSet(rk) = ToSet(lru) /\ IsInjective(rk)
  BY <1>1, <1>3, <1>5, <1>7, ReverseFacts
<1>10. order = rf \o rk
  BY <1>6, <1>7 DEF Allocatable, kept, zero
<1>11. /\ order \in Seq(Blocks) /\ Len(order) = n + m /\ IsInjective(order)
       /\ \A k \in 1..n : order[k] = rf[k]
       /\ \A k \in 1..m : order[n + k] = rk[k]
       /\ ToSet(order) = ToSet(free) \cup ToSet(lru)
       /\ DOMAIN order = 1..(n + m)
  <2>1. ToSet(rf) \cap ToSet(rk) = {}
    BY <1>8, <1>9
  <2>2. /\ rf \o rk \in Seq(Blocks) /\ Len(rf \o rk) = Len(rf) + Len(rk)
        /\ \A k \in 1..Len(rf) : (rf \o rk)[k] = rf[k]
        /\ \A k \in 1..Len(rk) : (rf \o rk)[Len(rf) + k] = rk[k]
        /\ ToSet(rf \o rk) = ToSet(rf) \cup ToSet(rk)
        /\ IsInjective(rf \o rk)
    <3>1. IsInjective(rf) /\ IsInjective(rk)
      BY <1>8, <1>9
    <3> QED BY ONLY <2>1, <3>1, ConcatFacts, rf \in Seq(Blocks), rk \in Seq(Blocks)
  <2>3. order \in Seq(Blocks) /\ Len(order) = n + m
    BY <1>8, <1>9, <1>10, <2>2
  <2>4. DOMAIN order = 1..(n + m)
    BY <2>3
  <2> QED BY <1>8, <1>9, <1>10, <2>2, <2>3, <2>4
<1>12. got \in 0..(n + m)
  BY <1>11
<1>13. /\ new \in Seq(Blocks) /\ Len(new) = got /\ IsInjective(new)
       /\ ToSet(new) = {order[k] : k \in 1..got}
  BY <1>11, <1>12, PartFacts
<1>14. \A k \in 1..got : k \in 1..(n + m)
  BY <1>12
<1>15. ToSet(new) \subseteq ToSet(free) \cup ToSet(lru)
  <2>1. \A k \in 1..got : order[k] \in ToSet(order)
    BY <1>11, <1>14 DEF ToSet
  <2> QED BY <1>11, <1>13, <2>1
<1>16. PICK q \in Nat : q = Smaller(got, n) /\ q <= got /\ q <= n /\ (q = got \/ q = n)
  <2>1. got \in Nat /\ n \in Nat
    BY <1>11
  <2>2. PICK q : q = Smaller(got, n)
    OBVIOUS
  <2> QED BY ONLY <2>1, <2>2 DEF Smaller
<1>17. n - q \in 0..n
  BY <1>16
<1>18. FreeAfter(free, got) = SubSeq(free, 1, n - q)
  BY <1>4, <1>16 DEF FreeAfter
<1>19. /\ FreeAfter(free, got) \in Seq(Blocks) /\ IsInjective(FreeAfter(free, got))
       /\ ToSet(FreeAfter(free, got)) = {free[k] : k \in 1..(n - q)}
  <2>1. n - q \in 0..Len(free)
    BY <1>4, <1>17
  <2>2. /\ SubSeq(free, 1, n - q) \in Seq(Blocks) /\ IsInjective(SubSeq(free, 1, n - q))
        /\ ToSet(SubSeq(free, 1, n - q)) = {free[k] : k \in 1..(n - q)}
    BY <2>1, PartFacts
  <2> QED BY <1>18, <2>2
<1>20. \A k \in 1..m : order[n + k] \in ToSet(lru)
  <2>1. DOMAIN rk = 1..m
    BY <1>9
  <2>2. \A k \in 1..m : rk[k] \in ToSet(rk)
    BY <2>1 DEF ToSet
  <2> QED BY <1>9, <1>11, <2>2
<1>21. \A k \in (n + 1)..(n + m) : k - n \in 1..m /\ n + (k - n) = k
  OBVIOUS
<1>22. \A k \in (n + 1)..(n + m) : order[k] \in ToSet(lru)
  BY <1>20, <1>21
<1>23. \A k \in 1..n : order[k] = free[n - k + 1] /\ n - k + 1 \in 1..n /\ order[k] \in ToSet(free)
  <2>1. \A k \in 1..n : n - k + 1 \in 1..n
    OBVIOUS
  <2>2. \A j \in 1..n : free[j] \in ToSet(free)
    BY <1>4 DEF ToSet
  <2>3. \A k \in 1..n : order[k] = free[n - k + 1]
    BY <1>8, <1>11
  <2> QED BY ONLY <2>1, <2>2, <2>3
<1>24. \A j \in 1..n : free[j] \in ToSet(new) <=> j > n - q
  <2> SUFFICES ASSUME NEW j \in 1..n PROVE free[j] \in ToSet(new) <=> j > n - q
    OBVIOUS
  <2>1. n - j + 1 \in 1..n /\ n - (n - j + 1) + 1 = j
    OBVIOUS
  <2>2. order[n - j + 1] = free[j]
    BY <1>23, <2>1
  <2>3. DOMAIN order = 1..(n + m) /\ n - j + 1 \in 1..(n + m)
    BY <1>11, <2>1
  <2>4. free[j] \in ToSet(new) <=> n - j + 1 \in 1..got
    <3>1. \A k \in 1..got : order[k] = order[n - j + 1] => k = n - j + 1
      BY <1>11, <1>14, <2>3 DEF IsInjective
    <3> QED BY <1>13, <2>2, <3>1
  <2>5. n - j + 1 \in 1..got <=> j > n - q
    BY <1>16, <2>1
  <2> QED BY <2>4, <2>5
<1>25. ToSet(FreeAfter(free, got)) = ToSet(free) \ ToSet(new)
  <2>1. \A k \in 1..(n - q) : k \in 1..n /\ ~(k > n - q)
    BY <1>17
  <2>2. \A k \in 1..n : ~(k > n - q) => k \in 1..(n - q)
    BY <1>17
  <2>3. ToSet(free) = {free[k] : k \in 1..n}
    BY <1>4 DEF ToSet
  <2> QED BY <1>19, <1>24, <2>1, <2>2, <2>3
<1>26. EvictedBy(free, order, got) = {order[k] : k \in (n + 1)..got}
  BY <1>4 DEF EvictedBy
<1>27. EvictedBy(free, order, got) = ToSet(new) \cap ToSet(lru)
  <2>1. \A k \in (n + 1)..got : k \in 1..got /\ k \in (n + 1)..(n + m)
    BY <1>12
  <2>2. \A k \in 1..got : k \in 1..n \/ k \in (n + 1)..got
    BY <1>12
  <2>3. EvictedBy(free, order, got) \subseteq ToSet(new) \cap ToSet(lru)
    BY <1>13, <1>22, <1>26, <2>1
  <2>4. ToSet(new) \cap ToSet(lru) \subseteq EvictedBy(free, order, got)
    BY <1>13, <1>23, <1>26, <2>2
  <2> QED BY <2>3, <2>4
<1>28. /\ LruAfter(free, lru, order, got) \in Seq(Blocks)
       /\ IsInjective(LruAfter(free, lru, order, got))
       /\ ToSet(LruAfter(free, lru, order, got)) =
            ToSet(lru) \cap (Blocks \ EvictedBy(free, order, got))
  BY FilteredFacts DEF LruAfter
<1> QED BY <1>2, <1>13, <1>15, <1>19, <1>25, <1>27, <1>28

-----------------------------------------------------------------------------
(* Counting the entries of the page tables. *)
LEMMA OccursOnce ==
  ASSUME NEW X, NEW s \in Seq(X), IsInjective(s), NEW b
  PROVE  Occurrences(b, s) = Once(b, ToSet(s))
<1> DEFINE at == {k \in DOMAIN s : s[k] = b}
<1>1. CASE b \in ToSet(s)
  <2>1. PICK i \in DOMAIN s : s[i] = b
    BY <1>1 DEF ToSet
  <2>2. at = {i}
    BY <2>1 DEF IsInjective
  <2> HIDE DEF at
  <2>3. Cardinality(at) = 1
    BY <2>2, FS_Singleton
  <2> QED BY <1>1, <2>3 DEF Occurrences, Once, at
<1>2. CASE b \notin ToSet(s)
  <2>1. at = {}
    BY <1>2 DEF ToSet
  <2> HIDE DEF at
  <2>2. Cardinality(at) = 0
    BY <2>1, FS_EmptySet
  <2> QED BY <1>2, <2>2 DEF Occurrences, Once, at
<1> QED BY <1>1, <1>2

(* A table that names no block twice is no longer than the pool. *)
LEMMA TableFits ==
  ASSUME NEW t \in Seq(Blocks), IsInjective(t)
  PROVE  Len(t) <= NumBlocks
<1>1. NumBlocks \in Nat \ {0}
  BY KVAssumption
<1>2. IsFiniteSet(Blocks) /\ Cardinality(Blocks) = NumBlocks
  BY <1>1, FS_Interval DEF Blocks
<1>3. ToSet(t) \in SUBSET Blocks
  BY DEF ToSet
<1>4. Cardinality(ToSet(t)) = Len(t)
  BY LenOfInjective
<1>5. Cardinality(ToSet(t)) <= Cardinality(Blocks)
  BY ONLY <1>2, <1>3, FS_Subset
<1> QED BY <1>2, <1>4, <1>5

(* The entries of the tables of the other sequences. *)
Others(tables, s, b) == {x \in Entries(tables, b) : x[1] # s}

LEMMA EntriesCounted ==
  ASSUME NEW tables \in [SeqIds -> Seq(Blocks)],
         IsFiniteSet({r \in SeqIds : tables[r] # <<>>}),
         NEW s \in SeqIds, IsInjective(tables[s]), NEW b
  PROVE  /\ Cardinality(Entries(tables, b)) \in Nat
         /\ Cardinality(Others(tables, s, b)) \in Nat
         /\ Cardinality(Entries(tables, b)) =
              Cardinality(Others(tables, s, b)) + Once(b, ToSet(tables[s]))
<1> DEFINE reg == {r \in SeqIds : tables[r] # <<>>}
<1>1. NumBlocks \in Nat
  BY KVAssumption
<1>2. IsFiniteSet(reg \X (1..NumBlocks))
  <2>1. IsFiniteSet(1..NumBlocks)
    BY <1>1, FS_Interval
  <2> QED BY <2>1, FS_Product
<1>3. Entries(tables, b) \subseteq reg \X (1..NumBlocks)
  BY DEF Entries
<1>4. /\ IsFiniteSet(Entries(tables, b))
      /\ Others(tables, s, b) \in SUBSET Entries(tables, b)
  BY <1>2, <1>3, FS_Subset DEF Others
<1>5. IsFiniteSet(Others(tables, s, b))
  BY <1>4, FS_Subset
<1>6. PICK t \in Seq(Blocks) : t = tables[s]
  OBVIOUS
<1>7. Len(t) <= NumBlocks /\ Len(t) \in Nat /\ DOMAIN t = 1..Len(t)
  BY <1>6, TableFits
<1>8. CASE b \in ToSet(t)
  <2>1. PICK i \in DOMAIN t : t[i] = b
    BY <1>8 DEF ToSet
  <2>2. i \in 1..NumBlocks
    BY <1>1, <1>7, <2>1
  <2>3. <<s, i>> \notin Others(tables, s, b)
    BY DEF Others
  <2>4. \A k \in DOMAIN t : t[k] = b => k = i
    BY <1>6, <2>1 DEF IsInjective
  <2>5. Entries(tables, b) = Others(tables, s, b) \cup {<<s, i>>}
    BY <1>6, <2>1, <2>2, <2>4 DEF Others, Entries
  <2>6. Cardinality(Entries(tables, b)) = Cardinality(Others(tables, s, b)) + 1
    BY <1>5, <2>3, <2>5, FS_AddElement
  <2> QED BY <1>4, <1>5, <1>6, <1>8, <2>6, FS_CardinalityType DEF Once
<1>9. CASE b \notin ToSet(t)
  <2>1. Entries(tables, b) = Others(tables, s, b)
    BY <1>6, <1>9 DEF Others, Entries, ToSet
  <2>2. Cardinality(Entries(tables, b)) \in Nat
    BY <1>4, FS_CardinalityType
  <2>3. Once(b, ToSet(tables[s])) = 0
    BY <1>6, <1>9 DEF Once
  <2> QED BY <2>1, <2>2, <2>3
<1> QED BY <1>8, <1>9

Replaces(tables, s, t, after) ==
  /\ tables \in [SeqIds -> Seq(Blocks)]
  /\ IsFiniteSet({r \in SeqIds : tables[r] # <<>>})
  /\ s \in SeqIds /\ IsInjective(tables[s])
  /\ t \in Seq(Blocks) /\ IsInjective(t)
  /\ after = [tables EXCEPT ![s] = t]

(* Replacing one table moves the counts by what leaves and what comes. *)
LEMMA EntriesReplaced ==
  ASSUME NEW tables, NEW s, NEW t, NEW after, Replaces(tables, s, t, after)
  PROVE  /\ IsFiniteSet({r \in SeqIds : after[r] # <<>>})
         /\ \A b \in Blocks :
              /\ Cardinality(Entries(tables, b)) \in Nat
              /\ Cardinality(Entries(after, b)) \in Nat
              /\ Cardinality(Entries(after, b)) + Once(b, ToSet(tables[s])) =
                   Cardinality(Entries(tables, b)) + Once(b, ToSet(t))
<1> USE DEF Replaces
<1> DEFINE reg(u) == {r \in SeqIds : u[r] # <<>>}
<1>1. /\ after \in [SeqIds -> Seq(Blocks)] /\ after[s] = t
      /\ \A r \in SeqIds : r # s => after[r] = tables[r]
  OBVIOUS
<1>2. IsFiniteSet(reg(after))
  <2>1. IsFiniteSet(reg(tables) \cup {s})
    BY FS_AddElement
  <2>2. reg(after) \in SUBSET (reg(tables) \cup {s})
    BY <1>1
  <2> HIDE DEF reg
  <2> QED BY ONLY <2>1, <2>2, FS_Subset
<1>3. ASSUME NEW b \in Blocks
      PROVE  /\ Cardinality(Entries(tables, b)) \in Nat
             /\ Cardinality(Entries(after, b)) \in Nat
             /\ Cardinality(Entries(after, b)) + Once(b, ToSet(tables[s])) =
                  Cardinality(Entries(tables, b)) + Once(b, ToSet(t))
  <2>1. Others(after, s, b) = Others(tables, s, b)
    BY <1>1 DEF Others, Entries
  <2>2. /\ Cardinality(Entries(tables, b)) \in Nat
        /\ Cardinality(Others(tables, s, b)) \in Nat
        /\ Cardinality(Entries(tables, b)) =
             Cardinality(Others(tables, s, b)) + Once(b, ToSet(tables[s]))
    BY EntriesCounted
  <2>3. /\ Cardinality(Entries(after, b)) \in Nat
        /\ Cardinality(Entries(after, b)) =
             Cardinality(Others(after, s, b)) + Once(b, ToSet(t))
    BY <1>1, <1>2, EntriesCounted
  <2>4. Once(b, ToSet(t)) \in Nat /\ Once(b, ToSet(tables[s])) \in Nat
    BY DEF Once
  <2> QED BY <2>1, <2>2, <2>3, <2>4
<1> QED BY <1>2, <1>3

LEMMA EntriesReplacedAt ==
  ASSUME NEW tables, NEW s, NEW t, NEW after, Replaces(tables, s, t, after),
         NEW b \in Blocks
  PROVE  /\ Cardinality(Entries(tables, b)) \in Nat
         /\ Cardinality(Entries(after, b)) \in Nat
         /\ Cardinality(Entries(after, b)) + Once(b, ToSet(tables[s])) =
              Cardinality(Entries(tables, b)) + Once(b, ToSet(t))
<1>1. /\ IsFiniteSet({r \in SeqIds : after[r] # <<>>})
      /\ \A c \in Blocks :
           /\ Cardinality(Entries(tables, c)) \in Nat
           /\ Cardinality(Entries(after, c)) \in Nat
           /\ Cardinality(Entries(after, c)) + Once(c, ToSet(tables[s])) =
                Cardinality(Entries(tables, c)) + Once(c, ToSet(t))
  BY EntriesReplaced
<1> QED BY <1>1

-----------------------------------------------------------------------------
(* What the state tells. *)
LEMMA Sizes ==
  /\ NumBlocks \in Nat \ {0} /\ BlockSize \in Nat \ {0}
  /\ \A p \in Prompts \cup {NoPrompt} : p.full \in Seq(Contents) /\ p.tail \in 0..BlockSize
<1>1. <<>> \in Seq(Contents) /\ 0 \in 0..BlockSize
  BY KVAssumption
<1>2. \A p \in Prompts : p.full \in Seq(Contents) /\ p.tail \in 0..BlockSize
  BY KVAssumption
<1>3. NoPrompt.full \in Seq(Contents) /\ NoPrompt.tail \in 0..BlockSize
  BY <1>1 DEF NoPrompt
<1> QED BY <1>2, <1>3, KVAssumption

LEMMA UsedInTables ==
  ASSUME KVInv, NEW s \in SeqIds, NEW b \in ToSet(page_tables[s])
  PROVE  b \in Blocks /\ physical_blocks[b].ref > 0 /\ b \in Used
<1>1. b \in Blocks
  BY DEF KVInv, KVTypes, ToSet
<1>2. /\ page_tables \in [SeqIds -> Seq(Blocks)] /\ IsInjective(page_tables[s])
      /\ IsFiniteSet({r \in SeqIds : page_tables[r] # <<>>})
  BY DEF KVInv, KVTypes, Tables, Counts, Registered
<1>3. /\ Cardinality(Others(page_tables, s, b)) \in Nat
      /\ Cardinality(Entries(page_tables, b)) =
           Cardinality(Others(page_tables, s, b)) + Once(b, ToSet(page_tables[s]))
  BY <1>2, EntriesCounted
<1>4. /\ physical_blocks[b].ref = orphans[b] + Cardinality(Entries(page_tables, b))
      /\ orphans[b] \in Nat
  BY <1>1 DEF KVInv, KVTypes, Counts
<1> QED BY <1>1, <1>3, <1>4 DEF Once, Used

(* One table is replaced, and the references move with its entries. *)
ReferencesMove(s, t) ==
  /\ s \in SeqIds /\ t \in Seq(Blocks) /\ IsInjective(t)
  /\ page_tables' = [page_tables EXCEPT ![s] = t]
  /\ orphans' \in [Blocks -> Nat]
  /\ \A b \in Blocks :
       /\ physical_blocks'[b].ref \in Nat
       /\ physical_blocks'[b].ref + Once(b, ToSet(page_tables[s])) + orphans[b] =
            physical_blocks[b].ref + Once(b, ToSet(t)) + orphans'[b]
LEMMA CountsMove ==
  ASSUME KVInv, NEW s, NEW t, ReferencesMove(s, t)
  PROVE  Counts'
<1> USE DEF ReferencesMove
<1>1. /\ IsFiniteSet({r \in SeqIds : page_tables[r] # <<>>})
      /\ \A b \in Blocks :
           physical_blocks[b].ref = orphans[b] + Cardinality(Entries(page_tables, b))
  BY DEF KVInv, Counts, Registered
<1>2. Replaces(page_tables, s, t, page_tables')
  BY <1>1 DEF Replaces, KVInv, KVTypes, Tables
<1>3. /\ IsFiniteSet({r \in SeqIds : page_tables'[r] # <<>>})
      /\ \A b \in Blocks :
           /\ Cardinality(Entries(page_tables, b)) \in Nat
           /\ Cardinality(Entries(page_tables', b)) \in Nat
           /\ Cardinality(Entries(page_tables', b)) + Once(b, ToSet(page_tables[s])) =
                Cardinality(Entries(page_tables, b)) + Once(b, ToSet(t))
  <2>1. PICK tables, after : tables = page_tables /\ after = page_tables'
    OBVIOUS
  <2>2. Replaces(tables, s, t, after)
    BY <1>2, <2>1
  <2>3. /\ IsFiniteSet({r \in SeqIds : after[r] # <<>>})
        /\ \A b \in Blocks :
             /\ Cardinality(Entries(tables, b)) \in Nat
             /\ Cardinality(Entries(after, b)) \in Nat
             /\ Cardinality(Entries(after, b)) + Once(b, ToSet(tables[s])) =
                  Cardinality(Entries(tables, b)) + Once(b, ToSet(t))
    BY ONLY <2>2, EntriesReplaced
  <2> QED BY <2>1, <2>3
<1>4. ASSUME NEW b \in Blocks
      PROVE  physical_blocks'[b].ref = orphans'[b] + Cardinality(Entries(page_tables', b))
  <2>1. PICK r1 \in Nat : r1 = physical_blocks'[b].ref
    OBVIOUS
  <2>2. PICK o0 \in Nat, o1 \in Nat : o0 = orphans[b] /\ o1 = orphans'[b]
    BY DEF KVInv, KVTypes
  <2>3. PICK e0 \in Nat, e1 \in Nat :
          /\ e0 = Cardinality(Entries(page_tables, b))
          /\ e1 = Cardinality(Entries(page_tables', b))
    BY <1>3
  <2>4. PICK x0 \in Nat, x1 \in Nat :
          x0 = Once(b, ToSet(page_tables[s])) /\ x1 = Once(b, ToSet(t))
    BY DEF Once
  <2>5. r1 + x0 + o0 = (o0 + e0) + x1 + o1
    BY <1>1, <2>1, <2>2, <2>3, <2>4
  <2>6. e1 + x0 = e0 + x1
    BY <1>3, <2>3, <2>4
  <2>7. r1 = o1 + e1
    BY ONLY <2>5, <2>6, r1 \in Nat, o0 \in Nat, o1 \in Nat, e0 \in Nat, e1 \in Nat,
            x0 \in Nat, x1 \in Nat
  <2> QED BY <2>1, <2>2, <2>3, <2>7
<1>5. /\ IsFiniteSet(Registered)'
      /\ \A b \in Blocks : Cardinality(Entries(page_tables, b))' \in Nat
  BY <1>3 DEF Registered, Entries
<1>6. \A b \in Blocks :
        physical_blocks'[b].ref = orphans'[b] + Cardinality(Entries(page_tables, b))'
  BY <1>4 DEF Entries
<1> QED BY <1>5, <1>6 DEF Counts

LEMMA HomesOf ==
  ASSUME KVInv
  PROVE  /\ free_block_stack \in Seq(Blocks) /\ lru_list \in Seq(Blocks)
         /\ IsInjective(free_block_stack) /\ IsInjective(lru_list)
         /\ ToSet(free_block_stack) \cap ToSet(lru_list) = {}
         /\ ToSet(free_block_stack) \subseteq Blocks /\ ToSet(lru_list) \subseteq Blocks
         /\ \A b \in Blocks : physical_blocks[b].ref \in Nat
         /\ \A b \in ToSet(free_block_stack) \cup ToSet(lru_list) :
              physical_blocks[b].ref = 0
         /\ \A b \in Blocks : physical_blocks[b].ref = 0 =>
              b \in ToSet(free_block_stack) \cup ToSet(lru_list)
<1>1. free_block_stack \in Seq(Blocks) /\ lru_list \in Seq(Blocks)
  BY DEF KVInv, KVTypes
<1>2. ToSet(free_block_stack) \subseteq Blocks /\ ToSet(lru_list) \subseteq Blocks
  BY <1>1 DEF ToSet
<1>3. \A b \in Blocks : physical_blocks[b].ref \in Nat
  BY DEF KVInv, KVTypes, Block
<1>4. \A b \in Blocks : b \in Used <=> physical_blocks[b].ref # 0
  BY <1>3 DEF Used
<1> QED BY <1>1, <1>2, <1>3, <1>4 DEF KVInv, Places

(* Blocks taken from the stack and the LRU list, and cached ones that are  *)
(* referenced again, leave both; the counts of both rise by one.           *)
Takes(mb, new) ==
  /\ mb \in Seq(Blocks) /\ new \in Seq(Blocks) /\ IsInjective(mb \o new)
  /\ ToSet(mb) \cap ToSet(free_block_stack) = {}
  /\ ToSet(new) \subseteq ToSet(free_block_stack) \cup ToSet(lru_list)
  /\ free_block_stack' \in Seq(Blocks) /\ IsInjective(free_block_stack')
  /\ ToSet(free_block_stack') = ToSet(free_block_stack) \ ToSet(new)
  /\ lru_list' \in Seq(Blocks) /\ IsInjective(lru_list')
  /\ ToSet(lru_list') = (ToSet(lru_list) \ ToSet(mb)) \ ToSet(new)
  /\ physical_blocks' \in [Blocks -> Block]
  /\ \A b \in Blocks :
       physical_blocks'[b].ref = physical_blocks[b].ref + Once(b, ToSet(mb \o new))

LEMMA TakesPlaces ==
  ASSUME KVInv, NEW mb, NEW new, Takes(mb, new)
  PROVE  Places'
<1>1. ToSet(mb \o new) = ToSet(mb) \cup ToSet(new)
  BY ConcatFacts DEF Takes
<1>2. \A b \in Blocks : /\ physical_blocks[b].ref \in Nat
                        /\ Once(b, ToSet(mb \o new)) \in Nat
                        /\ Once(b, ToSet(mb \o new)) > 0 <=> b \in ToSet(mb) \cup ToSet(new)
  BY <1>1, HomesOf DEF Once
<1>3. Used' = {b \in Blocks : physical_blocks'[b].ref > 0}
  BY DEF Used
<1>4. \A b \in Blocks : physical_blocks'[b].ref > 0 <=>
        physical_blocks[b].ref > 0 \/ b \in ToSet(mb) \cup ToSet(new)
  BY <1>2 DEF Takes
<1>5. ToSet(mb) \cup ToSet(new) \subseteq Blocks
  BY DEF Takes, ToSet
<1>6. Used' = Used \cup ToSet(mb) \cup ToSet(new)
  BY <1>3, <1>4, <1>5 DEF Used
<1>7. /\ ToSet(free_block_stack') = ToSet(free_block_stack) \ ToSet(new)
      /\ ToSet(lru_list') = (ToSet(lru_list) \ ToSet(mb)) \ ToSet(new)
      /\ ToSet(mb) \cap ToSet(free_block_stack) = {}
  BY DEF Takes
<1>8. /\ IsInjective(free_block_stack)' /\ IsInjective(lru_list)'
  BY DEF Takes, IsInjective
<1>9. ToSet(free_block_stack)' = ToSet(free_block_stack') /\ ToSet(lru_list)' = ToSet(lru_list')
  BY DEF ToSet
<1>10. /\ ToSet(free_block_stack) \cap ToSet(lru_list) = {}
       /\ Used \cap (ToSet(free_block_stack) \cup ToSet(lru_list)) = {}
       /\ ToSet(free_block_stack) \cup ToSet(lru_list) \cup Used = Blocks
  BY DEF KVInv, Places
<1> DEFINE f == ToSet(free_block_stack)
           l == ToSet(lru_list)
           f1 == ToSet(free_block_stack')
           l1 == ToSet(lru_list')
<1>11. f1 \cap l1 = {}
  BY <1>7, <1>10
<1>12. Used' \cap (f1 \cup l1) = {}
  BY <1>6, <1>7, <1>10
<1>13. f1 \cup l1 \cup Used' = Blocks
  BY <1>5, <1>6, <1>7, <1>10
<1> HIDE DEF f1, l1
<1> QED BY <1>8, <1>9, <1>11, <1>12, <1>13 DEF Places, f1, l1

-----------------------------------------------------------------------------
(* Paths of prompts, and the blocks the walk down the tree finds.          *)
LEMMA PathFacts ==
  ASSUME NEW p \in Prompts \cup {NoPrompt}, NEW k \in 0..Len(p.full)
  PROVE  /\ Len(p.full) \in Nat
         /\ Path(p, k) \in Seq(Contents) /\ Len(Path(p, k)) = k
         /\ k > 0 => Path(p, k) # <<>>
         /\ \A j \in 0..k : SubSeq(Path(p, k), 1, j) = Path(p, j)
<1>1. PICK f \in Seq(Contents) : f = p.full
  BY Sizes
<1>2. Len(f) \in Nat /\ k \in 0..Len(f)
  BY <1>1
<1>3. /\ SubSeq(f, 1, k) \in Seq(Contents) /\ Len(SubSeq(f, 1, k)) = k
      /\ \A i \in 1..k : SubSeq(f, 1, k)[i] = f[i]
  BY <1>2, PartFacts
<1>4. k > 0 => SubSeq(f, 1, k) # <<>>
  <2>1. Len(<<>>) = 0
    OBVIOUS
  <2> QED BY <1>2, <1>3, <2>1
<1>5. ASSUME NEW j \in 0..k PROVE SubSeq(SubSeq(f, 1, k), 1, j) = SubSeq(f, 1, j)
  <2>1. PICK g \in Seq(Contents) : g = SubSeq(f, 1, k)
    BY <1>3
  <2>2. j \in 0..Len(g) /\ j \in 0..Len(f)
    BY <1>2, <1>3, <2>1
  <2>3. /\ SubSeq(g, 1, j) \in Seq(Contents) /\ Len(SubSeq(g, 1, j)) = j
        /\ \A i \in 1..j : SubSeq(g, 1, j)[i] = g[i]
    BY <2>2, PartFacts
  <2>4. /\ SubSeq(f, 1, j) \in Seq(Contents) /\ Len(SubSeq(f, 1, j)) = j
        /\ \A i \in 1..j : SubSeq(f, 1, j)[i] = f[i]
    BY <2>2, PartFacts
  <2>5. \A i \in 1..j : i \in 1..k /\ SubSeq(g, 1, j)[i] = SubSeq(f, 1, j)[i]
    BY <1>3, <2>1, <2>3, <2>4
  <2> QED BY <2>1, <2>3, <2>4, <2>5
<1> QED BY <1>1, <1>2, <1>3, <1>4, <1>5 DEF Path

LEMMA MatchedFacts ==
  ASSUME NEW p \in Prompts
  PROVE  /\ Matched(p) \in 0..Len(p.full) /\ Len(p.full) \in Nat
         /\ Matched(p) > 0 => EnablePrefixCaching
         /\ \A k \in 1..Matched(p) : Path(p, k) \in DOMAIN tree
         /\ EnablePrefixCaching /\ Matched(p) < Len(p.full) =>
              Path(p, Matched(p) + 1) \notin DOMAIN tree
<1>1. PICK n \in Nat : n = Len(p.full)
  BY Sizes
<1> DEFINE Fits(m) == /\ \A k \in 1..m : Path(p, k) \in DOMAIN tree
                      /\ m < n => Path(p, m + 1) \notin DOMAIN tree
<1>2. \E m \in 0..n : Fits(m)
  <2> DEFINE Ends == {m \in 0..n : m < n => Path(p, m + 1) \notin DOMAIN tree}
  <2>1. n \in Ends /\ Ends \in SUBSET Nat
    OBVIOUS
  <2>2. PICK m \in Ends : \A k \in Ends : m <= k
    <3> HIDE DEF Ends
    <3> QED BY <2>1, LeastNumber
  <2>3. \A k \in 1..m : k - 1 \in 0..n /\ k - 1 < n /\ ~(m <= k - 1) /\ (k - 1) + 1 = k
    BY <2>2
  <2>4. \A k \in 1..m : k - 1 \notin Ends
    <3> HIDE DEF Ends
    <3> QED BY <2>2, <2>3
  <2>5. \A k \in 1..m : Path(p, k) \in DOMAIN tree
    BY <2>3, <2>4
  <2> QED BY <2>2, <2>5
<1>3. CASE EnablePrefixCaching
  <2>1. Matched(p) = CHOOSE m \in 0..n : Fits(m)
    BY <1>1, <1>3 DEF Matched
  <2> HIDE DEF Fits
  <2>2. Matched(p) \in 0..n /\ Fits(Matched(p))
    BY <1>2, <2>1
  <2> USE DEF Fits
  <2> QED BY <1>1, <1>3, <2>2
<1>4. CASE ~EnablePrefixCaching
  <2>1. Matched(p) = 0
    BY <1>4 DEF Matched
  <2> QED BY <1>1, <1>4, <2>1
<1> QED BY <1>3, <1>4

(* Matched blocks hold the prefix they are found under: they are distinct, *)
(* full, and not on the free stack.                                        *)
LEMMA MatchedBlocksFacts ==
  ASSUME KVInv, NEW p \in Prompts, MatchIsCurrent(p),
         NEW mb, mb = MatchedBlocks(p)
  PROVE  /\ mb \in Seq(Blocks) /\ Len(mb) = Matched(p) /\ IsInjective(mb)
         /\ \A k \in 1..Matched(p) :
              /\ physical_blocks[mb[k]].hash = Path(p, k)
              /\ physical_blocks[mb[k]].filled = BlockSize
         /\ ToSet(mb) \cap ToSet(free_block_stack) = {}
         /\ ToSet(mb) = {mb[k] : k \in 1..Matched(p)}
<1>1. PICK m \in Nat : m = Matched(p) /\ m <= Len(p.full) /\ Len(p.full) \in Nat
  BY MatchedFacts
<1>2. \A k \in 1..m : Path(p, k) \in DOMAIN tree /\ EnablePrefixCaching
  BY <1>1, MatchedFacts
<1>3. \A k \in 1..m : tree[Path(p, k)] \in Blocks
  BY <1>2 DEF KVInv, KVTypes
<1>4. mb = [k \in 1..m |-> tree[Path(p, k)]]
  BY <1>1 DEF MatchedBlocks, NodeOf
<1>5. mb \in Seq(Blocks) /\ Len(mb) = m /\ DOMAIN mb = 1..m
  BY <1>3, <1>4
<1>6. \A k \in 1..m : physical_blocks[mb[k]].hash = Path(p, k)
  BY <1>1, <1>4 DEF MatchIsCurrent, NodeOf
<1>7. \A k \in 1..m : mb[k] \in Blocks /\ k \in 0..Len(p.full) /\ k > 0
  BY <1>1, <1>3, <1>4
<1>8. \A k \in 1..m : Len(Path(p, k)) = k /\ Path(p, k) # <<>>
  BY <1>7, PathFacts
<1>9. IsInjective(mb)
  BY <1>5, <1>6, <1>8 DEF IsInjective
<1>10. \A k \in 1..m : physical_blocks[mb[k]].filled = BlockSize
  BY <1>2, <1>6, <1>7, <1>8 DEF KVInv, Hashes
<1>11. \A k \in 1..m : mb[k] \notin ToSet(free_block_stack)
  BY <1>2, <1>6, <1>8 DEF KVInv, Hashes
<1>12. ToSet(mb) = {mb[k] : k \in 1..m}
  BY <1>5 DEF ToSet
<1> QED BY <1>1, <1>5, <1>6, <1>9, <1>10, <1>11, <1>12

-----------------------------------------------------------------------------
(* A registration: mb is what it matches, new what it allocates, the first *)
(* full of them for blocks that are full.                                  *)
RegistersBlocks(p, mb, new, full) ==
  /\ Takes(mb, new)
  /\ Len(p.full) \in Nat /\ full \in 0..Len(new) /\ Len(mb) + full <= Len(p.full)
  /\ Len(mb) > 0 => EnablePrefixCaching
  /\ Len(new) > full => Len(mb) + full = Len(p.full) /\ Len(new) = full + 1
  /\ \A k \in 1..Len(mb) : /\ physical_blocks[mb[k]].hash = Path(p, k)
                           /\ physical_blocks[mb[k]].filled = BlockSize
  /\ \A b \in Blocks \ ToSet(new) :
       /\ physical_blocks'[b].hash = physical_blocks[b].hash
       /\ physical_blocks'[b].filled = physical_blocks[b].filled
  /\ \A k \in 1..Len(new) :
       /\ k <= full => /\ physical_blocks'[new[k]].hash = Path(p, Len(mb) + k)
                       /\ physical_blocks'[new[k]].filled = BlockSize
       /\ k > full => /\ physical_blocks'[new[k]].filled = p.tail
                      /\ EnablePrefixCaching => physical_blocks'[new[k]].hash = <<>>

RegistersNodes(p, mb, new, full) ==
  /\ \A q \in DOMAIN tree' :
       \/ q \in DOMAIN tree /\ tree'[q] = tree[q]
       \/ \E k \in 1..full : q = Path(p, Len(mb) + k) /\ tree'[q] = new[k]
  /\ \A k \in 1..full : /\ Path(p, Len(mb) + k) \in DOMAIN tree'
                        /\ tree'[Path(p, Len(mb) + k)] = new[k]
  /\ EnablePrefixCaching =>
       /\ \A q \in DOMAIN tree : q \in DOMAIN tree' /\ tree'[q] = tree[q]
       /\ \A k \in 1..full : Path(p, Len(mb) + k) \notin DOMAIN tree

RegistersTable(s, p, mb, new, full) ==
  /\ page_tables[s] = <<>> /\ forked' = forked
  /\ \/ /\ Len(mb) + full = Len(p.full) /\ Len(mb \o new) > 0
        /\ Len(new) = full => p.tail = 0
        /\ page_tables' = [page_tables EXCEPT ![s] = mb \o new]
        /\ prompt' = [prompt EXCEPT ![s] = p]
        /\ tokens' = [tokens EXCEPT ![s] = Len(p.full) * BlockSize + p.tail]
        /\ outcome' = "ok" /\ orphans' = orphans
     \/ /\ orphans' = [b \in Blocks |-> orphans[b] + Once(b, ToSet(mb \o new))]
        /\ outcome' = "OutOfPages"
        /\ UNCHANGED <<page_tables, prompt, tokens>>

(* The assignments of a registration, its local variables as parameters. *)
RegisterStep(s, p, m, mb, lru, order, got, new, full, evicted) ==
  /\ page_tables[s] = <<>>
  /\ physical_blocks' = [b \in Blocks |->
       IF b \in ToSet(new)
       THEN LET k == CHOOSE i \in 1..got : new[i] = b
            IN  IF k <= full
                THEN [ref |-> 1, filled |-> BlockSize, hash |-> Path(p, m + k)]
                ELSE Allocated(b, evicted, p.tail)
       ELSE [physical_blocks[b] EXCEPT !.ref = @ + Occurrences(b, mb)]]
  /\ free_block_stack' = FreeAfter(free_block_stack, got)
  /\ lru_list' = LruAfter(free_block_stack, lru, order, got)
  /\ tree' = TreeWith(p, new, full)
  /\ UNCHANGED forked
  /\ IF got = BlocksNeeded(p)
     THEN /\ page_tables' = [page_tables EXCEPT ![s] = mb \o new]
          /\ prompt' = [prompt EXCEPT ![s] = p]
          /\ tokens' = [tokens EXCEPT ![s] = Len(p.full) * BlockSize + p.tail]
          /\ outcome' = "ok"
          /\ UNCHANGED orphans
     ELSE /\ orphans' = [b \in Blocks |-> orphans[b] + LostReferences(p, new)[b]]
          /\ outcome' = "OutOfPages"
          /\ UNCHANGED <<page_tables, prompt, tokens>>

LEMMA RegisterIsStep ==
  ASSUME NEW s, NEW p, Register(s, p), NEW m, NEW mb, NEW lru, NEW order, NEW got,
         NEW new, NEW full, NEW evicted,
         m = Matched(p), mb = MatchedBlocks(p), lru = LruAfterMatch(p),
         order = Allocatable(free_block_stack, lru),
         got = Smaller(BlocksNeeded(p), Len(order)),
         new = SubSeq(order, 1, got),
         full = Smaller(got, FreshFull(p)),
         evicted = EvictedBy(free_block_stack, order, got)
  PROVE  RegisterStep(s, p, m, mb, lru, order, got, new, full, evicted)
<1> DEFINE o == Allocatable(free_block_stack, LruAfterMatch(p))
           g == Smaller(BlocksNeeded(p), Len(o))
<1>1. RegisterStep(s, p, Matched(p), MatchedBlocks(p), LruAfterMatch(p), o, g,
                   SubSeq(o, 1, g), Smaller(g, FreshFull(p)),
                   EvictedBy(free_block_stack, o, g))
  BY ONLY Register(s, p) DEF Register, RegisterStep
<1> QED BY <1>1

LEMMA RegisterShape ==
  ASSUME KVInv, NEW s \in SeqIds, NEW p \in Prompts, MatchIsCurrent(p), Register(s, p)
  PROVE  \E mb \in Seq(Blocks), new \in Seq(Blocks), full \in Nat :
           /\ RegistersBlocks(p, mb, new, full)
           /\ RegistersNodes(p, mb, new, full)
           /\ RegistersTable(s, p, mb, new, full)
<1>1. PICK m \in Nat, n \in Nat :
        /\ m = Matched(p) /\ n = Len(p.full) /\ m <= n
        /\ m > 0 => EnablePrefixCaching
        /\ EnablePrefixCaching /\ m < n => Path(p, m + 1) \notin DOMAIN tree
  BY MatchedFacts
<1>2. PICK mb \in Seq(Blocks) :
        /\ mb = MatchedBlocks(p) /\ Len(mb) = m /\ IsInjective(mb)
        /\ \A k \in 1..m : /\ physical_blocks[mb[k]].hash = Path(p, k)
                           /\ physical_blocks[mb[k]].filled = BlockSize
        /\ ToSet(mb) \cap ToSet(free_block_stack) = {}
  BY <1>1, MatchedBlocksFacts
<1>3. PICK lru \in Seq(Blocks) :
        /\ lru = LruAfterMatch(p) /\ IsInjective(lru)
        /\ ToSet(lru) = ToSet(lru_list) \ ToSet(mb)
  <2>1. /\ LruAfterMatch(p) \in Seq(Blocks) /\ IsInjective(LruAfterMatch(p))
        /\ ToSet(LruAfterMatch(p)) = ToSet(lru_list) \cap (Blocks \ ToSet(mb))
    BY <1>2, HomesOf, FilteredFacts DEF LruAfterMatch
  <2> QED BY <2>1, HomesOf
<1>4. PICK free \in Seq(Blocks) : free = free_block_stack
  BY HomesOf
<1>5. /\ IsInjective(free) /\ ToSet(free) \cap ToSet(lru) = {} /\ Idle(lru)
  BY <1>3, <1>4, HomesOf DEF Idle
<1>6. PICK order : order = Allocatable(free, lru)
  OBVIOUS
<1>7. Len(order) \in Nat
  <2>1. Filtered(lru, {b \in Blocks : physical_blocks[b].ref = 0}) \in Seq(Blocks)
    BY FilteredFacts
  <2>2. order \in Seq(Blocks)
    BY <1>6, <2>1, ReverseFacts, ConcatFacts DEF Allocatable
  <2> QED BY <2>2
<1>8. PICK t \in {0, 1} :
        /\ BlocksNeeded(p) = (n - m) + t
        /\ t = 1 <=> p.tail > 0 \/ n = 0
  <2>1. BlocksNeeded(p) = (n - m) + (IF p.tail > 0 \/ n = 0 THEN 1 ELSE 0)
    BY <1>1 DEF BlocksNeeded, FreshFull
  <2> QED BY <2>1
<1>9. (n - m) + t \in Nat /\ n - m \in Nat
  BY <1>1
<1>10. PICK got \in Nat : got = Smaller(BlocksNeeded(p), Len(order))
         /\ got <= (n - m) + t /\ got <= Len(order)
  BY <1>7, <1>8, <1>9, SmallerFacts
<1>11. PICK full \in Nat : full = Smaller(got, n - m) /\ full <= got /\ full <= n - m
         /\ (full = got \/ full = n - m)
  BY <1>9, SmallerFacts
<1>12. PICK new : new = SubSeq(order, 1, got)
  OBVIOUS
<1>13. PICK evicted : evicted = EvictedBy(free, order, got)
  OBVIOUS
<1>14. /\ new \in Seq(Blocks) /\ Len(new) = got /\ IsInjective(new)
       /\ ToSet(new) \subseteq ToSet(free) \cup ToSet(lru)
       /\ FreeAfter(free, got) \in Seq(Blocks) /\ IsInjective(FreeAfter(free, got))
       /\ ToSet(FreeAfter(free, got)) = ToSet(free) \ ToSet(new)
       /\ LruAfter(free, lru, order, got) \in Seq(Blocks)
       /\ IsInjective(LruAfter(free, lru, order, got))
       /\ ToSet(LruAfter(free, lru, order, got)) = ToSet(lru) \ ToSet(new)
       /\ evicted = ToSet(new) \cap ToSet(lru)
  <2>1. IsInjective(free) /\ IsInjective(lru) /\ ToSet(free) \cap ToSet(lru) = {}
    BY <1>3, <1>5
  <2>2. got \in Nat /\ got <= Len(order)
    BY <1>10
  <2>3. Allocates(free, lru, order, got, new)
    BY <1>5, <1>6, <1>12, <2>1, <2>2 DEF Allocates
  <2> QED BY <1>13, <2>3, Allocation
<1>15. FreshFull(p) = n - m
  BY <1>1 DEF FreshFull
<1>16. RegisterStep(s, p, m, mb, lru, order, got, new, full, evicted)
  <2>1. got = Smaller(BlocksNeeded(p), Len(order)) /\ full = Smaller(got, FreshFull(p))
    BY <1>10, <1>11, <1>15
  <2>2. m = Matched(p) /\ mb = MatchedBlocks(p) /\ lru = LruAfterMatch(p)
    BY <1>1, <1>2, <1>3
  <2>3. order = Allocatable(free_block_stack, lru)
    BY <1>4, <1>6
  <2>4. evicted = EvictedBy(free_block_stack, order, got)
    BY <1>4, <1>13
  <2> QED BY <1>12, <2>1, <2>2, <2>3, <2>4, RegisterIsStep
<1> USE DEF RegisterStep
<1>17. DOMAIN new = 1..got
  BY <1>14
<1>18. \A k \in 1..got : /\ new[k] \in ToSet(new) /\ new[k] \in Blocks
                         /\ (CHOOSE i \in 1..got : new[i] = new[k]) = k
  <2>1. \A k \in 1..got : \A i \in 1..got : new[i] = new[k] => i = k
    BY <1>14, <1>17 DEF IsInjective
  <2>2. \A k \in 1..got : (CHOOSE i \in 1..got : new[i] = new[k]) = k
    BY <2>1
  <2> QED BY <1>14, <1>17, <2>2 DEF ToSet
<1>19. ToSet(new) \cap ToSet(mb) = {}
  BY <1>2, <1>3, <1>4, <1>14
<1>20. /\ mb \o new \in Seq(Blocks) /\ IsInjective(mb \o new)
       /\ ToSet(mb \o new) = ToSet(mb) \cup ToSet(new)
       /\ Len(mb \o new) = m + got
  <2>1. IsInjective(mb) /\ IsInjective(new) /\ new \in Seq(Blocks)
    BY <1>2, <1>14
  <2>2. ToSet(mb) \cap ToSet(new) = {}
    BY <1>19
  <2>3. /\ mb \o new \in Seq(Blocks) /\ Len(mb \o new) = Len(mb) + Len(new)
        /\ ToSet(mb \o new) = ToSet(mb) \cup ToSet(new)
        /\ IsInjective(mb \o new)
    BY ONLY <2>1, <2>2, ConcatFacts, mb \in Seq(Blocks)
  <2> QED BY <1>2, <1>14, <2>3
<1>21. \A b \in Blocks : Occurrences(b, mb) = Once(b, ToSet(mb))
  BY <1>2, OccursOnce
<1>22. \A b \in Blocks : Occurrences(b, mb \o new) = Once(b, ToSet(mb \o new))
  BY <1>20, OccursOnce
<1>23. ASSUME NEW b \in Blocks, b \notin ToSet(new)
       PROVE  /\ physical_blocks'[b] \in Block
              /\ physical_blocks'[b].ref = physical_blocks[b].ref + Once(b, ToSet(mb \o new))
              /\ physical_blocks'[b].hash = physical_blocks[b].hash
              /\ physical_blocks'[b].filled = physical_blocks[b].filled
  <2>1. PICK r \in Block : r = physical_blocks[b]
    BY DEF KVInv, KVTypes
  <2>2. physical_blocks'[b] = [r EXCEPT !.ref = @ + Once(b, ToSet(mb))]
    BY <1>16, <1>21, <1>23, <2>1
  <2>3. Once(b, ToSet(mb \o new)) = Once(b, ToSet(mb))
    BY <1>20, <1>23 DEF Once
  <2>4. Once(b, ToSet(mb)) \in Nat
    BY DEF Once
  <2>5. PICK n2 \in Nat : n2 = Once(b, ToSet(mb))
    BY ONLY <2>4
  <2>6. physical_blocks'[b] = [r EXCEPT !.ref = @ + n2]
    BY ONLY <2>2, <2>5
  <2> HIDE DEF Once
  <2>7. r.ref \in Nat /\ r.ref + n2 \in Nat /\ r.filled \in 0..BlockSize /\ r.hash \in Seq(Contents)
    BY ONLY <2>1 DEF Block
  <2>8. physical_blocks'[b] = [ref |-> r.ref + n2, filled |-> r.filled, hash |-> r.hash]
    BY ONLY <2>1, <2>6 DEF Block
  <2> QED BY ONLY <2>1, <2>3, <2>5, <2>7, <2>8 DEF Block
<1>24. \A b \in ToSet(new) : physical_blocks[b].ref = 0
  BY <1>3, <1>4, <1>14, HomesOf
<1>25. p.full \in Seq(Contents) /\ p.tail \in 0..BlockSize /\ BlockSize \in Nat
  BY Sizes
<1>26. ASSUME NEW k \in 1..got
       PROVE  /\ physical_blocks'[new[k]] \in Block
              /\ physical_blocks'[new[k]].ref = 1
              /\ k <= full => /\ physical_blocks'[new[k]].hash = Path(p, m + k)
                              /\ physical_blocks'[new[k]].filled = BlockSize
              /\ k > full => /\ physical_blocks'[new[k]].filled = p.tail
                             /\ EnablePrefixCaching => physical_blocks'[new[k]].hash = <<>>
  <2>1. physical_blocks'[new[k]] =
          IF k <= full
          THEN [ref |-> 1, filled |-> BlockSize, hash |-> Path(p, m + k)]
          ELSE Allocated(new[k], evicted, p.tail)
    BY <1>16, <1>18
  <2>2. CASE k <= full
    <3>1. m + k \in 0..n
      BY <1>1, <1>11, <2>2
    <3>2. Path(p, m + k) \in Seq(Contents)
      BY <1>1, <3>1, PathFacts
    <3> QED BY <1>25, <2>1, <2>2, <3>2 DEF Block
  <2>3. CASE ~(k <= full)
    <3>1. PICK h \in Seq(Contents) : h = physical_blocks[new[k]].hash
      BY <1>18 DEF KVInv, KVTypes, Block
    <3>2. physical_blocks'[new[k]] = [ref |-> 1, filled |-> p.tail,
                                      hash |-> IF new[k] \in evicted THEN <<>> ELSE h]
      BY <2>1, <2>3, <3>1 DEF Allocated
    <3>3. EnablePrefixCaching /\ new[k] \notin evicted => h = <<>>
      <4>1. new[k] \notin evicted => new[k] \in ToSet(free)
        BY <1>14, <1>18
      <4> QED BY <1>4, <3>1, <4>1 DEF KVInv, Hashes
    <3>4. <<>> \in Seq(Contents)
      OBVIOUS
    <3> QED BY <1>11, <1>25, <2>3, <3>1, <3>2, <3>3, <3>4 DEF Block
  <2> QED BY <2>2, <2>3
<1>27. \A b \in ToSet(new) : \E k \in 1..got : b = new[k]
  BY <1>17 DEF ToSet
<1>28. Takes(mb, new)
  <2>1. physical_blocks' \in [Blocks -> Block]
    <3>1. \A b \in Blocks : physical_blocks'[b] \in Block
      BY <1>23, <1>26, <1>27
    <3>2. physical_blocks' = [b \in Blocks |-> physical_blocks'[b]]
      BY <1>16
    <3> QED BY <3>1, <3>2
  <2>2. \A b \in Blocks :
          physical_blocks'[b].ref = physical_blocks[b].ref + Once(b, ToSet(mb \o new))
    <3>1. \A b \in ToSet(new) :
            physical_blocks'[b].ref = physical_blocks[b].ref + Once(b, ToSet(mb \o new))
      <4>1. SUFFICES ASSUME NEW b \in ToSet(new)
            PROVE  physical_blocks'[b].ref = physical_blocks[b].ref + Once(b, ToSet(mb \o new))
        OBVIOUS
      <4>2. PICK k \in 1..got : b = new[k]
        BY ONLY <1>27, <4>1
      <4>3. physical_blocks'[b].ref = 1
        BY <1>26, <4>2
      <4>4. physical_blocks[b].ref = 0
        BY <1>24
      <4>5. Once(b, ToSet(mb \o new)) = 1
        BY ONLY <1>20, <4>1 DEF Once
      <4> QED BY ONLY <4>3, <4>4, <4>5
    <3> QED BY <1>23, <3>1
  <2> QED BY <1>2, <1>3, <1>4, <1>14, <1>16, <1>20, <2>1, <2>2 DEF Takes
<1>29. RegistersBlocks(p, mb, new, full)
  <2>1. full \in 0..Len(new) /\ Len(mb) + full <= Len(p.full) /\ Len(p.full) \in Nat
    BY <1>1, <1>2, <1>11, <1>14
  <2>2. got > full => m + full = n /\ got = full + 1
    <3>1. t = 0 \/ t = 1
      OBVIOUS
    <3>2. /\ got <= (n - m) + t
          /\ full = got \/ full = n - m
      BY <1>10, <1>11
    <3> QED BY ONLY <3>1, <3>2, n \in Nat, m \in Nat, got \in Nat, full \in Nat
  <2>3. Len(new) > full => Len(mb) + full = Len(p.full) /\ Len(new) = full + 1
    BY <1>1, <1>2, <1>14, <2>2
  <2> QED BY <1>1, <1>2, <1>14, <1>23, <1>26, <1>28, <2>1, <2>3 DEF RegistersBlocks
<1>30. RegistersNodes(p, mb, new, full)
  <2> DEFINE kept == {q \in DOMAIN tree : full = 0 \/ ~IsPrefix(Path(p, m + 1), q)}
             added == {Path(p, m + k) : k \in 1..full}
  <2>1. tree' = [q \in kept \cup added |->
                   IF q \in added THEN new[Len(q) - m] ELSE tree[q]]
    BY <1>1, <1>16 DEF TreeWith
  <2>2. \A k \in 1..full : Len(Path(p, m + k)) = m + k /\ (m + k) - m = k /\ m + k \in 0..n
    <3>1. \A k \in 1..full : m + k \in 0..Len(p.full) /\ (m + k) - m = k
      BY <1>1, <1>11
    <3> QED BY <1>1, <3>1, PathFacts
  <2>3. \A q \in added : \E k \in 1..full : q = Path(p, m + k) /\ tree'[q] = new[k]
    <3> SUFFICES ASSUME NEW k \in 1..full PROVE tree'[Path(p, m + k)] = new[k]
      OBVIOUS
    <3>1. Path(p, m + k) \in added
      OBVIOUS
    <3> HIDE DEF added, kept
    <3> QED BY <2>1, <2>2, <3>1
  <2>4. \A k \in 1..full : Path(p, m + k) \in DOMAIN tree' /\ tree'[Path(p, m + k)] = new[k]
    <3> SUFFICES ASSUME NEW k \in 1..full
                 PROVE  Path(p, m + k) \in DOMAIN tree' /\ tree'[Path(p, m + k)] = new[k]
      OBVIOUS
    <3>1. Path(p, m + k) \in added
      OBVIOUS
    <3> HIDE DEF added, kept
    <3> QED BY <2>1, <2>2, <3>1
  <2>5. ASSUME EnablePrefixCaching, NEW k \in 1..full
        PROVE  Path(p, m + k) \notin DOMAIN tree
    <3>1. m < n /\ m + k \in 0..Len(p.full) /\ m + 1 \in 1..(m + k)
      <4>1. m \in Nat /\ n \in Nat /\ Len(p.full) = n
        BY <1>1
      <4>2. full \in Nat /\ full <= n - m
        BY <1>11
      <4> QED BY ONLY <4>1, <4>2, k \in 1..full
    <3>2. Path(p, m + 1) \notin DOMAIN tree
      BY <1>1, <2>5, <3>1
    <3>3. SubSeq(Path(p, m + k), 1, m + 1) = Path(p, m + 1) /\ Len(Path(p, m + k)) = m + k
      <4>1. m + 1 \in 0..(m + k)
        BY <3>1
      <4> QED BY <3>1, <4>1, PathFacts
    <3>4. \A q \in DOMAIN tree : \A j \in 1..Len(q) : SubSeq(q, 1, j) \in DOMAIN tree
      BY <2>5 DEF KVInv, Hashes
    <3> HIDE DEF RegisterStep
    <3> QED BY ONLY <3>1, <3>2, <3>3, <3>4
  <2>6. ASSUME EnablePrefixCaching, NEW q \in DOMAIN tree
        PROVE  q \in kept /\ q \notin added
    <3>1. q \notin added
      BY <2>5, <2>6
    <3>2. CASE full = 0
      BY <3>1, <3>2
    <3>3. CASE full # 0
      <4>1. m < n /\ m + 1 \in 0..Len(p.full)
        BY <1>1, <1>11, <3>3
      <4>2. Path(p, m + 1) \notin DOMAIN tree /\ Len(Path(p, m + 1)) = m + 1
        BY <1>1, <2>6, <4>1, PathFacts
      <4>3. ASSUME IsPrefix(Path(p, m + 1), q) PROVE FALSE
        <5>1. PICK g \in Seq(Contents) : g = q
          BY DEF KVInv, KVTypes
        <5>2. m + 1 <= Len(g) /\ SubSeq(Path(p, m + 1), 1, m + 1) = SubSeq(g, 1, m + 1)
          BY <4>2, <4>3, <5>1 DEF IsPrefix
        <5>3. m + 1 \in 0..(m + 1)
          OBVIOUS
        <5>4. SubSeq(Path(p, m + 1), 1, m + 1) = Path(p, m + 1)
          BY <4>1, <5>3, PathFacts
        <5>5. m + 1 \in 1..Len(g)
          BY <5>2
        <5>6. SubSeq(g, 1, m + 1) \in DOMAIN tree
          BY <2>6, <5>1, <5>5 DEF KVInv, Hashes
        <5> QED BY <4>2, <5>2, <5>4, <5>6
      <4> QED BY <3>1, <4>3
    <3> QED BY <3>2, <3>3
  <2>7. EnablePrefixCaching => \A q \in DOMAIN tree : q \in DOMAIN tree' /\ tree'[q] = tree[q]
    <3> SUFFICES ASSUME EnablePrefixCaching, NEW q \in DOMAIN tree
                 PROVE  q \in DOMAIN tree' /\ tree'[q] = tree[q]
      OBVIOUS
    <3>1. q \in kept /\ q \notin added
      BY <2>6
    <3> HIDE DEF kept, added
    <3> QED BY <2>1, <3>1
  <2>8. ASSUME NEW q \in DOMAIN tree', q \notin added
        PROVE  q \in DOMAIN tree /\ tree'[q] = tree[q]
    <3>1. q \in kept
      <4> HIDE DEF kept, added
      <4> QED BY <2>1, <2>8
    <3>2. q \in DOMAIN tree
      BY <3>1
    <3> HIDE DEF kept, added
    <3> QED BY <2>1, <2>8, <3>1, <3>2
  <2> HIDE DEF kept, added
  <2> QED BY <1>2, <2>3, <2>4, <2>5, <2>7, <2>8 DEF RegistersNodes
<1>31. RegistersTable(s, p, mb, new, full)
  <2>1. CASE got = BlocksNeeded(p)
    <3>1. got = (n - m) + t /\ full = n - m
      BY <1>8, <1>9, <1>11, <2>1
    <3>4. t = 0 \/ t = 1
      OBVIOUS
    <3>5. m + full = n /\ m + got = n + t
      BY ONLY <3>1, <3>4, n \in Nat, m \in Nat
    <3>6. t = 0 => n # 0 /\ p.tail = 0
      BY <1>8, <1>25
    <3>2. Len(mb) + full = Len(p.full) /\ Len(mb \o new) > 0
      <4>1. n + t > 0
        BY ONLY <3>4, <3>6, n \in Nat
      <4> QED BY <1>1, <1>2, <1>20, <3>5, <4>1
    <3>3. Len(new) = full => p.tail = 0
      <4>1. got = full => t = 0
        BY ONLY <3>4, <3>5, got \in Nat, full \in Nat, n \in Nat, m \in Nat
      <4> QED BY <1>14, <3>6, <4>1
    <3> QED BY <1>16, <2>1, <3>2, <3>3 DEF RegistersTable
  <2>2. CASE got # BlocksNeeded(p)
    <3>1. \A b \in Blocks : LostReferences(p, new)[b] = Once(b, ToSet(mb \o new))
      BY <1>2, <1>22 DEF LostReferences
    <3>2. orphans' = [b \in Blocks |-> orphans[b] + Once(b, ToSet(mb \o new))]
      BY <1>16, <2>2, <3>1
    <3> QED BY <1>16, <2>2, <3>2 DEF RegistersTable
  <2> QED BY <2>1, <2>2
<1> QED BY <1>2, <1>14, <1>29, <1>30, <1>31

(* A block in a page table is not one that is just allocated. *)
Registers(s, p, mb, new, full) ==
  /\ s \in SeqIds /\ p \in Prompts
  /\ mb \in Seq(Blocks) /\ new \in Seq(Blocks) /\ full \in Nat
  /\ RegistersBlocks(p, mb, new, full)
  /\ RegistersNodes(p, mb, new, full)
  /\ RegistersTable(s, p, mb, new, full)

LEMMA InTablesNotTaken ==
  ASSUME KVInv, NEW mb, NEW new, Takes(mb, new),
         NEW s \in SeqIds, NEW b \in ToSet(page_tables[s])
  PROVE  b \in Blocks \ ToSet(new)
<1>1. b \in Blocks /\ physical_blocks[b].ref > 0
  BY UsedInTables
<1>2. \A c \in ToSet(new) : physical_blocks[c].ref = 0
  BY HomesOf DEF Takes
<1> QED BY <1>1, <1>2

(* The entries of mb followed by new. *)
LEMMA Joined ==
  ASSUME NEW mb \in Seq(Blocks), NEW new \in Seq(Blocks), IsInjective(mb \o new)
  PROVE  /\ Len(mb) \in Nat /\ Len(new) \in Nat
         /\ mb \o new \in Seq(Blocks) /\ Len(mb \o new) = Len(mb) + Len(new)
         /\ DOMAIN (mb \o new) = 1..(Len(mb) + Len(new))
         /\ \A k \in 1..Len(mb) : /\ (mb \o new)[k] = mb[k]
                                  /\ mb[k] \in Blocks \ ToSet(new)
         /\ \A k \in 1..(Len(mb) + Len(new)) : k > Len(mb) =>
              k - Len(mb) \in 1..Len(new) /\ (mb \o new)[k] = new[k - Len(mb)]
<1>1. PICK m \in Nat : m = Len(mb) /\ DOMAIN mb = 1..m
  OBVIOUS
<1>2. PICK g \in Nat : g = Len(new) /\ DOMAIN new = 1..g
  OBVIOUS
<1>3. /\ mb \o new \in Seq(Blocks) /\ Len(mb \o new) = m + g
      /\ \A k \in 1..m : (mb \o new)[k] = mb[k]
      /\ \A k \in 1..g : (mb \o new)[m + k] = new[k]
  BY <1>1, <1>2, ConcatFacts
<1>4. DOMAIN (mb \o new) = 1..(m + g)
  BY <1>3
<1>5. \A k \in 1..(m + g) : k > m => k - m \in 1..g /\ m + (k - m) = k
  OBVIOUS
<1>6. \A k \in 1..(m + g) : k > m => (mb \o new)[k] = new[k - m]
  <2> SUFFICES ASSUME NEW k \in 1..(m + g), k > m PROVE (mb \o new)[k] = new[k - m]
    OBVIOUS
  <2>1. k - m \in 1..g /\ m + (k - m) = k
    BY <1>5
  <2>2. (mb \o new)[m + (k - m)] = new[k - m]
    BY <1>3, <2>1
  <2> QED BY <2>1, <2>2
<1>7. ASSUME NEW k \in 1..m PROVE mb[k] \in Blocks \ ToSet(new)
  <2>1. ASSUME NEW j \in 1..g, new[j] = mb[k] PROVE FALSE
    <3>1. m + j \in 1..(m + g) /\ k \in 1..(m + g) /\ m + j # k
      OBVIOUS
    <3>2. (mb \o new)[m + j] = (mb \o new)[k]
      BY <1>3, <2>1
    <3> QED BY <1>4, <3>1, <3>2 DEF IsInjective
  <2>2. mb[k] \in Blocks
    BY <1>1
  <2> QED BY <1>2, <2>1, <2>2 DEF ToSet
<1> QED BY <1>1, <1>2, <1>3, <1>4, <1>5, <1>6, <1>7

LEMMA RegistersHashes ==
  ASSUME KVInv, NEW s, NEW p, NEW mb, NEW new, NEW full, Registers(s, p, mb, new, full)
  PROVE  Hashes'
<1>1. PICK m \in Nat : m = Len(mb)
  BY DEF Registers
<1>2. /\ full \in Nat /\ full <= Len(new) /\ Len(new) \in Nat /\ m + full <= Len(p.full)
      /\ Len(p.full) \in Nat /\ p \in Prompts \cup {NoPrompt}
  BY <1>1 DEF Registers, RegistersBlocks
<1>3. /\ ToSet(lru_list') \subseteq ToSet(lru_list) \ ToSet(new)
      /\ ToSet(free_block_stack') \subseteq ToSet(free_block_stack) \ ToSet(new)
      /\ ToSet(lru_list) \subseteq Blocks /\ ToSet(free_block_stack) \subseteq Blocks
  BY HomesOf DEF Registers, RegistersBlocks, Takes
<1>4. \A b \in Blocks \ ToSet(new) :
        /\ physical_blocks'[b].hash = physical_blocks[b].hash
        /\ physical_blocks'[b].filled = physical_blocks[b].filled
  BY DEF Registers, RegistersBlocks
<1>5. \A b \in ToSet(lru_list') : EnablePrefixCaching /\ physical_blocks'[b].hash # <<>>
  BY <1>3, <1>4 DEF KVInv, Hashes
<1>6. ASSUME EnablePrefixCaching, NEW b \in ToSet(free_block_stack')
      PROVE  physical_blocks'[b].hash = <<>>
  BY <1>3, <1>4, <1>6 DEF KVInv, Hashes
<1>7. ASSUME EnablePrefixCaching, NEW b \in Blocks, physical_blocks'[b].hash # <<>>
      PROVE  /\ physical_blocks'[b].hash \in DOMAIN tree'
             /\ tree'[physical_blocks'[b].hash] = b
             /\ physical_blocks'[b].filled = BlockSize
  <2>1. CASE b \in ToSet(new)
    <3>1. PICK k \in 1..Len(new) : b = new[k]
      BY <2>1 DEF ToSet, Registers
    <3>2. k <= full
      BY <1>2, <1>7, <3>1 DEF Registers, RegistersBlocks
    <3>3. k \in 1..full
      BY <1>2, <3>2
    <3> QED BY <3>1, <3>3, SMTT(20) DEF Registers, RegistersBlocks, RegistersNodes
  <2>2. CASE b \notin ToSet(new)
    <3>1. /\ physical_blocks[b].hash \in DOMAIN tree
          /\ tree[physical_blocks[b].hash] = b
          /\ physical_blocks[b].filled = BlockSize
      BY <1>4, <1>7, <2>2 DEF KVInv, Hashes
    <3> QED BY <1>4, <1>7, <2>2, <3>1 DEF Registers, RegistersNodes
  <2> QED BY <2>1, <2>2
<1>8. ASSUME EnablePrefixCaching, NEW q \in DOMAIN tree', NEW j \in 1..Len(q)
      PROVE  SubSeq(q, 1, j) \in DOMAIN tree'
  <2>1. \A r \in DOMAIN tree : r \in DOMAIN tree'
    BY <1>8 DEF Registers, RegistersNodes
  <2>2. CASE q \in DOMAIN tree
    BY <1>8, <2>1, <2>2 DEF KVInv, Hashes
  <2>3. CASE \E k \in 1..full : q = Path(p, m + k)
    <3>1. PICK k \in 1..full : q = Path(p, m + k)
      BY <2>3
    <3>2. m + k \in 0..Len(p.full)
      BY <1>2
    <3>3. Len(q) = m + k
      BY <1>2, <3>1, <3>2, PathFacts
    <3>4. j \in 0..(m + k) /\ j \in 0..Len(p.full) /\ j > 0
      BY <1>2, <3>2, <3>3
    <3>5. SubSeq(q, 1, j) = Path(p, j)
      BY <1>2, <3>1, <3>2, <3>4, PathFacts
    <3>6. CASE j <= m
      <4>1. physical_blocks[mb[j]].hash = Path(p, j) /\ mb[j] \in Blocks
        BY <1>1, <3>4, <3>6 DEF Registers, RegistersBlocks
      <4>2. Path(p, j) # <<>>
        BY <1>2, <3>4, PathFacts
      <4> QED BY <1>8, <2>1, <3>5, <4>1, <4>2 DEF KVInv, Hashes
    <3>7. CASE j > m
      <4>1. j - m \in 1..full /\ m + (j - m) = j
        BY <1>2, <3>4, <3>7
      <4>2. Path(p, m + (j - m)) \in DOMAIN tree'
        BY <1>1, <4>1 DEF Registers, RegistersNodes
      <4> QED BY <3>5, <4>1, <4>2
    <3> QED BY <3>4, <3>6, <3>7
  <2> QED BY <1>1, <2>2, <2>3 DEF Registers, RegistersNodes
<1> QED BY <1>5, <1>6, <1>7, <1>8 DEF Hashes, ToSet

(* A sequence that is not the one registered keeps its table, and the      *)
(* blocks in it what they were.                                            *)
LEMMA RegistersElsewhere ==
  ASSUME KVInv, NEW s, NEW p, NEW mb, NEW new, NEW full, Registers(s, p, mb, new, full),
         NEW r \in SeqIds, page_tables'[r] = page_tables[r]
  PROVE  \A k \in DOMAIN page_tables[r] :
           /\ page_tables[r][k] \in Blocks \ ToSet(new)
           /\ physical_blocks'[page_tables[r][k]].hash = physical_blocks[page_tables[r][k]].hash
           /\ physical_blocks'[page_tables[r][k]].filled = physical_blocks[page_tables[r][k]].filled
<1>1. ASSUME NEW k \in DOMAIN page_tables[r] PROVE page_tables[r][k] \in Blocks \ ToSet(new)
  <2>1. page_tables[r][k] \in ToSet(page_tables[r])
    BY DEF ToSet
  <2> QED BY <2>1, InTablesNotTaken DEF Registers, RegistersBlocks
<1> QED BY <1>1 DEF Registers, RegistersBlocks

(* Only the sequence registered gets another table, if it gets one.        *)
LEMMA RegistersWhere ==
  ASSUME KVInv, NEW s, NEW p, NEW mb, NEW new, NEW full, Registers(s, p, mb, new, full)
  PROVE  /\ page_tables[s] = <<>> /\ forked' = forked
         /\ \A r \in SeqIds :
              \/ /\ page_tables'[r] = page_tables[r] /\ prompt'[r] = prompt[r]
                 /\ tokens'[r] = tokens[r]
              \/ /\ r = s /\ page_tables'[r] = mb \o new /\ prompt'[r] = p
                 /\ tokens'[r] = Len(p.full) * BlockSize + p.tail
                 /\ Len(mb) + full = Len(p.full) /\ Len(mb \o new) > 0
                 /\ Len(new) = full => p.tail = 0
BY DEF Registers, RegistersTable, KVInv, KVTypes

(* The entries of the table of the registered sequence.                    *)
LEMMA RegistersEntries ==
  ASSUME KVInv, NEW s, NEW p, NEW mb, NEW new, NEW full, Registers(s, p, mb, new, full),
         Len(mb) + full = Len(p.full)
  PROVE  \A k \in DOMAIN (mb \o new) :
           LET block == physical_blocks'[(mb \o new)[k]]
           IN  /\ k <= Len(p.full) => block.hash = Path(p, k) /\ block.filled = BlockSize
               /\ k > Len(p.full) => /\ EnablePrefixCaching => block.hash = <<>>
                                     /\ block.filled = p.tail
                                     /\ k = Len(mb \o new) /\ k = Len(p.full) + 1
               /\ k <= Len(mb) => /\ physical_blocks[(mb \o new)[k]].hash = Path(p, k)
                                  /\ EnablePrefixCaching
               /\ k > Len(mb) => (mb \o new)[k] \in ToSet(new)
<1>1. PICK m \in Nat, g \in Nat :
        /\ m = Len(mb) /\ g = Len(new) /\ DOMAIN new = 1..g
        /\ Len(mb \o new) = m + g /\ DOMAIN (mb \o new) = 1..(m + g)
        /\ \A k \in 1..m : (mb \o new)[k] = mb[k] /\ mb[k] \in Blocks \ ToSet(new)
        /\ \A k \in 1..(m + g) : k > m => k - m \in 1..g /\ (mb \o new)[k] = new[k - m]
  <2>1. mb \in Seq(Blocks) /\ new \in Seq(Blocks) /\ IsInjective(mb \o new)
    BY DEF Registers, RegistersBlocks, Takes
  <2>2. DOMAIN new = 1..Len(new)
    BY <2>1
  <2> QED BY <2>1, <2>2, Joined
<1>2. PICK n \in Nat : n = Len(p.full) /\ n = m + full /\ full \in Nat
  BY <1>1 DEF Registers, RegistersBlocks
<1>3. full <= g /\ (g > full => g = full + 1) /\ (m > 0 => EnablePrefixCaching)
  BY <1>1, <1>2 DEF Registers, RegistersBlocks
<1>4. SUFFICES ASSUME NEW k \in 1..(m + g)
      PROVE  LET block == physical_blocks'[(mb \o new)[k]]
             IN  /\ k <= n => block.hash = Path(p, k) /\ block.filled = BlockSize
                 /\ k > n => /\ EnablePrefixCaching => block.hash = <<>>
                             /\ block.filled = p.tail
                             /\ k = m + g /\ k = n + 1
                 /\ k <= m => /\ physical_blocks[(mb \o new)[k]].hash = Path(p, k)
                              /\ EnablePrefixCaching
                 /\ k > m => (mb \o new)[k] \in ToSet(new)
  BY <1>1, <1>2, SMTT(20)
<1>5. CASE k <= m
  <2>1. k \in 1..m /\ k <= n
    BY <1>2, <1>5
  <2>2. (mb \o new)[k] = mb[k] /\ mb[k] \in Blocks \ ToSet(new)
    BY <1>1, <2>1
  <2>3. physical_blocks[mb[k]].hash = Path(p, k) /\ physical_blocks[mb[k]].filled = BlockSize
    BY <1>1, <2>1 DEF Registers, RegistersBlocks
  <2>4. /\ physical_blocks'[mb[k]].hash = physical_blocks[mb[k]].hash
        /\ physical_blocks'[mb[k]].filled = physical_blocks[mb[k]].filled
    BY <2>2 DEF Registers, RegistersBlocks
  <2> QED BY <1>3, <2>1, <2>2, <2>3, <2>4
<1>6. CASE k > m
  <2>1. PICK i \in 1..g : i = k - m /\ m + i = k /\ (mb \o new)[k] = new[i] /\ new[i] \in ToSet(new)
    BY <1>1, <1>6 DEF ToSet
  <2>2. /\ i <= full <=> k <= n
        /\ i > full => k = m + g /\ k = n + 1
    BY <1>2, <1>3, <2>1, SMTT(20)
  <2>3. /\ i <= full => /\ physical_blocks'[new[i]].hash = Path(p, m + i)
                        /\ physical_blocks'[new[i]].filled = BlockSize
        /\ i > full => /\ physical_blocks'[new[i]].filled = p.tail
                       /\ EnablePrefixCaching => physical_blocks'[new[i]].hash = <<>>
    BY <1>1 DEF Registers, RegistersBlocks
  <2>4. i <= full \/ i > full
    BY <1>2
  <2> QED BY <1>2, <1>6, <2>1, <2>2, <2>3, <2>4, SMTT(20)
<1>7. k <= m \/ k > m
  OBVIOUS
<1> QED BY ONLY <1>5, <1>6, <1>7

LEMMA RegistersTables ==
  ASSUME KVInv, NEW s, NEW p, NEW mb, NEW new, NEW full, Registers(s, p, mb, new, full)
  PROVE  Tables'
<1>1. SUFFICES ASSUME NEW r \in SeqIds
      PROVE  /\ IsInjective(page_tables'[r])
             /\ Len(prompt'[r].full) <= Len(page_tables'[r])
             /\ \A k \in DOMAIN page_tables'[r] :
                  LET block == physical_blocks'[page_tables'[r][k]]
                  IN  /\ k <= Len(prompt'[r].full) => block.hash = Path(prompt'[r], k)
                      /\ k > Len(prompt'[r].full) /\ EnablePrefixCaching => block.hash = <<>>
                      /\ k < Len(page_tables'[r]) => block.filled = BlockSize
  BY DEF Tables, IsInjective, Path
<1>2. CASE page_tables'[r] = page_tables[r] /\ prompt'[r] = prompt[r]
  BY <1>2, RegistersElsewhere DEF KVInv, Tables
<1>3. CASE /\ page_tables'[r] = mb \o new /\ prompt'[r] = p
           /\ Len(mb) + full = Len(p.full)
  <2>1. /\ Len(mb \o new) = Len(mb) + Len(new) /\ Len(mb) \in Nat /\ Len(new) \in Nat
        /\ DOMAIN (mb \o new) = 1..(Len(mb) + Len(new))
        /\ IsInjective(mb \o new) /\ full \in Nat /\ full <= Len(new)
    BY Joined DEF Registers, RegistersBlocks, Takes
  <2>2. Len(p.full) <= Len(mb \o new)
    BY <1>3, <2>1
  <2>3. \A k \in DOMAIN (mb \o new) :
          /\ k <= Len(p.full) \/ k > Len(p.full)
          /\ k < Len(mb \o new) => k # Len(mb \o new)
    BY <1>3, <2>1
  <2>4. ASSUME NEW k \in DOMAIN (mb \o new)
        PROVE  /\ k <= Len(p.full) => physical_blocks'[(mb \o new)[k]].hash = Path(p, k)
               /\ k > Len(p.full) /\ EnablePrefixCaching =>
                    physical_blocks'[(mb \o new)[k]].hash = <<>>
               /\ k < Len(mb \o new) => physical_blocks'[(mb \o new)[k]].filled = BlockSize
    BY <1>3, <2>3, RegistersEntries
  <2> QED BY <1>3, <2>1, <2>2, <2>4
<1> QED BY <1>2, <1>3, RegistersWhere

LEMMA RegistersSharing ==
  ASSUME KVInv, NEW s, NEW p, NEW mb, NEW new, NEW full, Registers(s, p, mb, new, full)
  PROVE  Sharing'
<1>1. SUFFICES ASSUME NEW q \in SeqIds, NEW r \in SeqIds, q # r,
                      NEW i \in DOMAIN page_tables'[q], NEW j \in DOMAIN page_tables'[r],
                      page_tables'[q][i] = page_tables'[r][j]
      PROVE  /\ forked' = "no" => /\ EnablePrefixCaching
                                  /\ i <= Len(prompt'[q].full) /\ j <= Len(prompt'[r].full)
             /\ forked' # "partial" =>
                  physical_blocks'[page_tables'[q][i]].filled = BlockSize
  BY DEF Sharing
<1> DEFINE Kept(x) == page_tables'[x] = page_tables[x] /\ prompt'[x] = prompt[x]
           Made(x) == /\ x = s /\ page_tables'[x] = mb \o new /\ prompt'[x] = p
                      /\ Len(mb) + full = Len(p.full)
<1>2. ASSUME NEW x \in SeqIds, NEW y \in SeqIds, Made(x), Kept(y),
             NEW a \in DOMAIN page_tables'[x], NEW b \in DOMAIN page_tables'[y],
             page_tables'[x][a] = page_tables'[y][b]
      PROVE  /\ EnablePrefixCaching
             /\ a <= Len(prompt'[x].full) /\ b <= Len(prompt'[y].full)
             /\ physical_blocks'[page_tables'[x][a]].filled = BlockSize
  <2>1. /\ page_tables[y][b] \in Blocks \ ToSet(new) /\ b \in DOMAIN page_tables[y]
        /\ physical_blocks'[page_tables[y][b]].hash = physical_blocks[page_tables[y][b]].hash
    BY <1>2, RegistersElsewhere
  <2>2. /\ a \in DOMAIN (mb \o new) /\ (mb \o new)[a] = page_tables[y][b]
        /\ DOMAIN (mb \o new) = 1..(Len(mb) + Len(new)) /\ Len(mb) \in Nat /\ Len(new) \in Nat
    BY <1>2, Joined DEF Registers, RegistersBlocks, Takes
  <2>3. a <= Len(mb)
    BY <1>2, <2>1, <2>2, RegistersEntries
  <2>4. full \in Nat /\ Len(p.full) \in Nat /\ p \in Prompts \cup {NoPrompt}
    BY DEF Registers, RegistersBlocks
  <2>5. a <= Len(p.full) /\ a \in 0..Len(p.full) /\ a > 0
    BY <1>2, <2>2, <2>3, <2>4
  <2>6. /\ EnablePrefixCaching
        /\ physical_blocks'[(mb \o new)[a]].filled = BlockSize
        /\ physical_blocks[(mb \o new)[a]].hash = Path(p, a)
    BY <1>2, <2>2, <2>3, <2>5, RegistersEntries
  <2>7. Path(p, a) # <<>>
    BY <2>4, <2>5, PathFacts
  <2>8. ~(b > Len(prompt[y].full))
    BY <2>1, <2>2, <2>6, <2>7 DEF KVInv, Tables
  <2>9. b \in Nat /\ Len(prompt[y].full) \in Nat
    <3>1. prompt[y] \in Prompts \cup {NoPrompt} /\ page_tables[y] \in Seq(Blocks)
      BY DEF KVInv, KVTypes
    <3>2. Len(prompt[y].full) \in Nat
      BY <3>1, Sizes
    <3> QED BY <2>1, <3>1, <3>2
  <2> QED BY <1>2, <2>2, <2>5, <2>6, <2>8, <2>9
<1>3. /\ forked' = forked
      /\ Kept(q) \/ Made(q)
      /\ Kept(r) \/ Made(r)
  BY RegistersWhere
<1>4. CASE Kept(q) /\ Kept(r)
  <2>1. /\ physical_blocks'[page_tables[q][i]].filled = physical_blocks[page_tables[q][i]].filled
        /\ i \in DOMAIN page_tables[q] /\ j \in DOMAIN page_tables[r]
        /\ page_tables[q][i] = page_tables[r][j]
    BY <1>1, <1>4, RegistersElsewhere
  <2> QED BY <1>1, <1>3, <1>4, <2>1 DEF KVInv, Sharing
<1>5. CASE Made(q) /\ Kept(r)
  <2> HIDE DEF Kept, Made
  <2> QED BY <1>1, <1>2, <1>5
<1>6. CASE Kept(q) /\ Made(r)
  <2> HIDE DEF Kept, Made
  <2> QED BY <1>1, <1>2, <1>6
<1>7. ~(Made(q) /\ Made(r))
  BY <1>1
<1> QED BY <1>3, <1>4, <1>5, <1>6, <1>7

LEMMA RegistersCounts ==
  ASSUME KVInv, NEW s, NEW p, NEW mb, NEW new, NEW full, Registers(s, p, mb, new, full)
  PROVE  Counts'
<1>1. PICK t \in Seq(Blocks) : t = mb \o new /\ IsInjective(t)
  BY Joined DEF Registers, RegistersBlocks, Takes
<1>2. \A b \in Blocks : /\ physical_blocks'[b].ref = physical_blocks[b].ref + Once(b, ToSet(t))
                        /\ Once(b, ToSet(t)) \in Nat /\ orphans[b] \in Nat
  BY <1>1 DEF Registers, RegistersBlocks, Takes, Once, KVInv, KVTypes
<1>3. /\ IsFiniteSet({r \in SeqIds : page_tables[r] # <<>>})
      /\ \A b \in Blocks :
           /\ Cardinality(Entries(page_tables, b)) \in Nat
           /\ physical_blocks[b].ref = orphans[b] + Cardinality(Entries(page_tables, b))
  BY DEF KVInv, Counts, Registered
<1>5. CASE page_tables' = [page_tables EXCEPT ![s] = t] /\ orphans' = orphans
  <2>1. /\ page_tables \in [SeqIds -> Seq(Blocks)] /\ s \in SeqIds
        /\ page_tables[s] = <<>> /\ IsInjective(page_tables[s])
    BY RegistersWhere DEF KVInv, KVTypes, Tables, Registers
  <2>3. \A b \in Blocks : Once(b, ToSet(page_tables[s])) = 0 /\ physical_blocks[b].ref \in Nat
    BY <2>1, HomesOf DEF Once, ToSet
  <2>4. orphans' \in [Blocks -> Nat]
    BY <1>5 DEF KVInv, KVTypes
  <2>5. ReferencesMove(s, t)
    BY <1>1, <1>2, <1>5, <2>1, <2>3, <2>4, SMTT(20) DEF ReferencesMove
  <2> QED BY <2>5, CountsMove
<1>6. CASE /\ page_tables' = page_tables
           /\ orphans' = [b \in Blocks |-> orphans[b] + Once(b, ToSet(t))]
  <2>1. /\ IsFiniteSet({r \in SeqIds : page_tables'[r] # <<>>})
        /\ \A b \in Blocks :
             /\ Cardinality(Entries(page_tables', b)) \in Nat
             /\ physical_blocks'[b].ref = orphans'[b] + Cardinality(Entries(page_tables', b))
    BY <1>2, <1>3, <1>6, SMTT(20)
  <2> QED BY <2>1 DEF Counts, Registered, Entries
<1> QED BY <1>1, <1>5, <1>6 DEF Registers, RegistersTable

LEMMA RegistersLength ==
  ASSUME KVInv, NEW s, NEW p, NEW mb, NEW new, NEW full, Registers(s, p, mb, new, full)
  PROVE  ContextLengthExact'
<1>1. SUFFICES ASSUME forked' # "partial", NEW r \in SeqIds, page_tables'[r] # <<>>
      PROVE  (Len(page_tables'[r]) - 1) * BlockSize
                + physical_blocks'[Last(page_tables'[r])].filled = tokens'[r]
  BY DEF ContextLengthExact, ContextLength, Registered, Last
<1>2. CASE page_tables'[r] = page_tables[r] /\ tokens'[r] = tokens[r]
  <2>1. PICK t \in Seq(Blocks) : t = page_tables[r]
    BY DEF KVInv, KVTypes
  <2>2. Len(t) \in DOMAIN t
    BY <1>1, <1>2, <2>1
  <2>3. physical_blocks'[t[Len(t)]].filled = physical_blocks[t[Len(t)]].filled
    BY <1>2, <2>1, <2>2, RegistersElsewhere
  <2>4. (Len(t) - 1) * BlockSize + physical_blocks[t[Len(t)]].filled = tokens[r]
    BY <1>1, <1>2, <2>1, RegistersWhere DEF KVInv, ContextLengthExact, ContextLength, Registered, Last
  <2> QED BY <1>2, <2>1, <2>3, <2>4 DEF Last
<1>3. CASE /\ page_tables'[r] = mb \o new
           /\ tokens'[r] = Len(p.full) * BlockSize + p.tail
           /\ Len(mb) + full = Len(p.full) /\ Len(mb \o new) > 0
           /\ Len(new) = full => p.tail = 0
  <2>1. PICK m \in Nat, g \in Nat, n \in Nat, l \in Nat :
          /\ m = Len(mb) /\ g = Len(new) /\ n = Len(p.full) /\ m + full = n
          /\ l = Len(mb \o new) /\ l = m + g /\ DOMAIN (mb \o new) = 1..l /\ l > 0
          /\ full \in Nat /\ full <= g
    <3>1. mb \in Seq(Blocks) /\ new \in Seq(Blocks) /\ IsInjective(mb \o new)
      BY DEF Registers, RegistersBlocks, Takes
    <3>2. /\ Len(mb) \in Nat /\ Len(new) \in Nat
          /\ Len(mb \o new) = Len(mb) + Len(new)
          /\ DOMAIN (mb \o new) = 1..(Len(mb) + Len(new))
      BY <3>1, Joined
    <3>3. full \in Nat /\ full <= Len(new) /\ Len(p.full) \in Nat
      BY <3>2 DEF Registers, RegistersBlocks
    <3>4. /\ Len(mb) + full = Len(p.full) /\ Len(mb \o new) > 0
          /\ Len(mb) + Len(new) \in Nat
      BY <1>3, <3>2
    <3> QED BY <3>2, <3>3, <3>4
  <2>2. Last(page_tables'[r]) = (mb \o new)[l] /\ l \in DOMAIN (mb \o new)
    BY <1>3, <2>1 DEF Last
  <2>3. PICK f : f = physical_blocks'[(mb \o new)[l]].filled
    OBVIOUS
  <2>4. /\ l <= n => f = BlockSize
        /\ l > n => f = p.tail /\ l = n + 1
    <3>1. Len(mb) + full = Len(p.full)
      BY <1>3
    <3>2. LET block == physical_blocks'[(mb \o new)[l]]
          IN  /\ l <= Len(p.full) => block.filled = BlockSize
              /\ l > Len(p.full) => block.filled = p.tail /\ l = Len(p.full) + 1
      BY <2>2, <3>1, RegistersEntries
    <3> QED BY <2>1, <2>3, <3>2
  <2>5. BlockSize \in Nat /\ p.tail \in Nat
    BY Sizes DEF Registers
  <2>6. CASE l <= n
    <3>1. l = n /\ g = full
      BY ONLY <2>1, <2>6, m \in Nat, g \in Nat, n \in Nat, l \in Nat
    <3>2. (n - 1) * BlockSize + BlockSize = n * BlockSize + 0
      BY <2>5
    <3> QED BY <1>3, <2>1, <2>2, <2>3, <2>4, <2>5, <2>6, <3>1, <3>2
  <2>7. CASE l > n
    <3>1. l - 1 = n
      BY <2>4, <2>7
    <3> QED BY <1>3, <2>1, <2>2, <2>3, <2>4, <2>7, <3>1
  <2> QED BY <2>6, <2>7
<1> QED BY <1>2, <1>3, RegistersWhere

LEMMA RegistersTypes ==
  ASSUME KVInv, NEW s, NEW p, NEW mb, NEW new, NEW full, Registers(s, p, mb, new, full)
  PROVE  KVTypes'
<1>1. /\ physical_blocks' \in [Blocks -> Block]
      /\ free_block_stack' \in Seq(Blocks) /\ lru_list' \in Seq(Blocks)
  BY DEF Registers, RegistersBlocks, Takes
<1>2. \A q \in DOMAIN tree' : q \in Seq(Contents) /\ Len(q) > 0 /\ tree'[q] \in Blocks
  <2> SUFFICES ASSUME NEW q \in DOMAIN tree'
               PROVE  q \in Seq(Contents) /\ Len(q) > 0 /\ tree'[q] \in Blocks
    OBVIOUS
  <2>1. CASE q \in DOMAIN tree /\ tree'[q] = tree[q]
    BY <2>1 DEF KVInv, KVTypes
  <2>2. CASE \E k \in 1..full : q = Path(p, Len(mb) + k) /\ tree'[q] = new[k]
    <3>1. PICK k \in 1..full : q = Path(p, Len(mb) + k) /\ tree'[q] = new[k]
      BY <2>2
    <3>2. /\ p \in Prompts \cup {NoPrompt} /\ mb \in Seq(Blocks) /\ new \in Seq(Blocks)
          /\ full \in 0..Len(new) /\ Len(mb) + full <= Len(p.full) /\ Len(p.full) \in Nat
      BY DEF Registers, RegistersBlocks
    <3>3. PICK j : j = Len(mb) + k /\ j \in 0..Len(p.full) /\ j > 0 /\ k \in 1..Len(new)
      BY <3>2
    <3>4. Path(p, j) \in Seq(Contents) /\ Len(Path(p, j)) = j
      BY <3>2, <3>3, PathFacts
    <3>5. new[k] \in Blocks
      BY <3>2, <3>3
    <3> QED BY ONLY <3>1, <3>3, <3>4, <3>5
  <2> QED BY <2>1, <2>2 DEF Registers, RegistersNodes
<1>3. /\ page_tables' \in [SeqIds -> Seq(Blocks)]
      /\ prompt' \in [SeqIds -> Prompts \cup {NoPrompt}]
      /\ tokens' \in [SeqIds -> Nat]
  <2>1. mb \o new \in Seq(Blocks)
    BY Joined DEF Registers, RegistersBlocks, Takes
  <2>2. Len(p.full) * BlockSize + p.tail \in Nat
    <3>1. p \in Prompts \cup {NoPrompt}
      BY DEF Registers
    <3>2. p.full \in Seq(Contents) /\ BlockSize \in Nat /\ p.tail \in 0..BlockSize
      BY <3>1, Sizes
    <3>3. PICK n \in Nat, z \in Nat, a \in Nat : n = Len(p.full) /\ z = BlockSize /\ a = p.tail
      <4>1. Len(p.full) \in Nat /\ BlockSize \in Nat /\ p.tail \in Nat
        BY <3>2
      <4> QED BY ONLY <4>1
    <3>4. n * z + a \in Nat
      OBVIOUS
    <3> QED BY <3>3, <3>4
  <2> QED BY <2>1, <2>2 DEF Registers, RegistersTable, KVInv, KVTypes
<1>4. orphans' \in [Blocks -> Nat]
  <2>1. \A b \in Blocks : orphans[b] + Once(b, ToSet(mb \o new)) \in Nat
    BY DEF Once, KVInv, KVTypes
  <2> QED BY <2>1 DEF Registers, RegistersTable, KVInv, KVTypes
<1>5. outcome' \in {"ok", "OutOfPages"} /\ forked' \in {"no", "full", "partial"}
  BY DEF Registers, RegistersTable, KVInv, KVTypes
<1> QED BY <1>1, <1>2, <1>3, <1>4, <1>5 DEF KVTypes

LEMMA RegisterKeeps ==
  ASSUME KVInv, NEW s \in SeqIds, NEW p \in Prompts, MatchIsCurrent(p), Register(s, p)
  PROVE  KVInv'
<1>1. PICK mb, new, full : Registers(s, p, mb, new, full)
  BY RegisterShape DEF Registers
<1>2. Takes(mb, new)
  BY <1>1 DEF Registers, RegistersBlocks
<1> QED BY <1>1, <1>2, RegistersTypes, TakesPlaces, RegistersHashes, RegistersTables,
           RegistersCounts, RegistersSharing, RegistersLength DEF KVInv

-----------------------------------------------------------------------------
(* Appending: the last block of a table, and the blocks after it.          *)
LEMMA LastFacts ==
  ASSUME KVInv, NEW s \in Registered
  PROVE  /\ s \in SeqIds /\ page_tables[s] \in Seq(Blocks)
         /\ Len(page_tables[s]) \in DOMAIN page_tables[s] /\ Len(page_tables[s]) \in Nat
         /\ Last(page_tables[s]) = page_tables[s][Len(page_tables[s])]
         /\ Last(page_tables[s]) \in Blocks
         /\ Last(page_tables[s]) \in ToSet(page_tables[s])
         /\ physical_blocks[Last(page_tables[s])].filled \in 0..BlockSize
         /\ BlockSize \in Nat \ {0}
         /\ Available(s) = BlockSize - physical_blocks[Last(page_tables[s])].filled
<1>1. PICK t \in Seq(Blocks) : t = page_tables[s]
  BY DEF KVInv, KVTypes, Registered
<1>2. t # <<>>
  BY <1>1 DEF Registered
<1>3. Len(t) \in DOMAIN t /\ Len(t) \in Nat
  BY <1>2
<1>4. t[Len(t)] \in Blocks /\ t[Len(t)] \in ToSet(t) /\ Last(t) = t[Len(t)]
  BY <1>3 DEF ToSet, Last
<1>5. physical_blocks[t[Len(t)]].filled \in 0..BlockSize
  BY <1>4 DEF KVInv, KVTypes, Block
<1> QED BY <1>1, <1>3, <1>4, <1>5, Sizes DEF Registered, Available

(* A last block that is not full belongs to one sequence only, has no hash *)
(* and is last, as long as no partial block was shared.                    *)
LEMMA LastIsOwn ==
  ASSUME KVInv, NEW s \in Registered, Available(s) # 0
  PROVE  LET b == Last(page_tables[s])
         IN  /\ EnablePrefixCaching => physical_blocks[b].hash = <<>>
             /\ \A r \in SeqIds : \A k \in DOMAIN page_tables[r] :
                  page_tables[r][k] = b =>
                    /\ ~(k < Len(page_tables[r]))
                    /\ r # s => forked = "partial"
<1>1. PICK b : b = Last(page_tables[s]) /\ b \in Blocks
  BY LastFacts
<1>2. physical_blocks[b].filled # BlockSize
  BY <1>1, LastFacts
<1>3. EnablePrefixCaching => physical_blocks[b].hash = <<>>
  BY <1>1, <1>2 DEF KVInv, Hashes
<1>4. ASSUME NEW r \in SeqIds, NEW k \in DOMAIN page_tables[r], page_tables[r][k] = b
      PROVE  ~(k < Len(page_tables[r])) /\ (r # s => forked = "partial")
  <2>1. ~(k < Len(page_tables[r]))
    BY <1>2, <1>4 DEF KVInv, Tables
  <2>2. Len(page_tables[s]) \in DOMAIN page_tables[s] /\ s \in SeqIds
        /\ page_tables[s][Len(page_tables[s])] = b
    BY <1>1, LastFacts
  <2>3. r # s => forked = "partial"
    BY <1>2, <1>4, <2>2 DEF KVInv, Sharing
  <2> QED BY <2>1, <2>3
<1> QED BY <1>1, <1>3, <1>4

LEMMA AppendWithinKeeps ==
  ASSUME KVInv, NEW s \in Registered, NEW n \in AppendSizes, AppendWithinBlock(s, n)
  PROVE  KVInv'
<1>1. PICK b : b = Last(page_tables[s]) /\ b \in Blocks
  BY LastFacts
<1>2. n \in Nat /\ n > 0 /\ n <= Available(s)
  BY KVAssumption DEF AppendWithinBlock
<1>3. PICK f \in Nat : /\ f = physical_blocks[b].filled /\ f + n <= BlockSize
                       /\ f < BlockSize /\ BlockSize \in Nat /\ Available(s) # 0
  BY <1>1, <1>2, LastFacts
<1>4. /\ physical_blocks' = [physical_blocks EXCEPT ![b].filled = f + n]
      /\ tokens' = [tokens EXCEPT ![s] = @ + n] /\ outcome' = "ok"
      /\ UNCHANGED <<free_block_stack, lru_list, tree, page_tables, prompt, orphans, forked>>
  BY <1>1, <1>3 DEF AppendWithinBlock
<1>5. \A c \in Blocks :
        /\ physical_blocks'[c].ref = physical_blocks[c].ref
        /\ physical_blocks'[c].hash = physical_blocks[c].hash
        /\ c # b => physical_blocks'[c].filled = physical_blocks[c].filled
        /\ c = b => physical_blocks'[c].filled = f + n
  BY <1>1, <1>4 DEF KVInv, KVTypes, Block
<1>6. /\ EnablePrefixCaching => physical_blocks[b].hash = <<>>
      /\ \A r \in SeqIds : \A k \in DOMAIN page_tables[r] :
           page_tables[r][k] = b => /\ ~(k < Len(page_tables[r]))
                                    /\ r # s => forked = "partial"
  BY <1>1, <1>3, LastIsOwn
<1>7. KVTypes'
  <2>1. physical_blocks' \in [Blocks -> Block]
    <3>1. f + n \in 0..BlockSize
      BY <1>2, <1>3
    <3>2. physical_blocks \in [Blocks -> Block] /\ b \in Blocks
      BY <1>1 DEF KVInv, KVTypes
    <3>3. PICK r \in Block : r = physical_blocks[b]
      BY ONLY <3>2
    <3>4. [r EXCEPT !.filled = f + n] \in Block
      BY ONLY <3>1, <3>3 DEF Block
    <3>5. physical_blocks' = [physical_blocks EXCEPT ![b] = [r EXCEPT !.filled = f + n]]
      BY ONLY <1>4, <3>2, <3>3
    <3> QED BY ONLY <3>2, <3>4, <3>5
  <2>2. tokens' \in [SeqIds -> Nat]
    BY <1>2, <1>4, LastFacts DEF KVInv, KVTypes
  <2> QED BY <1>4, <2>1, <2>2 DEF KVInv, KVTypes
<1>8. Places'
  <2>1. Used' = Used
    BY <1>5 DEF Used
  <2> QED BY <1>4, <2>1 DEF KVInv, Places, ToSet, IsInjective
<1>9. Hashes'
  <2>1. ToSet(lru_list) \subseteq Blocks /\ ToSet(free_block_stack) \subseteq Blocks
    BY HomesOf
  <2>2. \A c \in ToSet(lru_list) : EnablePrefixCaching /\ physical_blocks'[c].hash # <<>>
    BY <1>5, <2>1 DEF KVInv, Hashes
  <2>3. EnablePrefixCaching =>
          /\ \A c \in ToSet(free_block_stack) : physical_blocks'[c].hash = <<>>
          /\ \A c \in Blocks : physical_blocks'[c].hash # <<>> =>
               /\ physical_blocks'[c].hash \in DOMAIN tree
               /\ tree[physical_blocks'[c].hash] = c
               /\ physical_blocks'[c].filled = BlockSize
    BY <1>5, <1>6, <2>1 DEF KVInv, Hashes
  <2> QED BY <1>4, <2>2, <2>3, SMTT(20) DEF KVInv, Hashes, ToSet
<1>10. \A r \in SeqIds : \A k \in DOMAIN page_tables[r] : page_tables[r][k] \in Blocks
  BY DEF KVInv, KVTypes
<1>11. Tables'
  <2>1. \A r \in SeqIds : \A k \in DOMAIN page_tables[r] :
          /\ physical_blocks'[page_tables[r][k]].hash = physical_blocks[page_tables[r][k]].hash
          /\ k < Len(page_tables[r]) =>
               physical_blocks'[page_tables[r][k]].filled = physical_blocks[page_tables[r][k]].filled
    BY <1>5, <1>6, <1>10
  <2> QED BY <1>4, <2>1 DEF KVInv, Tables, IsInjective, Path
<1>12. Counts'
  BY <1>4, <1>5 DEF KVInv, Counts, Registered, Entries
<1>13. Sharing'
  <2>1. ASSUME NEW q \in SeqIds, NEW r \in SeqIds, q # r,
               NEW i \in DOMAIN page_tables[q], NEW j \in DOMAIN page_tables[r],
               page_tables[q][i] = page_tables[r][j], forked # "partial"
        PROVE  physical_blocks'[page_tables[q][i]].filled = BlockSize
    <3>1. page_tables[q][i] # b
      BY <1>6, <2>1
    <3> QED BY <1>5, <1>10, <2>1, <3>1 DEF KVInv, Sharing
  <2> QED BY <1>4, <2>1 DEF KVInv, Sharing
<1>14. ContextLengthExact'
  <2>1. SUFFICES ASSUME forked # "partial", NEW r \in Registered
        PROVE  (Len(page_tables[r]) - 1) * BlockSize
                  + physical_blocks'[Last(page_tables[r])].filled = tokens'[r]
    BY <1>4 DEF ContextLengthExact, ContextLength, Registered, Last
  <2>2. r \in SeqIds /\ Len(page_tables[r]) \in Nat
    BY LastFacts
  <2>3. PICK z \in Int : z = (Len(page_tables[r]) - 1) * BlockSize
    BY <1>3, <2>2
  <2>4. z + physical_blocks[Last(page_tables[r])].filled = tokens[r] /\ tokens[r] \in Nat
    BY <2>1, <2>2, <2>3 DEF KVInv, KVTypes, ContextLengthExact, ContextLength
  <2>5. CASE r = s
    <3>1. tokens'[r] = tokens[r] + n
      BY <1>4, <2>2, <2>5 DEF KVInv, KVTypes
    <3> QED BY <1>1, <1>2, <1>3, <1>5, <2>3, <2>4, <2>5, <3>1
  <2>6. CASE r # s
    <3>1. Last(page_tables[r]) # b /\ Last(page_tables[r]) \in Blocks
      BY <1>6, <2>1, <2>2, <2>6, LastFacts
    <3> QED BY <1>4, <1>5, <2>2, <2>3, <2>4, <2>6, <3>1
  <2> QED BY <2>5, <2>6
<1> QED BY <1>7, <1>8, <1>9, <1>11, <1>12, <1>13, <1>14 DEF KVInv

(* How many blocks the rest of an append needs: all full but the last one. *)
LEMMA CeilFacts ==
  ASSUME NEW rest \in Nat \ {0}, NEW d \in Nat \ {0}
  PROVE  /\ CeilDiv(rest, d) \in Nat \ {0}
         /\ \A k \in 1..CeilDiv(rest, d) : (k - 1) * d \in Nat /\ (k - 1) * d < rest
         /\ \A k \in Nat : k < CeilDiv(rest, d) => k * d < rest
         /\ rest <= (CeilDiv(rest, d) - 1) * d + d
<1>1. PICK c \in Nat : c = CeilDiv(rest, d) /\ c * d <= rest + d - 1 /\ rest + d - 1 < c * d + d
  <2>1. \A x \in Nat : x \div d \in Nat /\ (x \div d) * d <= x /\ x < (x \div d) * d + d
    OBVIOUS
  <2>2. rest + d - 1 \in Nat
    OBVIOUS
  <2> QED BY <2>1, <2>2 DEF CeilDiv
<1>2. c # 0
  <2>1. 0 * d = 0
    OBVIOUS
  <2> QED BY <1>1, <2>1
<1>3. (c - 1) * d = c * d - d
  OBVIOUS
<1>4. c * d \in Nat
  OBVIOUS
<1>5. (c - 1) * d < rest /\ rest <= (c - 1) * d + d
  BY <1>1, <1>3, <1>4
<1>6. \A k \in Nat : k <= c - 1 => k * d <= (c - 1) * d /\ k * d \in Nat
  <2> SUFFICES ASSUME NEW k \in Nat, k <= c - 1 PROVE k * d <= (c - 1) * d /\ k * d \in Nat
    OBVIOUS
  <2>1. PICK e \in Nat : e = (c - 1) - k /\ c - 1 = k + e
    OBVIOUS
  <2>2. (k + e) * d = k * d + e * d /\ e * d \in Nat /\ k * d \in Nat
    OBVIOUS
  <2> QED BY <2>1, <2>2
<1>7. \A k \in Nat : k <= c - 1 => k * d < rest /\ k * d \in Nat
  <2>1. (c - 1) * d \in Int
    OBVIOUS
  <2> QED BY <1>5, <1>6, <2>1
<1>8. \A k \in 1..c : k - 1 \in Nat /\ k - 1 <= c - 1
  OBVIOUS
<1>9. \A k \in Nat : k < c => k <= c - 1
  OBVIOUS
<1> QED BY <1>1, <1>2, <1>5, <1>7, <1>8, <1>9

LEMMA FilledFacts ==
  ASSUME NEW rest \in Nat \ {0}, NEW k \in 1..CeilDiv(rest, BlockSize)
  PROVE  /\ FilledOf(rest, k) \in 0..BlockSize
         /\ k < CeilDiv(rest, BlockSize) => FilledOf(rest, k) = BlockSize
         /\ k = CeilDiv(rest, BlockSize) => FilledOf(rest, k) = rest - (k - 1) * BlockSize
<1>1. PICK d \in Nat \ {0} : d = BlockSize
  BY Sizes
<1>2. PICK c \in Nat : c = CeilDiv(rest, d) /\ k \in 1..c
  BY <1>1, CeilFacts
<1>3. PICK z \in Nat : z = (k - 1) * d /\ z < rest
  BY <1>2, CeilFacts
<1>4. FilledOf(rest, k) = IF rest - z <= d THEN rest - z ELSE d
  BY <1>1, <1>3 DEF FilledOf, Smaller
<1>5. k < c => FilledOf(rest, k) = d
  <2>1. k < c => k * d < rest
    BY <1>2, CeilFacts
  <2>2. k * d = z + d
    BY <1>3
  <2> QED BY <1>4, <2>1, <2>2
<1>6. k = c => FilledOf(rest, k) = rest - z
  <2>1. k = c => rest <= z + d
    BY <1>2, <1>3, CeilFacts
  <2> QED BY <1>4, <2>1
<1>7. FilledOf(rest, k) \in 0..d
  BY <1>3, <1>4
<1> QED BY <1>1, <1>2, <1>3, <1>5, <1>6, <1>7

(* An append beyond the last block, its local variables as parameters.     *)
AppendStep(s, n, rest, order, needed, got, new, evicted) ==
  /\ n > Available(s)
  /\ physical_blocks' = [b \in Blocks |->
       IF b \in ToSet(new)
       THEN Allocated(b, evicted, FilledOf(rest, CHOOSE i \in 1..got : new[i] = b))
       ELSE IF b = Last(page_tables[s])
            THEN [physical_blocks[b] EXCEPT !.filled = BlockSize]
            ELSE physical_blocks[b]]
  /\ free_block_stack' = FreeAfter(free_block_stack, got)
  /\ lru_list' = LruAfter(free_block_stack, lru_list, order, got)
  /\ page_tables' = [page_tables EXCEPT ![s] = @ \o new]
  /\ tokens' = [tokens EXCEPT ![s] =
       @ + (IF got = needed THEN n ELSE Available(s) + got * BlockSize)]
  /\ outcome' = IF got = needed THEN "ok" ELSE "OutOfPages"
  /\ UNCHANGED <<tree, prompt, orphans, forked>>

LEMMA AppendIsStep ==
  ASSUME NEW s, NEW n, AppendBeyondBlock(s, n), NEW rest, NEW order, NEW needed,
         NEW got, NEW new, NEW evicted,
         rest = n - Available(s),
         order = Allocatable(free_block_stack, lru_list),
         needed = CeilDiv(rest, BlockSize),
         got = Smaller(needed, Len(order)),
         new = SubSeq(order, 1, got),
         evicted = EvictedBy(free_block_stack, order, got)
  PROVE  AppendStep(s, n, rest, order, needed, got, new, evicted)
<1> DEFINE o == Allocatable(free_block_stack, lru_list)
           k == CeilDiv(n - Available(s), BlockSize)
           g == Smaller(k, Len(o))
<1>1. AppendStep(s, n, n - Available(s), o, k, g, SubSeq(o, 1, g),
                 EvictedBy(free_block_stack, o, g))
  BY ONLY AppendBeyondBlock(s, n) DEF AppendBeyondBlock, AppendStep
<1> QED BY <1>1

(* What an append beyond the last block does: new is what it allocates.    *)
Appends(s, n, old, new, last, rest) ==
  /\ s \in SeqIds /\ old \in Seq(Blocks) /\ new \in Seq(Blocks) /\ n \in Nat
  /\ rest \in Nat \ {0} /\ rest = n - Available(s)
  /\ old = page_tables[s] /\ last = old[Len(old)]
  /\ Takes(<<>>, new)
  /\ Len(new) <= CeilDiv(rest, BlockSize)
  /\ \A b \in Blocks \ ToSet(new) :
       /\ physical_blocks'[b].hash = physical_blocks[b].hash
       /\ physical_blocks'[b].filled =
            IF b = last THEN BlockSize ELSE physical_blocks[b].filled
  /\ \A k \in 1..Len(new) :
       /\ physical_blocks'[new[k]].filled = FilledOf(rest, k)
       /\ EnablePrefixCaching => physical_blocks'[new[k]].hash = <<>>
  /\ page_tables' = [page_tables EXCEPT ![s] = old \o new]
  /\ tokens' = [tokens EXCEPT ![s] =
       @ + (IF Len(new) = CeilDiv(rest, BlockSize)
            THEN n ELSE Available(s) + Len(new) * BlockSize)]
  /\ outcome' \in {"ok", "OutOfPages"}
  /\ UNCHANGED <<tree, prompt, orphans, forked>>

LEMMA AppendShape ==
  ASSUME KVInv, NEW s \in Registered, NEW n \in AppendSizes, AppendBeyondBlock(s, n)
  PROVE  \E old, new, last, rest : Appends(s, n, old, new, last, rest)
<1>1. PICK old \in Seq(Blocks), last \in Blocks :
        /\ old = page_tables[s] /\ last = old[Len(old)] /\ last = Last(page_tables[s])
        /\ physical_blocks[last].filled \in 0..BlockSize
        /\ BlockSize \in Nat \ {0} /\ Available(s) = BlockSize - physical_blocks[last].filled
  BY LastFacts
<1>2. n \in Nat /\ n > Available(s)
  BY KVAssumption DEF AppendBeyondBlock
<1>3. PICK rest \in Nat \ {0} : rest = n - Available(s)
  BY <1>1, <1>2
<1>4. PICK order : order = Allocatable(free_block_stack, lru_list)
  OBVIOUS
<1>5. Len(order) \in Nat
  <2>1. /\ Filtered(lru_list, {b \in Blocks : physical_blocks[b].ref = 0}) \in Seq(Blocks)
        /\ free_block_stack \in Seq(Blocks)
    BY HomesOf, FilteredFacts
  <2>2. order \in Seq(Blocks)
    BY <1>4, <2>1, ReverseFacts, ConcatFacts DEF Allocatable
  <2> QED BY <2>2
<1>6. PICK needed \in Nat : needed = CeilDiv(rest, BlockSize)
  BY <1>1, CeilFacts
<1>7. PICK got \in Nat : got = Smaller(needed, Len(order)) /\ got <= needed /\ got <= Len(order)
  BY <1>5, SmallerFacts
<1>8. PICK new, evicted : /\ new = SubSeq(order, 1, got)
                          /\ evicted = EvictedBy(free_block_stack, order, got)
  OBVIOUS
<1>9. AppendStep(s, n, rest, order, needed, got, new, evicted)
  BY <1>3, <1>4, <1>6, <1>7, <1>8, AppendIsStep
<1>10. Allocates(free_block_stack, lru_list, order, got, new)
  BY <1>4, <1>7, <1>8, HomesOf DEF Allocates, Idle
<1>11. /\ new \in Seq(Blocks) /\ Len(new) = got /\ IsInjective(new)
       /\ ToSet(new) \subseteq ToSet(free_block_stack) \cup ToSet(lru_list)
       /\ FreeAfter(free_block_stack, got) \in Seq(Blocks)
       /\ IsInjective(FreeAfter(free_block_stack, got))
       /\ ToSet(FreeAfter(free_block_stack, got)) = ToSet(free_block_stack) \ ToSet(new)
       /\ LruAfter(free_block_stack, lru_list, order, got) \in Seq(Blocks)
       /\ IsInjective(LruAfter(free_block_stack, lru_list, order, got))
       /\ ToSet(LruAfter(free_block_stack, lru_list, order, got)) =
            ToSet(lru_list) \ ToSet(new)
       /\ evicted = ToSet(new) \cap ToSet(lru_list)
  <2>1. PICK free, lru : free = free_block_stack /\ lru = lru_list
    OBVIOUS
  <2>2. Allocates(free, lru, order, got, new)
    BY <1>10, <2>1
  <2>3. /\ new \in Seq(Blocks) /\ Len(new) = got /\ IsInjective(new)
        /\ ToSet(new) \subseteq ToSet(free) \cup ToSet(lru)
        /\ FreeAfter(free, got) \in Seq(Blocks) /\ IsInjective(FreeAfter(free, got))
        /\ ToSet(FreeAfter(free, got)) = ToSet(free) \ ToSet(new)
        /\ LruAfter(free, lru, order, got) \in Seq(Blocks)
        /\ IsInjective(LruAfter(free, lru, order, got))
        /\ ToSet(LruAfter(free, lru, order, got)) = ToSet(lru) \ ToSet(new)
        /\ EvictedBy(free, order, got) = ToSet(new) \cap ToSet(lru)
    BY ONLY <2>2, Allocation
  <2> QED BY <1>8, <2>1, <2>3
<1>12. DOMAIN new = 1..got
  BY <1>11
<1>13. \A k \in 1..got : /\ new[k] \in ToSet(new) /\ new[k] \in Blocks
                         /\ (CHOOSE i \in 1..got : new[i] = new[k]) = k
  <2>1. \A k \in 1..got : \A i \in 1..got : new[i] = new[k] => i = k
    BY <1>11, <1>12 DEF IsInjective
  <2>2. \A k \in 1..got : (CHOOSE i \in 1..got : new[i] = new[k]) = k
    BY <2>1
  <2> QED BY <1>11, <1>12, <2>2 DEF ToSet
<1>14. ASSUME NEW b \in Blocks \ ToSet(new)
       PROVE  /\ physical_blocks'[b] \in Block
              /\ physical_blocks'[b].ref = physical_blocks[b].ref
              /\ physical_blocks'[b].hash = physical_blocks[b].hash
              /\ physical_blocks'[b].filled =
                   IF b = last THEN BlockSize ELSE physical_blocks[b].filled
  <2>1. PICK r \in Block : r = physical_blocks[b]
    BY DEF KVInv, KVTypes
  <2>2. physical_blocks'[b] = IF b = last THEN [r EXCEPT !.filled = BlockSize] ELSE r
    BY <1>1, <1>9, <2>1 DEF AppendStep
  <2>3. BlockSize \in 0..BlockSize
    BY <1>1
  <2> QED BY <2>1, <2>2, <2>3 DEF Block
<1>15. \A b \in ToSet(new) : physical_blocks[b].ref = 0
  BY <1>11, HomesOf
<1>16. ASSUME NEW k \in 1..got
       PROVE  /\ physical_blocks'[new[k]] \in Block
              /\ physical_blocks'[new[k]].ref = 1
              /\ physical_blocks'[new[k]].filled = FilledOf(rest, k)
              /\ EnablePrefixCaching => physical_blocks'[new[k]].hash = <<>>
  <2>1. physical_blocks'[new[k]] = Allocated(new[k], evicted, FilledOf(rest, k))
    BY <1>9, <1>13 DEF AppendStep
  <2>2. PICK h \in Seq(Contents) : h = physical_blocks[new[k]].hash
    BY <1>13 DEF KVInv, KVTypes, Block
  <2>3. physical_blocks'[new[k]] = [ref |-> 1, filled |-> FilledOf(rest, k),
                                    hash |-> IF new[k] \in evicted THEN <<>> ELSE h]
    BY <2>1, <2>2 DEF Allocated
  <2>4. EnablePrefixCaching /\ new[k] \notin evicted => h = <<>>
    <3>1. new[k] \notin evicted => new[k] \in ToSet(free_block_stack)
      BY <1>11, <1>13
    <3> QED BY <2>2, <3>1 DEF KVInv, Hashes
  <2>5. <<>> \in Seq(Contents)
    OBVIOUS
  <2>6. FilledOf(rest, k) \in 0..BlockSize
    <3>1. k \in 1..CeilDiv(rest, BlockSize)
      BY <1>6, <1>7
    <3> QED BY <3>1, FilledFacts
  <2> QED BY <2>2, <2>3, <2>4, <2>5, <2>6 DEF Block
<1>17. \A b \in ToSet(new) : \E k \in 1..got : b = new[k]
  BY <1>12 DEF ToSet
<1>18. <<>> \in Seq(Blocks) /\ <<>> \o new = new /\ ToSet(<<>>) = {}
  BY <1>11 DEF ToSet
<1>19. Takes(<<>>, new)
  <2>1. physical_blocks' \in [Blocks -> Block]
    <3>1. \A b \in Blocks : physical_blocks'[b] \in Block
      BY <1>14, <1>16, <1>17
    <3>2. physical_blocks' = [b \in Blocks |-> physical_blocks'[b]]
      BY <1>9 DEF AppendStep
    <3> QED BY <3>1, <3>2
  <2>2. \A b \in Blocks :
          physical_blocks'[b].ref = physical_blocks[b].ref + Once(b, ToSet(<<>> \o new))
    <3>1. \A b \in ToSet(new) :
            physical_blocks'[b].ref = physical_blocks[b].ref + Once(b, ToSet(new))
      BY <1>15, <1>16, <1>17 DEF Once
    <3>2. \A b \in Blocks \ ToSet(new) :
            physical_blocks'[b].ref = physical_blocks[b].ref + Once(b, ToSet(new))
      BY <1>14, HomesOf DEF Once
    <3> QED BY <1>18, <3>1, <3>2
  <2> QED BY <1>9, <1>11, <1>18, <2>1, <2>2 DEF Takes, AppendStep
<1>20. page_tables' = [page_tables EXCEPT ![s] = old \o new]
  BY <1>1, <1>9 DEF AppendStep
<1>21. tokens' = [tokens EXCEPT ![s] =
         @ + (IF Len(new) = CeilDiv(rest, BlockSize)
              THEN n ELSE Available(s) + Len(new) * BlockSize)]
  BY <1>6, <1>9, <1>11 DEF AppendStep
<1>22. outcome' \in {"ok", "OutOfPages"} /\ UNCHANGED <<tree, prompt, orphans, forked>>
  BY <1>9 DEF AppendStep
<1>23. Appends(s, n, old, new, last, rest)
  BY <1>1, <1>2, <1>3, <1>6, <1>7, <1>11, <1>14, <1>16, <1>19, <1>20, <1>21, <1>22
     DEF Appends, Registered
<1> QED BY <1>23

(* What an append beyond the last block leaves alone, and what it changes. *)
LEMMA AppendsBlocks ==
  ASSUME KVInv, NEW s, NEW n, NEW old, NEW new, NEW last, NEW rest,
         Appends(s, n, old, new, last, rest),
         NEW r \in SeqIds, NEW k \in DOMAIN page_tables[r]
  PROVE  LET b == page_tables[r][k]
         IN  /\ b \in Blocks \ ToSet(new)
             /\ physical_blocks'[b].hash = physical_blocks[b].hash
             /\ physical_blocks'[b].filled =
                  IF b = last THEN BlockSize ELSE physical_blocks[b].filled
<1>1. page_tables[r][k] \in ToSet(page_tables[r])
  BY DEF ToSet
<1>2. page_tables[r][k] \in Blocks \ ToSet(new)
  BY <1>1, InTablesNotTaken DEF Appends
<1> QED BY <1>2 DEF Appends

LEMMA AppendsTable ==
  ASSUME KVInv, NEW s, NEW n, NEW old, NEW new, NEW last, NEW rest,
         Appends(s, n, old, new, last, rest)
  PROVE  /\ old \o new \in Seq(Blocks) /\ IsInjective(old \o new)
         /\ ToSet(old \o new) = ToSet(old) \cup ToSet(new)
         /\ ToSet(old) \cap ToSet(new) = {} /\ old = page_tables[s] /\ s \in SeqIds
         /\ \A r \in SeqIds : page_tables'[r] = IF r = s THEN old \o new ELSE page_tables[r]
         /\ Len(old) \in Nat /\ Len(new) \in Nat /\ Len(old \o new) = Len(old) + Len(new)
         /\ DOMAIN old = 1..Len(old) /\ DOMAIN new = 1..Len(new)
         /\ DOMAIN (old \o new) = 1..(Len(old) + Len(new))
         /\ \A k \in 1..Len(old) : (old \o new)[k] = old[k]
         /\ \A k \in 1..(Len(old) + Len(new)) : k > Len(old) =>
              k - Len(old) \in 1..Len(new) /\ (old \o new)[k] = new[k - Len(old)]
<1>1. old \in Seq(Blocks) /\ new \in Seq(Blocks) /\ old = page_tables[s] /\ s \in SeqIds
  BY DEF Appends
<1>2. IsInjective(old)
  BY <1>1 DEF KVInv, Tables
<1>3. IsInjective(new)
  <2>1. <<>> \o new = new
    BY <1>1
  <2> QED BY <2>1 DEF Appends, Takes
<1>4. ToSet(old) \cap ToSet(new) = {}
  BY <1>1, InTablesNotTaken DEF Appends
<1>5. /\ old \o new \in Seq(Blocks) /\ IsInjective(old \o new)
      /\ ToSet(old \o new) = ToSet(old) \cup ToSet(new)
  BY ONLY <1>1, <1>2, <1>3, <1>4, ConcatFacts
<1>6. \A r \in SeqIds : page_tables'[r] = IF r = s THEN old \o new ELSE page_tables[r]
  <2>1. page_tables' = [page_tables EXCEPT ![s] = old \o new]
    BY DEF Appends
  <2>2. page_tables \in [SeqIds -> Seq(Blocks)]
    BY DEF KVInv, KVTypes
  <2> QED BY <1>1, <2>1, <2>2
<1>7. /\ Len(old) \in Nat /\ Len(new) \in Nat /\ Len(old \o new) = Len(old) + Len(new)
      /\ DOMAIN old = 1..Len(old) /\ DOMAIN new = 1..Len(new)
      /\ DOMAIN (old \o new) = 1..(Len(old) + Len(new))
      /\ \A k \in 1..Len(old) : (old \o new)[k] = old[k]
      /\ \A k \in 1..(Len(old) + Len(new)) : k > Len(old) =>
           k - Len(old) \in 1..Len(new) /\ (old \o new)[k] = new[k - Len(old)]
  <2>1. DOMAIN old = 1..Len(old) /\ DOMAIN new = 1..Len(new)
    BY <1>1
  <2> QED BY ONLY <1>1, <1>5, <2>1, Joined
<1> QED BY <1>1, <1>4, <1>5, <1>6, <1>7

LEMMA AppendsTables ==
  ASSUME KVInv, NEW s, NEW n, NEW old, NEW new, NEW last, NEW rest,
         Appends(s, n, old, new, last, rest)
  PROVE  Tables'
<1>1. SUFFICES ASSUME NEW r \in SeqIds
      PROVE  /\ IsInjective(page_tables'[r])
             /\ Len(prompt[r].full) <= Len(page_tables'[r])
             /\ \A k \in DOMAIN page_tables'[r] :
                  LET block == physical_blocks'[page_tables'[r][k]]
                  IN  /\ k <= Len(prompt[r].full) => block.hash = Path(prompt[r], k)
                      /\ k > Len(prompt[r].full) /\ EnablePrefixCaching => block.hash = <<>>
                      /\ k < Len(page_tables'[r]) => block.filled = BlockSize
  <2>1. prompt' = prompt
    BY DEF Appends
  <2> QED BY <2>1 DEF Tables, IsInjective, Path
<1>2. /\ IsInjective(page_tables[r]) /\ Len(prompt[r].full) <= Len(page_tables[r])
      /\ \A k \in DOMAIN page_tables[r] :
           /\ k <= Len(prompt[r].full) =>
                physical_blocks'[page_tables[r][k]].hash = Path(prompt[r], k)
           /\ k > Len(prompt[r].full) /\ EnablePrefixCaching =>
                physical_blocks'[page_tables[r][k]].hash = <<>>
           /\ k < Len(page_tables[r]) =>
                physical_blocks'[page_tables[r][k]].filled = BlockSize
  BY AppendsBlocks DEF KVInv, Tables
<1>3. CASE r # s
  <2>1. page_tables'[r] = page_tables[r]
    BY <1>3, AppendsTable
  <2> QED BY <1>2, <2>1
<1>4. CASE r = s
  <2>1. page_tables'[r] = old \o new /\ old = page_tables[r] /\ IsInjective(old \o new)
    <3>1. /\ page_tables'[r] = IF r = s THEN old \o new ELSE page_tables[r]
          /\ old = page_tables[s] /\ IsInjective(old \o new)
      BY AppendsTable
    <3> QED BY <1>4, <3>1
  <2>2. PICK m \in Nat, g \in Nat :
          /\ m = Len(old) /\ g = Len(new) /\ DOMAIN old = 1..m
          /\ Len(old \o new) = m + g /\ DOMAIN (old \o new) = 1..(m + g)
          /\ \A k \in 1..m : (old \o new)[k] = old[k]
          /\ \A k \in 1..(m + g) : k > m => k - m \in 1..g /\ (old \o new)[k] = new[k - m]
    BY AppendsTable
  <2>3. PICK n0 \in Nat : n0 = Len(prompt[r].full) /\ n0 <= m
    <3>1. prompt[r] \in Prompts \cup {NoPrompt}
      BY DEF KVInv, KVTypes
    <3>2. Len(prompt[r].full) \in Nat
      BY <3>1, Sizes
    <3> QED BY <1>2, <2>1, <2>2, <3>2
  <2>4. \A k \in 1..m : physical_blocks'[old[k]].filled = BlockSize
    <3>1. \A k \in 1..m : k < m \/ k = m
      BY <2>2
    <3>2. \A k \in 1..m : k < m => physical_blocks'[old[k]].filled = BlockSize
      BY <1>2, <2>1, <2>2
    <3>3. m \in 1..m => physical_blocks'[old[m]].filled = BlockSize
      <4>1. last = old[m]
        BY <2>2 DEF Appends
      <4> QED BY <2>1, <2>2, <4>1, AppendsBlocks
    <3> QED BY <3>1, <3>2, <3>3
  <2>5. PICK c \in Nat : c = CeilDiv(rest, BlockSize) /\ g <= c /\ rest \in Nat \ {0}
    <3>1. rest \in Nat \ {0} /\ Len(new) <= CeilDiv(rest, BlockSize)
      BY DEF Appends
    <3>2. CeilDiv(rest, BlockSize) \in Nat
      BY <3>1, CeilFacts, Sizes
    <3> QED BY <2>2, <3>1, <3>2
  <2>6. \A k \in 1..g : k < g => k < c /\ k \in 1..c
    BY <2>5
  <2>7. \A k \in 1..g : /\ k < g => physical_blocks'[new[k]].filled = BlockSize
                        /\ EnablePrefixCaching => physical_blocks'[new[k]].hash = <<>>
    <3>1. \A k \in 1..g : /\ physical_blocks'[new[k]].filled = FilledOf(rest, k)
                          /\ EnablePrefixCaching => physical_blocks'[new[k]].hash = <<>>
      BY <2>2 DEF Appends
    <3> QED BY <2>5, <2>6, <3>1, FilledFacts
  <2>8. ASSUME NEW k \in 1..(m + g)
        PROVE  /\ k <= n0 => physical_blocks'[(old \o new)[k]].hash = Path(prompt[r], k)
               /\ k > n0 /\ EnablePrefixCaching => physical_blocks'[(old \o new)[k]].hash = <<>>
               /\ k < m + g => physical_blocks'[(old \o new)[k]].filled = BlockSize
    <3>1. CASE k <= m
      <4>1. k \in 1..m /\ (old \o new)[k] = old[k] /\ k \in DOMAIN page_tables[r]
        BY <2>1, <2>2, <3>1
      <4> QED BY <1>2, <2>1, <2>3, <2>4, <4>1
    <3>2. CASE k > m
      <4>1. k - m \in 1..g /\ (old \o new)[k] = new[k - m] /\ ~(k <= n0)
        BY <2>2, <2>3, <3>2
      <4>2. k < m + g => k - m < g
        BY <3>2
      <4> QED BY <2>7, <4>1, <4>2
    <3>3. k <= m \/ k > m
      OBVIOUS
    <3> QED BY ONLY <3>1, <3>2, <3>3
  <2>9. n0 <= m + g
    BY <2>3
  <2>10. PICK t : t = old \o new
    OBVIOUS
  <2>11. IsInjective(t) /\ Len(t) = m + g /\ DOMAIN t = 1..(m + g) /\ page_tables'[r] = t
    BY <2>1, <2>2, <2>10
  <2>12. \A k \in 1..(m + g) :
           /\ k <= n0 => physical_blocks'[t[k]].hash = Path(prompt[r], k)
           /\ k > n0 /\ EnablePrefixCaching => physical_blocks'[t[k]].hash = <<>>
           /\ k < m + g => physical_blocks'[t[k]].filled = BlockSize
    BY <2>8, <2>10
  <2> QED BY <2>3, <2>9, <2>11, <2>12
<1> QED BY <1>3, <1>4

LEMMA AppendsSharing ==
  ASSUME KVInv, NEW s, NEW n, NEW old, NEW new, NEW last, NEW rest,
         Appends(s, n, old, new, last, rest)
  PROVE  Sharing'
<1>1. SUFFICES ASSUME NEW q \in SeqIds, NEW r \in SeqIds, q # r,
                      NEW i \in DOMAIN page_tables'[q], NEW j \in DOMAIN page_tables'[r],
                      page_tables'[q][i] = page_tables'[r][j]
      PROVE  /\ forked = "no" => /\ EnablePrefixCaching
                                 /\ i <= Len(prompt[q].full) /\ j <= Len(prompt[r].full)
             /\ forked # "partial" =>
                  physical_blocks'[page_tables'[q][i]].filled = BlockSize
  <2>1. prompt' = prompt /\ forked' = forked
    BY DEF Appends
  <2> QED BY <2>1 DEF Sharing
<1>2. /\ old = page_tables[s]
      /\ \A x \in SeqIds : page_tables'[x] = IF x = s THEN old \o new ELSE page_tables[x]
  BY AppendsTable
<1>3. PICK m \in Nat, g \in Nat :
        /\ m = Len(old) /\ g = Len(new) /\ DOMAIN old = 1..m /\ DOMAIN new = 1..g
        /\ DOMAIN (old \o new) = 1..(m + g)
        /\ \A k \in 1..m : (old \o new)[k] = old[k]
        /\ \A k \in 1..(m + g) : k > m => k - m \in 1..g /\ (old \o new)[k] = new[k - m]
  BY AppendsTable
<1>4. \A x \in SeqIds : \A k \in DOMAIN page_tables'[x] :
        \/ k \in DOMAIN page_tables[x] /\ page_tables'[x][k] = page_tables[x][k]
        \/ x = s /\ page_tables'[x][k] \in ToSet(new)
  <2>1. \A k \in 1..(m + g) : k \in 1..m \/ k > m
    OBVIOUS
  <2>2. \A k \in 1..g : new[k] \in ToSet(new)
    BY <1>3 DEF ToSet
  <2>3. \A k \in 1..(m + g) :
          \/ k \in DOMAIN old /\ (old \o new)[k] = old[k]
          \/ (old \o new)[k] \in ToSet(new)
    BY <1>3, <2>1, <2>2
  <2> QED BY <1>2, <1>3, <2>3
<1>5. \A x \in SeqIds : \A k \in DOMAIN page_tables[x] : page_tables[x][k] \notin ToSet(new)
  BY AppendsBlocks
<1>6. /\ i \in DOMAIN page_tables[q] /\ page_tables'[q][i] = page_tables[q][i]
      /\ j \in DOMAIN page_tables[r] /\ page_tables'[r][j] = page_tables[r][j]
  BY <1>1, <1>4, <1>5
<1>7. physical_blocks'[page_tables[q][i]].filled =
        IF page_tables[q][i] = last THEN BlockSize ELSE physical_blocks[page_tables[q][i]].filled
  BY <1>6, AppendsBlocks
<1> QED BY <1>1, <1>6, <1>7 DEF KVInv, Sharing

LEMMA AppendsHashes ==
  ASSUME KVInv, NEW s, NEW n, NEW old, NEW new, NEW last, NEW rest,
         Appends(s, n, old, new, last, rest)
  PROVE  Hashes'
<1>1. /\ ToSet(lru_list') \subseteq ToSet(lru_list) \ ToSet(new)
      /\ ToSet(free_block_stack') \subseteq ToSet(free_block_stack) \ ToSet(new)
      /\ ToSet(lru_list) \subseteq Blocks /\ ToSet(free_block_stack) \subseteq Blocks
  <2>1. Takes(<<>>, new)
    BY DEF Appends
  <2> QED BY <2>1, HomesOf DEF Takes
<1>2. /\ \A b \in Blocks \ ToSet(new) :
           /\ physical_blocks'[b].hash = physical_blocks[b].hash
           /\ physical_blocks'[b].filled =
                IF b = last THEN BlockSize ELSE physical_blocks[b].filled
      /\ tree' = tree
  BY DEF Appends
<1>3. EnablePrefixCaching => \A b \in ToSet(new) : physical_blocks'[b].hash = <<>>
  <2>1. DOMAIN new = 1..Len(new)
    BY AppendsTable
  <2>2. EnablePrefixCaching => \A k \in 1..Len(new) : physical_blocks'[new[k]].hash = <<>>
    BY DEF Appends
  <2> QED BY <2>1, <2>2 DEF ToSet
<1>4. \A b \in ToSet(lru_list') : EnablePrefixCaching /\ physical_blocks'[b].hash # <<>>
  BY <1>1, <1>2 DEF KVInv, Hashes
<1>5. EnablePrefixCaching =>
        \A b \in ToSet(free_block_stack') : physical_blocks'[b].hash = <<>>
  BY <1>1, <1>2 DEF KVInv, Hashes
<1>6. EnablePrefixCaching => \A b \in Blocks : physical_blocks'[b].hash # <<>> =>
        /\ physical_blocks'[b].hash \in DOMAIN tree
        /\ tree[physical_blocks'[b].hash] = b
        /\ physical_blocks'[b].filled = BlockSize
  BY <1>2, <1>3 DEF KVInv, Hashes
<1>7. EnablePrefixCaching =>
        \A q \in DOMAIN tree : \A k \in 1..Len(q) : SubSeq(q, 1, k) \in DOMAIN tree
  BY DEF KVInv, Hashes
<1> QED BY <1>2, <1>4, <1>5, <1>6, <1>7 DEF Hashes, ToSet

LEMMA AppendsCounts ==
  ASSUME KVInv, NEW s, NEW n, NEW old, NEW new, NEW last, NEW rest,
         Appends(s, n, old, new, last, rest)
  PROVE  Counts'
<1>1. /\ old \o new \in Seq(Blocks) /\ IsInjective(old \o new)
      /\ ToSet(old \o new) = ToSet(old) \cup ToSet(new)
      /\ ToSet(old) \cap ToSet(new) = {} /\ old = page_tables[s] /\ s \in SeqIds
  BY AppendsTable
<1>2. page_tables' = [page_tables EXCEPT ![s] = old \o new] /\ orphans' = orphans
  BY DEF Appends
<1>3. orphans \in [Blocks -> Nat]
  BY DEF KVInv, KVTypes
<1>4. \A b \in Blocks :
        /\ physical_blocks[b].ref \in Nat
        /\ physical_blocks'[b].ref = physical_blocks[b].ref + Once(b, ToSet(new))
  <2>1. Takes(<<>>, new) /\ new \in Seq(Blocks)
    BY DEF Appends
  <2>2. <<>> \o new = new
    BY <2>1
  <2> QED BY <2>1, <2>2, HomesOf DEF Takes
<1>5. \A b : /\ Once(b, ToSet(old \o new)) = Once(b, ToSet(old)) + Once(b, ToSet(new))
             /\ Once(b, ToSet(old)) \in Nat /\ Once(b, ToSet(new)) \in Nat
  BY <1>1 DEF Once
<1>6. \A b \in Blocks :
        /\ physical_blocks'[b].ref \in Nat
        /\ physical_blocks'[b].ref + Once(b, ToSet(page_tables[s])) + orphans[b] =
             physical_blocks[b].ref + Once(b, ToSet(old \o new)) + orphans'[b]
  <2> SUFFICES ASSUME NEW b \in Blocks
      PROVE  /\ physical_blocks'[b].ref \in Nat
             /\ physical_blocks'[b].ref + Once(b, ToSet(page_tables[s])) + orphans[b] =
                  physical_blocks[b].ref + Once(b, ToSet(old \o new)) + orphans'[b]
    OBVIOUS
  <2>1. PICK f0 \in Nat, o \in Nat, x \in Nat, y \in Nat :
          /\ f0 = physical_blocks[b].ref /\ o = orphans[b] /\ o = orphans'[b]
          /\ x = Once(b, ToSet(page_tables[s])) /\ y = Once(b, ToSet(new))
          /\ physical_blocks'[b].ref = f0 + y
          /\ Once(b, ToSet(old \o new)) = x + y
    BY <1>1, <1>2, <1>3, <1>4, <1>5
  <2> QED BY <2>1
<1>7. ReferencesMove(s, old \o new)
  BY <1>1, <1>2, <1>3, <1>6 DEF ReferencesMove
<1> QED BY <1>7, CountsMove

LEMMA AppendsLength ==
  ASSUME KVInv, NEW s, NEW n, NEW old, NEW new, NEW last, NEW rest,
         Appends(s, n, old, new, last, rest), s \in Registered
  PROVE  ContextLengthExact'
<1>1. SUFFICES ASSUME forked # "partial", NEW r \in SeqIds, page_tables'[r] # <<>>
      PROVE  (Len(page_tables'[r]) - 1) * BlockSize
                + physical_blocks'[Last(page_tables'[r])].filled = tokens'[r]
  <2>1. forked' = forked
    BY DEF Appends
  <2> QED BY <2>1 DEF ContextLengthExact, ContextLength, Registered, Last
<1>2. PICK d \in Nat, m \in Nat, g \in Nat, f \in Nat :
        /\ d = BlockSize /\ m = Len(old) /\ g = Len(new) /\ m > 0
        /\ f = physical_blocks[last].filled /\ f <= d /\ Available(s) = d - f
        /\ last = Last(page_tables[s]) /\ last = old[m] /\ m \in DOMAIN page_tables[s]
  <2>1. /\ old = page_tables[s] /\ last = old[Len(old)] /\ Len(new) \in Nat
        /\ DOMAIN old = 1..Len(old)
    BY AppendsTable DEF Appends
  <2> QED BY <1>1, <2>1, LastFacts
<1>3. PICK c \in Nat : c = CeilDiv(rest, d) /\ c > 0 /\ g <= c /\ rest \in Nat \ {0} /\ n \in Nat
                       /\ rest = n - (d - f)
  <2>1. /\ rest \in Nat \ {0} /\ Len(new) <= CeilDiv(rest, BlockSize) /\ n \in Nat
        /\ rest = n - Available(s)
    BY DEF Appends
  <2>2. CeilDiv(rest, BlockSize) \in Nat \ {0}
    BY <2>1, CeilFacts, Sizes
  <2> QED BY <1>2, <2>1, <2>2
<1>4. \A x \in SeqIds : page_tables'[x] = IF x = s THEN old \o new ELSE page_tables[x]
  BY AppendsTable
<1>5. old = page_tables[s] /\ s \in SeqIds /\ tokens \in [SeqIds -> Nat]
  BY AppendsTable DEF KVInv, KVTypes
<1>6. tokens' = [tokens EXCEPT ![s] =
        @ + (IF Len(new) = CeilDiv(rest, BlockSize)
             THEN n ELSE Available(s) + Len(new) * BlockSize)]
  BY DEF Appends
<1>7. CASE r # s
  <2>1. page_tables'[r] = page_tables[r] /\ tokens'[r] = tokens[r] /\ r \in Registered
    BY <1>1, <1>4, <1>5, <1>6, <1>7 DEF Registered
  <2>2. /\ Last(page_tables[r]) = page_tables[r][Len(page_tables[r])]
        /\ Len(page_tables[r]) \in DOMAIN page_tables[r]
    BY <2>1, LastFacts
  <2>3. physical_blocks'[Last(page_tables[r])].filled =
          IF Last(page_tables[r]) = last THEN d ELSE physical_blocks[Last(page_tables[r])].filled
    BY <1>2, <2>2, AppendsBlocks
  <2>4. Last(page_tables[r]) = last => physical_blocks[last].filled = d
    BY <1>1, <1>2, <1>5, <1>7, <2>2 DEF KVInv, Sharing
  <2>5. (Len(page_tables[r]) - 1) * BlockSize
           + physical_blocks[Last(page_tables[r])].filled = tokens[r]
    BY <1>1, <2>1 DEF KVInv, ContextLengthExact, ContextLength
  <2> QED BY <2>1, <2>3, <2>4, <2>5
<1>8. CASE r = s
  <2>1. PICK z \in Nat : z = (m - 1) * d
    BY <1>2
  <2>2. PICK k0 \in Nat : k0 = tokens[s] /\ z + f = k0
    <3>1. (Len(page_tables[s]) - 1) * BlockSize
             + physical_blocks[Last(page_tables[s])].filled = tokens[s]
      BY <1>1 DEF KVInv, ContextLengthExact, ContextLength
    <3> QED BY <1>2, <1>5, <2>1, <3>1
  <2>3. PICK h \in Nat : h = g * d
    OBVIOUS
  <2>4. tokens'[s] = k0 + (IF g = c THEN n ELSE (d - f) + h)
    BY <1>2, <1>3, <1>5, <1>6, <2>2, <2>3
  <2>5. PICK t : t = old \o new
    OBVIOUS
  <2>6. /\ page_tables'[s] = t /\ Len(t) = m + g /\ Last(t) = t[m + g]
        /\ \A k \in 1..m : t[k] = old[k]
        /\ \A k \in 1..(m + g) : k > m => k - m \in 1..g /\ t[k] = new[k - m]
    <3>1. /\ page_tables'[s] = t /\ Len(t) = m + g
          /\ \A k \in 1..m : t[k] = old[k]
          /\ \A k \in 1..(m + g) : k > m => k - m \in 1..g /\ t[k] = new[k - m]
      <4>1. /\ Len(old \o new) = m + g
            /\ \A k \in 1..m : (old \o new)[k] = old[k]
            /\ \A k \in 1..(m + g) : k > m => k - m \in 1..g /\ (old \o new)[k] = new[k - m]
        BY <1>2, AppendsTable
      <4>2. page_tables'[s] = old \o new
        BY <1>4, <1>5
      <4> QED BY <2>5, <4>1, <4>2
    <3> QED BY <3>1 DEF Last
  <2>7. CASE g = 0
    <3>1. t[m + g] = last
      BY <1>2, <2>6, <2>7
    <3>2. physical_blocks'[last].filled = d
      BY <1>2, <1>5, AppendsBlocks
    <3>3. h = 0 /\ g # c /\ (m + g) - 1 = m - 1
      BY <1>3, <2>3, <2>7
    <3>4. (m - 1) * d + d = k0 + ((d - f) + h)
      BY <2>1, <2>2, <3>3
    <3> QED BY <1>2, <1>8, <2>4, <2>6, <3>1, <3>2, <3>3, <3>4
  <2>8. CASE g > 0
    <3>1. m + g \in 1..(m + g) /\ m + g > m /\ (m + g) - m = g
      BY <2>8
    <3>2. t[m + g] = new[g] /\ g \in 1..g
      BY <2>6, <2>8, <3>1
    <3>3. physical_blocks'[new[g]].filled = FilledOf(rest, g)
      BY <1>2, <3>2 DEF Appends
    <3>4. ((m + g) - 1) * d = z + h
      BY <2>1, <2>3
    <3>5. (g - 1) * d = h - d
      BY <2>3
    <3>6. /\ g < c => FilledOf(rest, g) = d
          /\ g = c => FilledOf(rest, g) = rest - (h - d)
      <4>1. g \in 1..CeilDiv(rest, BlockSize)
        BY <1>2, <1>3, <2>8
      <4> QED BY <1>2, <1>3, <3>5, <4>1, FilledFacts
    <3>7. CASE g = c
      <4>1. (z + h) + (rest - (h - d)) = k0 + n
        <5>1. rest = n - (d - f) /\ n \in Nat
          BY <1>3
        <5>2. z + f = k0
          BY <2>2
        <5> QED BY ONLY <5>1, <5>2, z \in Nat, f \in Nat, k0 \in Nat, h \in Nat, d \in Nat
      <4> QED BY <1>2, <1>8, <2>4, <2>6, <3>2, <3>3, <3>4, <3>6, <3>7, <4>1
    <3>8. CASE g # c
      <4>1. g < c
        BY <1>3, <3>8
      <4>2. (z + h) + d = k0 + ((d - f) + h)
        BY <2>2
      <4> QED BY <1>2, <1>8, <2>4, <2>6, <3>2, <3>3, <3>4, <3>6, <3>8, <4>1, <4>2
    <3> QED BY <3>7, <3>8
  <2> QED BY <2>7, <2>8
<1> QED BY <1>7, <1>8

LEMMA AppendBeyondKeeps ==
  ASSUME KVInv, NEW s \in Registered, NEW n \in AppendSizes, AppendBeyondBlock(s, n)
  PROVE  KVInv'
<1>1. PICK old, new, last, rest : Appends(s, n, old, new, last, rest)
  BY AppendShape
<1>2. Takes(<<>>, new)
  BY <1>1 DEF Appends
<1>3. KVTypes'
  <2>1. /\ physical_blocks' \in [Blocks -> Block]
        /\ free_block_stack' \in Seq(Blocks) /\ lru_list' \in Seq(Blocks)
    BY <1>2 DEF Takes
  <2>2. page_tables' \in [SeqIds -> Seq(Blocks)]
    <3>1. old \o new \in Seq(Blocks)
      BY <1>1, AppendsTable
    <3>2. page_tables' = [page_tables EXCEPT ![s] = old \o new]
      BY <1>1 DEF Appends
    <3> QED BY <3>1, <3>2 DEF KVInv, KVTypes
  <2>3. tokens' \in [SeqIds -> Nat]
    <3>1. PICK v : /\ tokens' = [tokens EXCEPT ![s] = @ + v]
                   /\ v = IF Len(new) = CeilDiv(rest, BlockSize)
                          THEN n ELSE Available(s) + Len(new) * BlockSize
      BY <1>1 DEF Appends
    <3>2. n \in Nat /\ Len(new) \in Nat
      BY <1>1 DEF Appends
    <3>3. Available(s) \in Nat /\ BlockSize \in Nat
      BY LastFacts
    <3>4. Len(new) * BlockSize \in Nat
      <4>1. \A i, j \in Nat : i * j \in Nat
        OBVIOUS
      <4> QED BY <3>2, <3>3, <4>1
    <3>5. v \in Nat
      BY <3>1, <3>2, <3>3, <3>4
    <3>6. tokens \in [SeqIds -> Nat] /\ s \in SeqIds
      BY DEF KVInv, KVTypes, Registered
    <3>7. tokens[s] + v \in Nat
      BY <3>5, <3>6
    <3> QED BY <3>1, <3>6, <3>7
  <2>4. UNCHANGED <<tree, prompt, orphans, forked>> /\ outcome' \in {"ok", "OutOfPages"}
    BY <1>1 DEF Appends
  <2> QED BY <2>1, <2>2, <2>3, <2>4 DEF KVInv, KVTypes
<1> QED BY <1>1, <1>2, <1>3, TakesPlaces, AppendsHashes, AppendsTables, AppendsCounts,
           AppendsSharing, AppendsLength DEF KVInv

-----------------------------------------------------------------------------
(* Unregistering.  A block in the tables of two sequences has two          *)
(* references.                                                             *)
LEMMA SharedTwice ==
  ASSUME KVInv, NEW s \in SeqIds, NEW r \in SeqIds, r # s,
         NEW b \in ToSet(page_tables[s]), b \in ToSet(page_tables[r])
  PROVE  physical_blocks[b].ref > 1
<1>1. b \in Blocks
  BY UsedInTables
<1>2. /\ page_tables \in [SeqIds -> Seq(Blocks)] /\ IsInjective(page_tables[s])
      /\ IsInjective(page_tables[r])
      /\ IsFiniteSet({x \in SeqIds : page_tables[x] # <<>>})
  BY DEF KVInv, KVTypes, Tables, Counts, Registered
<1>3. PICK after : after = [page_tables EXCEPT ![s] = <<>>]
  OBVIOUS
<1>4. /\ after \in [SeqIds -> Seq(Blocks)] /\ after[r] = page_tables[r] /\ after[s] = <<>>
  BY <1>2, <1>3
<1>5. Replaces(page_tables, s, <<>>, after)
  BY <1>2, <1>3 DEF Replaces, IsInjective
<1>6. PICK tables : tables = page_tables
  OBVIOUS
<1>7. /\ IsFiniteSet({x \in SeqIds : after[x] # <<>>})
      /\ Cardinality(Entries(tables, b)) \in Nat
      /\ Cardinality(Entries(after, b)) \in Nat
      /\ Cardinality(Entries(after, b)) + Once(b, ToSet(tables[s])) =
           Cardinality(Entries(tables, b)) + Once(b, ToSet(<<>>))
  <2>1. PICK none : none = <<>>
    OBVIOUS
  <2>2. Replaces(tables, s, none, after)
    BY <1>5, <1>6, <2>1
  <2>3. IsFiniteSet({x \in SeqIds : after[x] # <<>>})
    BY ONLY <2>2, EntriesReplaced
  <2>4. /\ Cardinality(Entries(tables, b)) \in Nat
        /\ Cardinality(Entries(after, b)) \in Nat
        /\ Cardinality(Entries(after, b)) + Once(b, ToSet(tables[s])) =
             Cardinality(Entries(tables, b)) + Once(b, ToSet(none))
    BY ONLY <1>1, <2>2, EntriesReplacedAt
  <2> QED BY <2>1, <2>3, <2>4
<1>8. /\ Cardinality(Others(after, r, b)) \in Nat
      /\ Cardinality(Entries(after, b)) =
           Cardinality(Others(after, r, b)) + Once(b, ToSet(after[r]))
  <2>1. IsInjective(after[r])
    BY <1>2, <1>4
  <2> QED BY ONLY <1>4, <1>7, <2>1, EntriesCounted, r \in SeqIds
<1>9. Once(b, ToSet(after[r])) = 1 /\ Once(b, ToSet(tables[s])) = 1 /\ Once(b, ToSet(<<>>)) = 0
  BY <1>4, <1>6 DEF Once, ToSet
<1>10. Cardinality(Entries(page_tables, b)) > 1
  BY <1>6, <1>7, <1>8, <1>9
<1>11. physical_blocks[b].ref = orphans[b] + Cardinality(Entries(page_tables, b)) /\ orphans[b] \in Nat
  BY <1>1 DEF KVInv, KVTypes, Counts
<1> QED BY <1>6, <1>7, <1>10, <1>11

(* What unregister_sequence does: the blocks it puts on the stack, and the *)
(* ones it keeps in the LRU list.                                          *)
Unregisters(s, table, stacked, kept) ==
  /\ s \in SeqIds /\ table \in Seq(Blocks) /\ table = page_tables[s] /\ IsInjective(table)
  /\ stacked \in Seq(Blocks) /\ IsInjective(stacked)
  /\ ToSet(stacked) = {b \in ToSet(table) : physical_blocks[b].ref = 1 /\ ToStack(b)}
  /\ kept \in Seq(Blocks) /\ IsInjective(kept)
  /\ ToSet(kept) = {b \in ToSet(table) : physical_blocks[b].ref = 1 /\ ~ToStack(b)}
  /\ physical_blocks' \in [Blocks -> Block]
  /\ \A b \in Blocks :
       /\ physical_blocks'[b].ref + Once(b, ToSet(table)) = physical_blocks[b].ref
       /\ physical_blocks'[b].hash = physical_blocks[b].hash
       /\ physical_blocks'[b].filled =
            IF b \in ToSet(stacked) THEN 0 ELSE physical_blocks[b].filled
  /\ free_block_stack' = free_block_stack \o stacked
  /\ lru_list' = kept \o lru_list
  /\ page_tables' = [page_tables EXCEPT ![s] = <<>>]
  /\ prompt' = [prompt EXCEPT ![s] = NoPrompt]
  /\ tokens' = [tokens EXCEPT ![s] = 0]
  /\ outcome' = "ok"
  /\ UNCHANGED <<tree, orphans, forked>>

LEMMA UnregisterShape ==
  ASSUME KVInv, NEW s \in SeqIds, Unregister(s)
  PROVE  \E table, stacked, kept : Unregisters(s, table, stacked, kept)
<1>1. PICK table \in Seq(Blocks) : table = page_tables[s] /\ IsInjective(table)
  BY DEF KVInv, KVTypes, Tables
<1> DEFINE lasting == {b \in Blocks : LastReference(b)}
           released == Filtered(table, lasting)
           onto == {b \in Blocks : ToStack(b)}
           cached == {b \in Blocks : ~ToStack(b)}
           stacked == Filtered(released, onto)
           kept == Filtered(released, cached)
<1>2. released \in Seq(Blocks) /\ IsInjective(released) /\ ToSet(released) = ToSet(table) \cap lasting
  BY <1>1, FilteredFacts
<1> HIDE DEF released
<1>3. stacked \in Seq(Blocks) /\ IsInjective(stacked) /\ ToSet(stacked) = ToSet(released) \cap onto
  BY <1>2, FilteredFacts
<1>4. kept \in Seq(Blocks) /\ IsInjective(kept) /\ ToSet(kept) = ToSet(released) \cap cached
  BY <1>2, FilteredFacts
<1> HIDE DEF stacked, kept
<1>5. ToSet(table) \subseteq Blocks
  BY DEF ToSet
<1>6. /\ ToSet(stacked) = {b \in ToSet(table) : physical_blocks[b].ref = 1 /\ ToStack(b)}
      /\ ToSet(kept) = {b \in ToSet(table) : physical_blocks[b].ref = 1 /\ ~ToStack(b)}
  BY <1>2, <1>3, <1>4, <1>5 DEF LastReference
<1> HIDE DEF lasting, onto, cached
<1>7. /\ physical_blocks' = [b \in Blocks |->
           [physical_blocks[b] EXCEPT
              !.ref = IF b \in ToSet(table) /\ @ > 0 THEN @ - 1 ELSE @,
              !.filled = IF b \in ToSet(stacked) THEN 0 ELSE @]]
      /\ free_block_stack' = free_block_stack \o stacked
      /\ lru_list' = Reverse(kept) \o lru_list
      /\ page_tables' = [page_tables EXCEPT ![s] = <<>>]
      /\ prompt' = [prompt EXCEPT ![s] = NoPrompt]
      /\ tokens' = [tokens EXCEPT ![s] = 0]
      /\ outcome' = "ok"
      /\ UNCHANGED <<tree, orphans, forked>>
  BY <1>1 DEF Unregister, stacked, kept, released, lasting, onto, cached
<1>8. PICK back \in Seq(Blocks) : /\ back = Reverse(kept) /\ ToSet(back) = ToSet(kept)
                                  /\ IsInjective(back)
  BY <1>4, ReverseFacts
<1>9. \A b \in ToSet(table) : physical_blocks[b].ref > 0
  BY <1>1, UsedInTables
<1>10. ASSUME NEW b \in Blocks
       PROVE  /\ physical_blocks'[b] \in Block
              /\ physical_blocks'[b].ref + Once(b, ToSet(table)) = physical_blocks[b].ref
              /\ physical_blocks'[b].hash = physical_blocks[b].hash
              /\ physical_blocks'[b].filled =
                   IF b \in ToSet(stacked) THEN 0 ELSE physical_blocks[b].filled
  <2>1. PICK r \in Block : r = physical_blocks[b]
    BY DEF KVInv, KVTypes
  <2>2. physical_blocks'[b] =
          [r EXCEPT !.ref = IF b \in ToSet(table) /\ @ > 0 THEN @ - 1 ELSE @,
                    !.filled = IF b \in ToSet(stacked) THEN 0 ELSE @]
    BY <1>7, <2>1
  <2>3. r.ref \in Nat /\ r.filled \in 0..BlockSize /\ BlockSize \in Nat
    BY <2>1, Sizes DEF Block
  <2>4. 0 \in 0..BlockSize
    BY <2>3
  <2>5. physical_blocks'[b].ref = IF b \in ToSet(table) /\ r.ref > 0 THEN r.ref - 1 ELSE r.ref
    BY <2>1, <2>2 DEF Block
  <2>6. physical_blocks'[b].ref + Once(b, ToSet(table)) = r.ref /\ physical_blocks'[b].ref \in Nat
    BY <1>9, <2>1, <2>3, <2>5 DEF Once
  <2>7. physical_blocks'[b].hash = r.hash
        /\ physical_blocks'[b].filled = IF b \in ToSet(stacked) THEN 0 ELSE r.filled
    BY <2>1, <2>2 DEF Block
  <2>8. physical_blocks'[b] = [ref |-> physical_blocks'[b].ref,
                               filled |-> physical_blocks'[b].filled,
                               hash |-> physical_blocks'[b].hash]
    BY <2>1, <2>2 DEF Block
  <2>9. physical_blocks'[b].filled \in 0..BlockSize /\ physical_blocks'[b].hash \in Seq(Contents)
    BY <2>1, <2>3, <2>4, <2>7 DEF Block
  <2>10. physical_blocks'[b] \in Block
    BY <2>6, <2>8, <2>9 DEF Block
  <2> QED BY <2>1, <2>6, <2>7, <2>10
<1>11. physical_blocks' \in [Blocks -> Block]
  BY <1>7, <1>10
<1>12. Unregisters(s, table, stacked, back)
  BY <1>1, <1>3, <1>6, <1>7, <1>8, <1>10, <1>11 DEF Unregisters
<1> QED BY <1>12

LEMMA UnregisterKeeps ==
  ASSUME KVInv, NEW s \in SeqIds, Unregister(s)
  PROVE  KVInv'
<1>1. PICK table, stacked, kept : Unregisters(s, table, stacked, kept)
  BY UnregisterShape
<1>2. /\ s \in SeqIds /\ table \in Seq(Blocks) /\ table = page_tables[s] /\ IsInjective(table)
      /\ stacked \in Seq(Blocks) /\ IsInjective(stacked)
      /\ kept \in Seq(Blocks) /\ IsInjective(kept)
  BY <1>1 DEF Unregisters
<1>3. /\ ToSet(stacked) = {b \in ToSet(table) : physical_blocks[b].ref = 1 /\ ToStack(b)}
      /\ ToSet(kept) = {b \in ToSet(table) : physical_blocks[b].ref = 1 /\ ~ToStack(b)}
  BY <1>1 DEF Unregisters
<1>4. /\ physical_blocks' \in [Blocks -> Block]
      /\ \A b \in Blocks :
           /\ physical_blocks'[b].ref + Once(b, ToSet(table)) = physical_blocks[b].ref
           /\ physical_blocks'[b].hash = physical_blocks[b].hash
           /\ physical_blocks'[b].filled =
                IF b \in ToSet(stacked) THEN 0 ELSE physical_blocks[b].filled
  BY <1>1 DEF Unregisters
<1>5. /\ free_block_stack' = free_block_stack \o stacked
      /\ lru_list' = kept \o lru_list
      /\ page_tables' = [page_tables EXCEPT ![s] = <<>>]
      /\ prompt' = [prompt EXCEPT ![s] = NoPrompt]
      /\ tokens' = [tokens EXCEPT ![s] = 0]
      /\ outcome' = "ok"
      /\ UNCHANGED <<tree, orphans, forked>>
  BY <1>1 DEF Unregisters
<1>6. /\ ToSet(table) \subseteq Blocks
      /\ \A b \in ToSet(table) : physical_blocks[b].ref > 0
  BY <1>2, UsedInTables
<1>7. \A b \in Blocks : physical_blocks'[b].ref \in Nat /\ physical_blocks[b].ref \in Nat
  BY <1>4, HomesOf DEF Block
<1>8. /\ ToSet(stacked) \cap ToSet(kept) = {}
      /\ \A b \in ToSet(stacked) \cup ToSet(kept) : b \in ToSet(table) /\ physical_blocks[b].ref = 1
      /\ \A b \in ToSet(table) : physical_blocks[b].ref = 1 =>
           b \in ToSet(stacked) \cup ToSet(kept)
  BY <1>3
<1> DEFINE f == ToSet(free_block_stack)
           l == ToSet(lru_list)
<1>9. /\ f \cap ToSet(table) = {} /\ l \cap ToSet(table) = {}
      /\ f \cap l = {} /\ f \subseteq Blocks /\ l \subseteq Blocks
      /\ IsInjective(free_block_stack) /\ IsInjective(lru_list)
      /\ free_block_stack \in Seq(Blocks) /\ lru_list \in Seq(Blocks)
  BY <1>6, HomesOf
<1>10. /\ free_block_stack' \in Seq(Blocks) /\ IsInjective(free_block_stack')
       /\ ToSet(free_block_stack') = f \cup ToSet(stacked)
  <2>1. f \cap ToSet(stacked) = {}
    BY <1>8, <1>9
  <2>2. PICK free \in Seq(Blocks) : free = free_block_stack
    BY <1>9
  <2>3. IsInjective(free) /\ ToSet(free) \cap ToSet(stacked) = {}
    BY <1>9, <2>1, <2>2
  <2>4. /\ free \o stacked \in Seq(Blocks) /\ IsInjective(free \o stacked)
        /\ ToSet(free \o stacked) = ToSet(free) \cup ToSet(stacked)
    BY ONLY <1>2, <2>3, ConcatFacts, free \in Seq(Blocks)
  <2> QED BY <1>5, <2>2, <2>4
<1>11. /\ lru_list' \in Seq(Blocks) /\ IsInjective(lru_list')
       /\ ToSet(lru_list') = l \cup ToSet(kept)
  <2>1. l \cap ToSet(kept) = {}
    BY <1>8, <1>9
  <2>2. PICK lru \in Seq(Blocks) : lru = lru_list
    BY <1>9
  <2>3. IsInjective(lru) /\ ToSet(kept) \cap ToSet(lru) = {}
    BY <1>9, <2>1, <2>2
  <2>4. /\ kept \o lru \in Seq(Blocks) /\ IsInjective(kept \o lru)
        /\ ToSet(kept \o lru) = ToSet(kept) \cup ToSet(lru)
    BY ONLY <1>2, <2>3, ConcatFacts, lru \in Seq(Blocks)
  <2> QED BY <1>5, <2>2, <2>4
<1>12. \A r \in SeqIds :
         /\ r # s => /\ page_tables'[r] = page_tables[r] /\ prompt'[r] = prompt[r]
                     /\ tokens'[r] = tokens[r]
         /\ r = s => page_tables'[r] = <<>> /\ prompt'[r] = NoPrompt
  BY <1>5 DEF KVInv, KVTypes
<1>13. ASSUME NEW r \in SeqIds, r # s, NEW k \in DOMAIN page_tables[r]
       PROVE  LET b == page_tables[r][k]
              IN  /\ b \in Blocks
                  /\ physical_blocks'[b].hash = physical_blocks[b].hash
                  /\ physical_blocks'[b].filled = physical_blocks[b].filled
  <2>1. PICK b \in ToSet(page_tables[r]) : b = page_tables[r][k]
    BY DEF ToSet
  <2>2. b \in Blocks
    BY UsedInTables
  <2>3. b \notin ToSet(stacked)
    <3>1. b \in ToSet(table) => physical_blocks[b].ref > 1
      BY <1>2, <1>13, SharedTwice
    <3> QED BY <1>7, <1>8, <2>2, <3>1
  <2> QED BY <1>4, <2>1, <2>2, <2>3
<1>14. KVTypes'
  <2>1. page_tables' \in [SeqIds -> Seq(Blocks)] /\ tokens' \in [SeqIds -> Nat]
        /\ prompt' \in [SeqIds -> Prompts \cup {NoPrompt}]
    BY <1>5 DEF KVInv, KVTypes
  <2> QED BY <1>4, <1>5, <1>10, <1>11, <2>1 DEF KVInv, KVTypes
<1>15. Places'
  <2>1. \A b \in Blocks : b \in Used' <=> b \in Used /\ b \notin ToSet(stacked) \cup ToSet(kept)
    <3> SUFFICES ASSUME NEW b \in Blocks
                 PROVE  physical_blocks'[b].ref > 0 <=>
                          physical_blocks[b].ref > 0 /\ b \notin ToSet(stacked) \cup ToSet(kept)
      BY DEF Used
    <3>1. CASE b \in ToSet(table)
      <4>1. physical_blocks'[b].ref + 1 = physical_blocks[b].ref
        BY <1>4, <3>1 DEF Once
      <4> QED BY <1>7, <1>8, <3>1, <4>1
    <3>2. CASE b \notin ToSet(table)
      <4>1. physical_blocks'[b].ref + 0 = physical_blocks[b].ref
        BY <1>4, <3>2 DEF Once
      <4> QED BY <1>7, <1>8, <3>2, <4>1
    <3> QED BY <3>1, <3>2
  <2>2. Used' \subseteq Blocks /\ ToSet(stacked) \cup ToSet(kept) \subseteq Used
    BY <1>6, <1>8 DEF Used
  <2>3. f \cap l = {} /\ Used \cap (f \cup l) = {} /\ f \cup l \cup Used = Blocks
    BY DEF KVInv, Places
  <2>4. PICK u, u1, f0, l0, f1, l1, st, ke :
          /\ u = Used /\ u1 = Used' /\ f0 = f /\ l0 = l /\ st = ToSet(stacked) /\ ke = ToSet(kept)
          /\ f1 = ToSet(free_block_stack') /\ l1 = ToSet(lru_list')
    OBVIOUS
  <2>5. /\ u1 = u \ (st \cup ke) /\ st \cup ke \subseteq u /\ st \cap ke = {}
        /\ f1 = f0 \cup st /\ l1 = l0 \cup ke
        /\ f0 \cap l0 = {} /\ u \cap (f0 \cup l0) = {} /\ f0 \cup l0 \cup u = Blocks
    BY <1>8, <1>10, <1>11, <2>1, <2>2, <2>3, <2>4 DEF Used
  <2>6. f1 \cap l1 = {} /\ u1 \cap (f1 \cup l1) = {} /\ f1 \cup l1 \cup u1 = Blocks
    BY ONLY <2>5
  <2>7. /\ ToSet(free_block_stack)' = f1 /\ ToSet(lru_list)' = l1
        /\ IsInjective(free_block_stack)' /\ IsInjective(lru_list)'
    BY <1>10, <1>11, <2>4 DEF ToSet, IsInjective
  <2> QED BY <2>4, <2>6, <2>7 DEF Places
<1>16. Hashes'
  <2>1. \A b \in ToSet(lru_list') : EnablePrefixCaching /\ physical_blocks'[b].hash # <<>>
    <3>1. \A b \in l : EnablePrefixCaching /\ physical_blocks'[b].hash # <<>>
      BY <1>4, <1>9 DEF KVInv, Hashes
    <3>2. \A b \in ToSet(kept) : EnablePrefixCaching /\ physical_blocks'[b].hash # <<>>
      BY <1>3, <1>4, <1>6 DEF ToStack
    <3> QED BY <1>11, <3>1, <3>2
  <2>2. EnablePrefixCaching =>
          \A b \in ToSet(free_block_stack') : physical_blocks'[b].hash = <<>>
    <3>1. EnablePrefixCaching => \A b \in f : physical_blocks'[b].hash = <<>>
      BY <1>4, <1>9 DEF KVInv, Hashes
    <3>2. EnablePrefixCaching => \A b \in ToSet(stacked) : physical_blocks'[b].hash = <<>>
      BY <1>3, <1>4, <1>6 DEF ToStack
    <3> QED BY <1>10, <3>1, <3>2
  <2>3. EnablePrefixCaching => \A b \in Blocks : physical_blocks'[b].hash # <<>> =>
          /\ physical_blocks'[b].hash \in DOMAIN tree
          /\ tree[physical_blocks'[b].hash] = b
          /\ physical_blocks'[b].filled = BlockSize
    <3>1. EnablePrefixCaching => \A b \in ToSet(stacked) : physical_blocks[b].hash = <<>>
      BY <1>3 DEF ToStack
    <3> QED BY <1>4, <3>1 DEF KVInv, Hashes
  <2>4. EnablePrefixCaching =>
          \A q \in DOMAIN tree : \A k \in 1..Len(q) : SubSeq(q, 1, k) \in DOMAIN tree
    BY DEF KVInv, Hashes
  <2> QED BY <1>5, <2>1, <2>2, <2>3, <2>4 DEF Hashes, ToSet
<1>17. Tables'
  <2>1. SUFFICES ASSUME NEW r \in SeqIds
        PROVE  /\ IsInjective(page_tables'[r])
               /\ Len(prompt'[r].full) <= Len(page_tables'[r])
               /\ \A k \in DOMAIN page_tables'[r] :
                    LET block == physical_blocks'[page_tables'[r][k]]
                    IN  /\ k <= Len(prompt'[r].full) => block.hash = Path(prompt'[r], k)
                        /\ k > Len(prompt'[r].full) /\ EnablePrefixCaching => block.hash = <<>>
                        /\ k < Len(page_tables'[r]) => block.filled = BlockSize
    BY DEF Tables, IsInjective, Path
  <2>2. CASE r # s
    BY <1>12, <1>13, <2>2 DEF KVInv, Tables
  <2>3. CASE r = s
    <3>1. page_tables'[r] = <<>> /\ prompt'[r].full = <<>> /\ Len(<<>>) = 0 /\ DOMAIN <<>> = {}
      BY <1>12, <2>3 DEF NoPrompt
    <3> QED BY <3>1 DEF IsInjective
  <2> QED BY <2>2, <2>3
<1>18. Counts'
  <2>1. ReferencesMove(s, <<>>)
    <3>1. \A b \in Blocks : Once(b, ToSet(<<>>)) = 0 /\ orphans'[b] = orphans[b] /\ orphans[b] \in Nat
      BY <1>5 DEF Once, ToSet, KVInv, KVTypes
    <3>2. \A b \in Blocks :
            physical_blocks'[b].ref + Once(b, ToSet(page_tables[s])) + orphans[b] =
              physical_blocks[b].ref + Once(b, ToSet(<<>>)) + orphans'[b]
      BY <1>2, <1>4, <1>7, <3>1
    <3>3. orphans' \in [Blocks -> Nat]
      BY <1>5 DEF KVInv, KVTypes
    <3>4. <<>> \in Seq(Blocks) /\ IsInjective(<<>>)
      BY DEF IsInjective
    <3> QED BY <1>5, <1>7, <3>2, <3>3, <3>4 DEF ReferencesMove
  <2> QED BY <2>1, CountsMove
<1>19. Sharing'
  <2>1. SUFFICES ASSUME NEW q \in SeqIds, NEW r \in SeqIds, q # r,
                        NEW i \in DOMAIN page_tables'[q], NEW j \in DOMAIN page_tables'[r],
                        page_tables'[q][i] = page_tables'[r][j]
        PROVE  /\ forked = "no" => /\ EnablePrefixCaching
                                   /\ i <= Len(prompt'[q].full) /\ j <= Len(prompt'[r].full)
               /\ forked # "partial" =>
                    physical_blocks'[page_tables'[q][i]].filled = BlockSize
    BY <1>5 DEF Sharing
  <2>2. q # s /\ r # s
    <3>1. DOMAIN <<>> = {}
      OBVIOUS
    <3> QED BY <1>12, <2>1, <3>1
  <2>3. /\ page_tables'[q] = page_tables[q] /\ page_tables'[r] = page_tables[r]
        /\ prompt'[q] = prompt[q] /\ prompt'[r] = prompt[r]
    BY <1>12, <2>2
  <2>4. physical_blocks'[page_tables[q][i]].filled = physical_blocks[page_tables[q][i]].filled
    BY <1>13, <2>1, <2>2, <2>3
  <2> QED BY <2>1, <2>3, <2>4 DEF KVInv, Sharing
<1>20. ContextLengthExact'
  <2>1. SUFFICES ASSUME forked # "partial", NEW r \in SeqIds, page_tables'[r] # <<>>
        PROVE  (Len(page_tables'[r]) - 1) * BlockSize
                  + physical_blocks'[Last(page_tables'[r])].filled = tokens'[r]
    BY <1>5 DEF ContextLengthExact, ContextLength, Registered, Last
  <2>2. r # s /\ page_tables'[r] = page_tables[r] /\ tokens'[r] = tokens[r] /\ r \in Registered
    BY <1>12, <2>1 DEF Registered
  <2>3. /\ Last(page_tables[r]) = page_tables[r][Len(page_tables[r])]
        /\ Len(page_tables[r]) \in DOMAIN page_tables[r]
    BY <2>2, LastFacts
  <2>4. physical_blocks'[Last(page_tables[r])].filled = physical_blocks[Last(page_tables[r])].filled
    BY <1>13, <2>2, <2>3
  <2>5. (Len(page_tables[r]) - 1) * BlockSize
           + physical_blocks[Last(page_tables[r])].filled = tokens[r]
    BY <2>1, <2>2 DEF KVInv, ContextLengthExact, ContextLength
  <2> QED BY <2>2, <2>4, <2>5
<1> QED BY <1>14, <1>15, <1>16, <1>17, <1>18, <1>19, <1>20 DEF KVInv

-----------------------------------------------------------------------------
(* Forking: the child gets the table of the parent.                        *)
LEMMA ForkKeeps ==
  ASSUME KVInv, NEW parent \in SeqIds, NEW child \in SeqIds, Fork(parent, child)
  PROVE  KVInv'
<1>1. PICK t \in Seq(Blocks) : t = page_tables[parent] /\ IsInjective(t)
  BY DEF KVInv, KVTypes, Tables
<1>2. PICK u \in Seq(Blocks) : u = page_tables[child] /\ IsInjective(u)
  BY DEF KVInv, KVTypes, Tables
<1>3. \A b \in Blocks : /\ Occurrences(b, t) = Once(b, ToSet(t))
                        /\ Occurrences(b, u) = Once(b, ToSet(u))
                        /\ Once(b, ToSet(t)) \in Nat /\ Once(b, ToSet(u)) \in Nat
  BY <1>1, <1>2, OccursOnce DEF Once
<1>4. parent \in Registered
  BY DEF Fork
<1>5. /\ physical_blocks' = [b \in Blocks |->
           [physical_blocks[b] EXCEPT !.ref = @ + Once(b, ToSet(t))]]
      /\ page_tables' = [page_tables EXCEPT ![child] = t]
      /\ prompt' = [prompt EXCEPT ![child] = prompt[parent]]
      /\ tokens' = [tokens EXCEPT ![child] = tokens[parent]]
      /\ orphans' = [b \in Blocks |-> orphans[b] + Once(b, ToSet(u))]
      /\ outcome' = "ok"
      /\ forked' = IF Available(parent) > 0 THEN "partial"
                   ELSE IF forked = "no" THEN "full" ELSE forked
      /\ UNCHANGED <<free_block_stack, lru_list, tree>>
  BY <1>1, <1>2, <1>3 DEF Fork
<1>6. ASSUME NEW b \in Blocks
      PROVE  /\ physical_blocks'[b] \in Block
             /\ physical_blocks[b].ref \in Nat
             /\ physical_blocks'[b].ref = physical_blocks[b].ref + Once(b, ToSet(t))
             /\ physical_blocks'[b].hash = physical_blocks[b].hash
             /\ physical_blocks'[b].filled = physical_blocks[b].filled
  <2>1. PICK r \in Block : r = physical_blocks[b]
    BY DEF KVInv, KVTypes
  <2>2. physical_blocks'[b] = [r EXCEPT !.ref = @ + Once(b, ToSet(t))]
    BY <1>5, <2>1
  <2>3. PICK w \in Nat : w = Once(b, ToSet(t))
    BY <1>3
  <2>4. /\ r.ref \in Nat /\ r.filled \in 0..BlockSize /\ r.hash \in Seq(Contents)
        /\ physical_blocks'[b] = [r EXCEPT !.ref = r.ref + w]
    BY <2>2, <2>3 DEF Block
  <2>5. physical_blocks'[b] = [ref |-> r.ref + w, filled |-> r.filled, hash |-> r.hash]
    BY <2>4 DEF Block
  <2>6. physical_blocks'[b] \in Block
    BY <2>4, <2>5 DEF Block
  <2> QED BY <2>1, <2>3, <2>4, <2>5, <2>6
<1>7. \A r \in SeqIds :
        /\ r # child => /\ page_tables'[r] = page_tables[r] /\ prompt'[r] = prompt[r]
                        /\ tokens'[r] = tokens[r]
        /\ r = child => /\ page_tables'[r] = page_tables[parent] /\ prompt'[r] = prompt[parent]
                        /\ tokens'[r] = tokens[parent]
  BY <1>1, <1>5 DEF KVInv, KVTypes
<1>8. \A r \in SeqIds : \E x \in SeqIds :
        /\ x = IF r = child THEN parent ELSE r
        /\ page_tables'[r] = page_tables[x] /\ prompt'[r] = prompt[x] /\ tokens'[r] = tokens[x]
  BY <1>7
<1>9. \A r \in SeqIds : \A k \in DOMAIN page_tables[r] :
        /\ page_tables[r][k] \in Blocks
        /\ physical_blocks'[page_tables[r][k]].hash = physical_blocks[page_tables[r][k]].hash
        /\ physical_blocks'[page_tables[r][k]].filled = physical_blocks[page_tables[r][k]].filled
  <2>1. \A r \in SeqIds : \A k \in DOMAIN page_tables[r] : page_tables[r][k] \in Blocks
    BY DEF KVInv, KVTypes
  <2> QED BY <1>6, <2>1
<1>10. forked' # "partial" =>
         /\ forked # "partial"
         /\ \A k \in DOMAIN page_tables[parent] :
              physical_blocks[page_tables[parent][k]].filled = BlockSize
  <2> SUFFICES ASSUME forked' # "partial", NEW k \in DOMAIN page_tables[parent]
               PROVE  physical_blocks[page_tables[parent][k]].filled = BlockSize
    BY <1>5
  <2>1. ~(Available(parent) > 0)
    BY <1>5
  <2>2. physical_blocks[Last(page_tables[parent])].filled = BlockSize
    BY <1>4, <2>1, LastFacts
  <2>3. Last(page_tables[parent]) = page_tables[parent][Len(page_tables[parent])]
    BY <1>4, LastFacts
  <2>4. k < Len(page_tables[parent]) \/ k = Len(page_tables[parent])
    BY <1>1
  <2>5. k < Len(page_tables[parent]) =>
          physical_blocks[page_tables[parent][k]].filled = BlockSize
    BY DEF KVInv, Tables
  <2> QED BY <2>2, <2>3, <2>4, <2>5
<1>11. forked' # "no" /\ forked' \in {"no", "full", "partial"}
  BY <1>5 DEF KVInv, KVTypes
<1>12. KVTypes'
  <2>1. physical_blocks' \in [Blocks -> Block]
    BY <1>5, <1>6
  <2>2. /\ page_tables' \in [SeqIds -> Seq(Blocks)]
        /\ prompt' \in [SeqIds -> Prompts \cup {NoPrompt}]
        /\ tokens' \in [SeqIds -> Nat]
    BY <1>5 DEF KVInv, KVTypes
  <2>3. orphans' \in [Blocks -> Nat]
    <3>1. \A b \in Blocks : orphans[b] + Once(b, ToSet(u)) \in Nat
      BY <1>3 DEF KVInv, KVTypes
    <3> QED BY <1>5, <3>1
  <2> QED BY <1>5, <1>11, <2>1, <2>2, <2>3 DEF KVInv, KVTypes
<1>13. Places'
  <2>1. \A b \in Blocks : physical_blocks'[b].ref > 0 <=> physical_blocks[b].ref > 0
    <3> SUFFICES ASSUME NEW b \in Blocks
                 PROVE  physical_blocks'[b].ref > 0 <=> physical_blocks[b].ref > 0
      OBVIOUS
    <3>1. b \in ToSet(t) => physical_blocks[b].ref > 0
      BY <1>1, UsedInTables
    <3>2. b \notin ToSet(t) => Once(b, ToSet(t)) = 0
      BY DEF Once
    <3> QED BY <1>3, <1>6, <3>1, <3>2
  <2>2. Used' = Used
    BY <2>1 DEF Used
  <2>3. free_block_stack' = free_block_stack /\ lru_list' = lru_list
    BY <1>5
  <2>4. /\ ToSet(free_block_stack)' = ToSet(free_block_stack) /\ ToSet(lru_list)' = ToSet(lru_list)
        /\ IsInjective(free_block_stack)' <=> IsInjective(free_block_stack)
        /\ IsInjective(lru_list)' <=> IsInjective(lru_list)
    BY <2>3 DEF ToSet, IsInjective
  <2> QED BY <2>2, <2>4 DEF KVInv, Places
<1>14. Hashes'
  <2>1. ToSet(lru_list) \subseteq Blocks /\ ToSet(free_block_stack) \subseteq Blocks
    BY HomesOf
  <2>2. \A c \in ToSet(lru_list) : EnablePrefixCaching /\ physical_blocks'[c].hash # <<>>
    BY <1>6, <2>1 DEF KVInv, Hashes
  <2>3. EnablePrefixCaching =>
          /\ \A c \in ToSet(free_block_stack) : physical_blocks'[c].hash = <<>>
          /\ \A c \in Blocks : physical_blocks'[c].hash # <<>> =>
               /\ physical_blocks'[c].hash \in DOMAIN tree
               /\ tree[physical_blocks'[c].hash] = c
               /\ physical_blocks'[c].filled = BlockSize
    BY <1>6, <2>1 DEF KVInv, Hashes
  <2>4. /\ free_block_stack' = free_block_stack /\ lru_list' = lru_list /\ tree' = tree
        /\ ToSet(free_block_stack)' = ToSet(free_block_stack) /\ ToSet(lru_list)' = ToSet(lru_list)
    BY <1>5 DEF ToSet
  <2>5. EnablePrefixCaching =>
          \A q \in DOMAIN tree : \A k \in 1..Len(q) : SubSeq(q, 1, k) \in DOMAIN tree
    BY DEF KVInv, Hashes
  <2> QED BY <2>2, <2>3, <2>4, <2>5 DEF Hashes
<1>15. Tables'
  <2>1. SUFFICES ASSUME NEW r \in SeqIds
        PROVE  /\ IsInjective(page_tables'[r])
               /\ Len(prompt'[r].full) <= Len(page_tables'[r])
               /\ \A k \in DOMAIN page_tables'[r] :
                    LET block == physical_blocks'[page_tables'[r][k]]
                    IN  /\ k <= Len(prompt'[r].full) => block.hash = Path(prompt'[r], k)
                        /\ k > Len(prompt'[r].full) /\ EnablePrefixCaching => block.hash = <<>>
                        /\ k < Len(page_tables'[r]) => block.filled = BlockSize
    BY DEF Tables, IsInjective, Path
  <2>2. PICK x \in SeqIds : page_tables'[r] = page_tables[x] /\ prompt'[r] = prompt[x]
    BY <1>8
  <2> QED BY <1>9, <2>2, SMTT(20) DEF KVInv, Tables
<1>16. Counts'
  <2>1. \A b \in Blocks :
          /\ physical_blocks'[b].ref \in Nat
          /\ physical_blocks'[b].ref + Once(b, ToSet(page_tables[child])) + orphans[b] =
               physical_blocks[b].ref + Once(b, ToSet(t)) + orphans'[b]
    <3> SUFFICES ASSUME NEW b \in Blocks
        PROVE  /\ physical_blocks'[b].ref \in Nat
               /\ physical_blocks'[b].ref + Once(b, ToSet(page_tables[child])) + orphans[b] =
                    physical_blocks[b].ref + Once(b, ToSet(t)) + orphans'[b]
      OBVIOUS
    <3>1. PICK f \in Nat, o \in Nat, x \in Nat, y \in Nat :
            /\ f = physical_blocks[b].ref /\ o = orphans[b]
            /\ x = Once(b, ToSet(u)) /\ y = Once(b, ToSet(t))
            /\ physical_blocks'[b].ref = f + y /\ orphans'[b] = o + x
      BY <1>3, <1>5, <1>6 DEF KVInv, KVTypes
    <3>2. (f + y) + x + o = f + y + (o + x) /\ f + y \in Nat
      OBVIOUS
    <3> QED BY <1>2, <3>1, <3>2
  <2>2. orphans' \in [Blocks -> Nat]
    BY <1>12 DEF KVTypes
  <2>3. ReferencesMove(child, t)
    BY <1>1, <1>5, <2>1, <2>2 DEF ReferencesMove
  <2> QED BY <2>3, CountsMove
<1>17. Sharing'
  <2>1. SUFFICES ASSUME NEW q \in SeqIds, NEW r \in SeqIds, q # r,
                        NEW i \in DOMAIN page_tables'[q], NEW j \in DOMAIN page_tables'[r],
                        page_tables'[q][i] = page_tables'[r][j], forked' # "partial"
        PROVE  physical_blocks'[page_tables'[q][i]].filled = BlockSize
    BY <1>11 DEF Sharing
  <2>2. PICK x \in SeqIds : /\ x = IF q = child THEN parent ELSE q
                            /\ page_tables'[q] = page_tables[x]
    BY <1>8
  <2>3. PICK y \in SeqIds : /\ y = IF r = child THEN parent ELSE r
                            /\ page_tables'[r] = page_tables[y]
    BY <1>8
  <2>4. physical_blocks'[page_tables[x][i]].filled = physical_blocks[page_tables[x][i]].filled
    BY <1>9, <2>1, <2>2
  <2>5. CASE x = y
    <3>1. x = parent
      BY <2>1, <2>2, <2>3, <2>5
    <3> QED BY <1>10, <2>1, <2>2, <2>4, <3>1
  <2>6. CASE x # y
    BY <1>10, <2>1, <2>2, <2>3, <2>4, <2>6 DEF KVInv, Sharing
  <2> QED BY <2>5, <2>6
<1>18. ContextLengthExact'
  <2>1. SUFFICES ASSUME forked' # "partial", NEW r \in SeqIds, page_tables'[r] # <<>>
        PROVE  (Len(page_tables'[r]) - 1) * BlockSize
                  + physical_blocks'[Last(page_tables'[r])].filled = tokens'[r]
    BY DEF ContextLengthExact, ContextLength, Registered, Last
  <2>2. PICK x \in SeqIds : page_tables'[r] = page_tables[x] /\ tokens'[r] = tokens[x]
    BY <1>8
  <2>3. x \in Registered
    BY <2>1, <2>2 DEF Registered
  <2>4. /\ Last(page_tables[x]) = page_tables[x][Len(page_tables[x])]
        /\ Len(page_tables[x]) \in DOMAIN page_tables[x]
    BY <2>3, LastFacts
  <2>5. physical_blocks'[Last(page_tables[x])].filled = physical_blocks[Last(page_tables[x])].filled
    BY <1>9, <2>4
  <2>6. (Len(page_tables[x]) - 1) * BlockSize
           + physical_blocks[Last(page_tables[x])].filled = tokens[x]
    BY <1>10, <2>1, <2>3 DEF KVInv, ContextLengthExact, ContextLength
  <2> QED BY <2>2, <2>5, <2>6
<1> QED BY <1>12, <1>13, <1>14, <1>15, <1>16, <1>17, <1>18 DEF KVInv

-----------------------------------------------------------------------------
(* The invariant holds at first, and every call keeps it.                  *)
LEMMA KVInvInit == Init => KVInv
<1> SUFFICES ASSUME Init PROVE KVInv
  OBVIOUS
<1>1. PICK n \in Nat : n = NumBlocks /\ Blocks = 0..(n - 1)
  BY Sizes DEF Blocks
<1>2. /\ physical_blocks = [b \in Blocks |-> [ref |-> 0, filled |-> 0, hash |-> <<>>]]
      /\ free_block_stack = [k \in 1..n |-> n - k]
      /\ lru_list = <<>> /\ tree = <<>>
      /\ page_tables = [s \in SeqIds |-> <<>>]
      /\ prompt = [s \in SeqIds |-> NoPrompt]
      /\ tokens = [s \in SeqIds |-> 0]
      /\ orphans = [b \in Blocks |-> 0]
      /\ outcome = "ok" /\ forked = "no"
  BY <1>1 DEF Init
<1>3. <<>> \in Seq(Contents) /\ <<>> \in Seq(Blocks) /\ DOMAIN <<>> = {} /\ Len(<<>>) = 0
  OBVIOUS
<1>4. /\ free_block_stack \in Seq(Blocks) /\ IsInjective(free_block_stack)
      /\ ToSet(free_block_stack) = Blocks
  <2>1. \A k \in 1..n : n - k \in Blocks
    BY <1>1
  <2>2. free_block_stack \in Seq(Blocks) /\ DOMAIN free_block_stack = 1..n
    BY <1>2, <2>1
  <2>3. IsInjective(free_block_stack)
    BY <1>2, <2>2 DEF IsInjective
  <2>4. \A b \in Blocks : n - b \in 1..n /\ n - (n - b) = b
    BY <1>1
  <2>5. \A b \in Blocks : \E k \in 1..n : free_block_stack[k] = b
    BY <1>2, <2>4
  <2> QED BY <1>2, <2>1, <2>2, <2>3, <2>5 DEF ToSet
<1>5. KVTypes
  <2>1. 0 \in 0..BlockSize
    BY Sizes
  <2>2. physical_blocks \in [Blocks -> Block]
    BY <1>2, <1>3, <2>1 DEF Block
  <2> QED BY <1>2, <1>3, <1>4, <2>2 DEF KVTypes
<1>6. ToSet(lru_list) = {} /\ IsInjective(lru_list)
  BY <1>2, <1>3 DEF ToSet, IsInjective
<1>7. Places
  <2>1. Used = {}
    BY <1>2 DEF Used
  <2> QED BY <1>4, <1>6, <2>1 DEF Places
<1>8. Hashes
  BY <1>2, <1>3, <1>4, <1>6 DEF Hashes
<1>9. \A s \in SeqIds : page_tables[s] = <<>> /\ prompt[s].full = <<>>
  BY <1>2 DEF NoPrompt
<1>10. Tables
  BY <1>3, <1>9 DEF Tables, IsInjective
<1>11. Counts
  <2>1. Registered = {}
    BY <1>9 DEF Registered
  <2>2. \A b \in Blocks : Entries(page_tables, b) = {}
    BY <1>3, <1>9 DEF Entries
  <2>3. IsFiniteSet({}) /\ Cardinality({}) = 0
    BY FS_EmptySet
  <2>4. \A b \in Blocks : physical_blocks[b].ref = 0 /\ orphans[b] = 0
    BY <1>2
  <2>5. \A b \in Blocks : Cardinality(Entries(page_tables, b)) = 0
    BY <2>2, <2>3
  <2> QED BY <2>1, <2>3, <2>4, <2>5 DEF Counts
<1>12. Sharing
  BY <1>3, <1>9 DEF Sharing
<1>13. ContextLengthExact
  BY <1>9 DEF ContextLengthExact, Registered
<1> QED BY <1>5, <1>7, <1>8, <1>10, <1>11, <1>12, <1>13 DEF KVInv

LEMMA KVInvStutter == KVInv /\ UNCHANGED vars => KVInv'
<1> SUFFICES ASSUME KVInv, UNCHANGED vars PROVE KVInv'
  OBVIOUS
<1>1. UNCHANGED <<physical_blocks, free_block_stack, lru_list, tree, page_tables,
                  prompt, tokens, orphans, outcome, forked>>
  BY DEF vars
<1>2. KVTypes'
  BY <1>1 DEF KVInv, KVTypes
<1>3. Places'
  BY <1>1 DEF KVInv, Places, Used, ToSet, IsInjective
<1>4. Hashes'
  BY <1>1 DEF KVInv, Hashes, ToSet
<1>5. Tables'
  BY <1>1 DEF KVInv, Tables, IsInjective, Path
<1>6. Counts'
  BY <1>1 DEF KVInv, Counts, Registered, Entries
<1>7. Sharing'
  BY <1>1 DEF KVInv, Sharing
<1>8. ContextLengthExact'
  BY <1>1 DEF KVInv, ContextLengthExact, ContextLength, Registered, Last
<1> QED BY <1>2, <1>3, <1>4, <1>5, <1>6, <1>7, <1>8 DEF KVInv

LEMMA KVInvNext ==
  ASSUME ~EvictedPromptsReturn, KVInv, [Next]_vars
  PROVE  KVInv'
<1>1. ASSUME NEW s \in SeqIds, NEW p \in Prompts, MatchIsCurrent(p), Register(s, p)
      PROVE  KVInv'
  BY <1>1, RegisterKeeps
<1>2. ASSUME NEW s \in SeqIds, NEW n \in AppendSizes, Append_tokens(s, n)
      PROVE  KVInv'
  BY <1>2, AppendWithinKeeps, AppendBeyondKeeps DEF Append_tokens
<1>3. ASSUME NEW s \in SeqIds, Unregister(s)
      PROVE  KVInv'
  BY <1>3, UnregisterKeeps
<1>4. ASSUME NEW s \in SeqIds, NEW t \in SeqIds, Fork(s, t)
      PROVE  KVInv'
  BY <1>4, ForkKeeps
<1> QED BY <1>1, <1>2, <1>3, <1>4, KVInvStutter DEF Next

LEMMA KVInvAlways ==
  ASSUME ~EvictedPromptsReturn
  PROVE  Spec => []KVInv
<1>1. KVInv /\ [Next]_vars => KVInv'
  BY KVInvNext
<1> QED BY <1>1, KVInvInit, PTL DEF Spec

(* Type correctness, on a pool and with prompts of any size, as long as no *)
(* prompt matches an evicted block.                                        *)
THEOREM KVTypesHold ==
  ASSUME ~EvictedPromptsReturn
  PROVE  Spec => []TypeOK
<1>1. ASSUME KVInv PROVE TypeOK
  <2>1. KVTypes
    BY <1>1 DEF KVInv
  <2>2. \A b \in Blocks : physical_blocks[b].ref \in Nat /\ physical_blocks[b].filled \in 0..BlockSize
    BY <2>1 DEF KVTypes, Block
  <2> QED BY <2>1, <2>2 DEF TypeOK, KVTypes
<1> QED BY <1>1, KVInvAlways, PTL

(* Every block is accounted for: it carries one reference for each page    *)
(* table entry that names it and each entry that was lost, and it is in    *)
(* one place, referenced, free or cached (register_sequence_with_prefix,   *)
(* append_tokens, unregister_sequence, fork_sequence), as long as no       *)
(* prompt matches an evicted block.                                        *)
THEOREM CacheAccounted ==
  ASSUME ~EvictedPromptsReturn
  PROVE  Spec => []BlocksAccounted
<1>1. ASSUME KVInv PROVE BlocksAccounted
  <2>1. KVTypes /\ Places /\ Hashes /\ Counts
    BY <1>1 DEF KVInv
  <2>2. RefCountsExact
    <3>1. \A b \in Blocks :
            physical_blocks[b].ref = orphans[b] + Cardinality(Entries(page_tables, b))
      BY <2>1 DEF Counts
    <3> QED BY <3>1 DEF RefCountsExact, Entries
  <2>3. /\ Cardinality(ToSet(free_block_stack)) = Len(free_block_stack)
        /\ Cardinality(ToSet(lru_list)) = Len(lru_list)
    BY <2>1, LenOfInjective DEF KVTypes, Places
  <2>4. \A b \in ToSet(lru_list) :
          /\ physical_blocks[b].hash \in DOMAIN tree
          /\ tree[physical_blocks[b].hash] = b
          /\ physical_blocks[b].filled = BlockSize
    BY <1>1, <2>1, HomesOf DEF Hashes
  <2>5. OneHome
    BY <2>1, <2>3, <2>4 DEF OneHome, Places, Used
  <2> QED BY <2>2, <2>5 DEF BlocksAccounted
<1> QED BY <1>1, KVInvAlways, PTL

(* The context length prepare_batch_metadata computes from a page table is *)
(* the number of tokens the sequence was given, as long as no prompt       *)
(* matches an evicted block and no fork shared a partial one.              *)
THEOREM LengthsExact ==
  ASSUME ~EvictedPromptsReturn
  PROVE  Spec => []ContextLengthExact
<1>1. KVInv => ContextLengthExact
  BY DEF KVInv
<1> QED BY <1>1, KVInvAlways, PTL

(* Two sequences share a block only where their prompts agree up to and    *)
(* including it (the prefix tree of register_sequence_with_prefix), unless *)
(* one was forked from the other, and as long as no prompt matches an      *)
(* evicted block.                                                          *)
THEOREM SharingFollowsPrefixes ==
  ASSUME ~EvictedPromptsReturn
  PROVE  Spec => []SharedOnlyByPrefix
<1>1. ASSUME KVInv, forked = "no", NEW s \in Registered, NEW t \in Registered, s # t,
             NEW i \in DOMAIN page_tables[s], NEW j \in DOMAIN page_tables[t],
             page_tables[s][i] = page_tables[t][j]
      PROVE  /\ i = j
             /\ i <= Len(prompt[s].full) /\ i <= Len(prompt[t].full)
             /\ Path(prompt[s], i) = Path(prompt[t], i)
  <2>1. s \in SeqIds /\ t \in SeqIds
    BY DEF Registered
  <2>2. i <= Len(prompt[s].full) /\ j <= Len(prompt[t].full)
    BY <1>1, <2>1 DEF KVInv, Sharing
  <2>3. Path(prompt[s], i) = Path(prompt[t], j)
    BY <1>1, <2>1, <2>2 DEF KVInv, Tables
  <2>4. /\ prompt[s] \in Prompts \cup {NoPrompt} /\ prompt[t] \in Prompts \cup {NoPrompt}
        /\ page_tables[s] \in Seq(Blocks) /\ page_tables[t] \in Seq(Blocks)
    BY <1>1, <2>1 DEF KVInv, KVTypes
  <2>5. i \in Nat /\ j \in Nat
    BY <2>4
  <2>6. Len(prompt[s].full) \in Nat /\ Len(prompt[t].full) \in Nat
    BY <2>4, Sizes
  <2>7. i \in 0..Len(prompt[s].full) /\ j \in 0..Len(prompt[t].full)
    BY <2>2, <2>5, <2>6
  <2>8. Len(Path(prompt[s], i)) = i /\ Len(Path(prompt[t], j)) = j
    BY <2>4, <2>7, PathFacts
  <2>9. i = j
    BY <2>3, <2>8
  <2> QED BY <2>2, <2>3, <2>9
<1>2. KVInv => SharedOnlyByPrefix
  BY <1>1 DEF SharedOnlyByPrefix
<1> QED BY <1>2, KVInvAlways, PTL
=============================================================================
