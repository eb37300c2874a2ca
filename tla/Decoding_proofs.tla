-------------------------- MODULE Decoding_proofs --------------------------
(***************************************************************************)
(* Proofs about the steps of decoding: what is staged for the device       *)
(* before a step, the kernels for a row, and the tokens that speculation   *)
(* puts out.                                                               *)
(*                                                                         *)
(* KVMetadataStaging: under Waits, the way the callers in the repository   *)
(* use prepare_batch_metadata, whatever tables, batches and streams there  *)
(* are.  The invariant says that one stream at most has anything under     *)
(* way, which of the operations of one call are still to come, and that    *)
(* the buffer each of them reads holds the batch of the call.              *)
(*                                                                         *)
(* FusedRMSNorm and FusedSampling: how many warps a block has is open.     *)
(* Both invariants say how far apart the barriers let the warps be, and    *)
(* what each slot of shared memory holds at each stage of its warp; the    *)
(* sums of the warps are that of the row as their items partition it.      *)
(* FlashAttention: the accumulator holds the weights of the keys so far    *)
(* under the running maximum, and the denominator is the sum of those.     *)
(*                                                                         *)
(* SpeculativeVerification implements TargetDecoding, and SpeculativeStep  *)
(* puts out tokens that follow in the target model.  Both invariants say   *)
(* that what the loop has accepted is the beginning of what was drafted,   *)
(* so that the token it compares the next candidate to is the last one     *)
(* put out.                                                                *)
(***************************************************************************)
EXTENDS KVMetadataStaging, FusedRMSNorm, FusedSampling, FlashAttention,
        SpeculativeVerification, SpeculativeStep, SequenceTheorems,
        SumTheorems, TLAPS

(* Finitely many numbers have a bound, and a greatest among them and 0. *)
LEMMA Bound ==
  ASSUME NEW n \in Nat, NEW l, \A i \in 1..n : l[i] \in Nat
  PROVE  \E B \in Nat : \A i \in 1..n : l[i] <= B
<1> DEFINE Bounded(j) == \E B \in Nat : \A i \in 1..j : l[i] <= B
           Unbounded == {j \in 0..n : ~Bounded(j)}
<1> SUFFICES ASSUME ~Bounded(n) PROVE FALSE
  OBVIOUS
<1>1. PICK m \in Unbounded : \A j \in Unbounded : m <= j
  <2>1. n \in Unbounded /\ Unbounded \in SUBSET Nat
    OBVIOUS
  <2> HIDE DEF Unbounded
  <2> QED BY <2>1, LeastNumber
<1>2. Bounded(0)
  <2>1. 0 \in Nat /\ \A i \in 1..0 : l[i] <= 0
    OBVIOUS
  <2> QED BY <2>1
<1>3. m \in 1..n /\ m - 1 \in 0..n /\ m - 1 \notin Unbounded
  <2> HIDE DEF Bounded
  <2> QED BY <1>1, <1>2
<1>4. PICK B \in Nat : \A i \in 1..m - 1 : l[i] <= B
  BY <1>3
<1>5. \A i \in 1..m : l[i] <= B + l[m]
  <2> SUFFICES ASSUME NEW i \in 1..m PROVE l[i] <= B + l[m]
    OBVIOUS
  <2>1. l[m] \in Nat /\ l[i] \in Nat /\ (i = m \/ i \in 1..m - 1)
    BY <1>3
  <2> QED BY <1>4, <2>1
<1>6. B + l[m] \in Nat
  BY <1>3
<1>7. Bounded(m)
  BY <1>5, <1>6
<1> QED BY <1>1, <1>7

LEMMA Greatest ==
  ASSUME NEW n \in Nat, NEW l, \A i \in 1..n : l[i] \in Nat
  PROVE  LET S == {0} \cup {l[i] : i \in 1..n}
         IN  Max(S) \in Nat /\ \A i \in 1..n : l[i] <= Max(S)
<1> DEFINE S == {0} \cup {l[i] : i \in 1..n}
<1>1. PICK B \in Nat : \A i \in 1..n : l[i] <= B
  BY Bound
<1>2. S \subseteq Nat /\ \A x \in S : x <= B
  BY <1>1
<1>3. 0 \in S /\ \A i \in 1..n : l[i] \in S
  OBVIOUS
<1> HIDE DEF S
<1> DEFINE T == {m \in Nat : B - m \in S}
<1>4. \A x \in S : x \in Nat /\ B - x \in T
  BY <1>2
<1>5. PICK m \in T : \A j \in T : m <= j
  <2>1. T \in SUBSET Nat /\ T # {}
    BY <1>3, <1>4
  <2> HIDE DEF T
  <2> QED BY <2>1, LeastNumber
<1>6. B - m \in S /\ m \in Nat
  BY <1>5
<1>7. \A x \in S : B - m >= x
  <2> SUFFICES ASSUME NEW x \in S PROVE B - m >= x
    OBVIOUS
  <2>1. x \in Nat /\ m <= B - x
    BY <1>4, <1>5
  <2> QED BY <1>6, <2>1
<1> HIDE DEF T
<1>8. Max(S) \in S /\ \A x \in S : Max(S) >= x
  BY <1>6, <1>7 DEF Max
<1>9. Max(S) \in Nat /\ \A i \in 1..n : l[i] \in Nat /\ l[i] <= Max(S)
  <2>1. Max(S) \in Nat
    BY <1>2, <1>8
  <2>2. ASSUME NEW i \in 1..n PROVE l[i] \in Nat /\ l[i] <= Max(S)
    BY <1>3, <1>8, <2>1
  <2> QED BY <2>1, <2>2
<1> QED BY <1>9 DEF S

-----------------------------------------------------------------------------
(* What a buffer has to hold for a kernel, and where the kernel reads. *)
Entry(t, b) == IF b <= Len(t.blocks) THEN t.blocks[b] ELSE Unset

TablesHeld(buffer, kernel) ==
  \A i \in DOMAIN kernel.want :
    /\ Len(kernel.want[i].blocks) <= kernel.width
    /\ \A b \in 1..kernel.width :
         buffer.tables[CellOf(i, b, kernel.width)] = Entry(kernel.want[i], b)

LensHeld(buffer, kernel) ==
  \A i \in DOMAIN kernel.want : buffer.lens[i] = ContextLen(kernel.want[i])

Inside(kernel) ==
  \A i \in DOMAIN kernel.want :
    /\ i \in 1..MaxBatch /\ i <= kernel.cells
    /\ \A b \in 1..kernel.width :
         /\ CellOf(i, b, kernel.width) \in Cells
         /\ CellOf(i, b, kernel.width) < kernel.cells * kernel.width

Kernel(d) == d.op = "kernel" /\ Inside(d)

(* What a stream and its caller have under way. *)
Operation ==
  [op : {"copy_tables", "copy_lens", "kernel"}, cells : Nat,
   want : Seq(Tables), width : Nat]

Ops(st) == queue[st] \o descriptor[st]

CopiesToCome(st, d) ==
  /\ Ops(st) = <<CopyTables(d.cells * d.width), CopyLens(d.cells), d>>
  /\ TablesHeld(pinned, d) /\ LensHeld(pinned, d)

LensToCome(st, d) ==
  /\ Ops(st) = <<CopyLens(d.cells), d>>
  /\ TablesHeld(device, d) /\ LensHeld(pinned, d)

KernelToCome(st, d) ==
  /\ Ops(st) = <<d>>
  /\ TablesHeld(device, d) /\ LensHeld(device, d)

UnderWay(st) ==
  \/ Ops(st) = <<>>
  \/ \E n \in Nat : Ops(st) = <<CopyTables(n)>>
  \/ \E d \in Operation :
       Kernel(d) /\ (CopiesToCome(st, d) \/ LensToCome(st, d) \/ KernelToCome(st, d))

StagingTypes ==
  /\ page_tables \in [SeqIds -> Tables \cup {NoTable}]
  /\ queue \in [Streams -> Seq(Operation)]
  /\ descriptor \in [Streams -> Seq(Operation)]
  /\ device = [tables |-> device.tables, lens |-> device.lens]
  /\ DOMAIN device.tables = Cells /\ DOMAIN device.lens = 1..MaxBatch

OneAtATime ==
  \A st, other \in Streams : Ops(st) # <<>> /\ Ops(other) # <<>> => st = other

StagingInv == StagingTypes /\ OneAtATime /\ \A st \in Streams : UnderWay(st)

-----------------------------------------------------------------------------
(* The cells of a row, and of all rows. *)
LEMMA Division ==
  ASSUME NEW q \in Nat, NEW n \in Nat \ {0}, NEW r \in 0..(n - 1)
  PROVE  (q * n + r) \div n = q /\ (q * n + r) % n = r
OBVIOUS

LEMMA ProductGrows ==
  ASSUME NEW a \in Nat, NEW b \in Nat, NEW w \in Nat, a <= b
  PROVE  a * w <= b * w
<1>1. b = a + (b - a) /\ b - a \in Nat
  OBVIOUS
<1>2. b * w = a * w + (b - a) * w
  BY <1>1
<1>3. (b - a) * w \in Nat /\ a * w \in Nat
  BY <1>1
<1> QED BY <1>2, <1>3

LEMMA CellsOfRow ==
  ASSUME NEW n \in Nat, NEW w \in Nat, NEW i \in 1..n, NEW b \in 1..w,
         n <= MaxBatch, w <= MaxBlocks
  PROVE  /\ CellOf(i, b, w) \in 0..(n * w - 1)
         /\ CellOf(i, b, w) \in Cells
         /\ CellOf(i, b, w) \div w = i - 1 /\ CellOf(i, b, w) % w = b - 1
<1>1. MaxBatch \in Nat /\ MaxBlocks \in Nat /\ w # 0
  BY StagingAssumption
<1>2. CellOf(i, b, w) \div w = i - 1 /\ CellOf(i, b, w) % w = b - 1
  <2>1. i - 1 \in Nat /\ b - 1 \in 0..(w - 1) /\ w \in Nat \ {0}
    BY <1>1
  <2>2. /\ ((i - 1) * w + (b - 1)) \div w = i - 1
        /\ ((i - 1) * w + (b - 1)) % w = b - 1
    BY <2>1, Division
  <2> QED BY <2>2 DEF CellOf
<1>3. i * w <= n * w /\ n * w <= MaxBatch * w
  BY <1>1, ProductGrows
<1>4. MaxBatch * w <= MaxBatch * MaxBlocks
  <2>1. w * MaxBatch <= MaxBlocks * MaxBatch
    BY <1>1, ProductGrows
  <2> QED BY <1>1, <2>1
<1>5. i * w = (i - 1) * w + w /\ (i - 1) * w \in Nat /\ i * w \in Nat
      /\ n * w \in Nat /\ MaxBatch * w \in Nat /\ MaxBatch * MaxBlocks \in Nat
  BY <1>1
<1>6. CellOf(i, b, w) = (i - 1) * w + (b - 1)
  BY DEF CellOf
<1>7. CellOf(i, b, w) \in 0..(n * w - 1) /\ CellOf(i, b, w) \in 0..(MaxBatch * MaxBlocks - 1)
  <2> DEFINE x == (i - 1) * w
             y == i * w
             z == n * w
             u == MaxBatch * w
             v == MaxBatch * MaxBlocks
  <2>1. x \in Nat /\ y \in Nat /\ z \in Nat /\ u \in Nat /\ v \in Nat /\ y = x + w
        /\ y <= z /\ z <= u /\ u <= v
    BY <1>3, <1>4, <1>5
  <2> HIDE DEF x, y, z, u, v
  <2>2. x + (b - 1) \in 0..(z - 1) /\ x + (b - 1) \in 0..(v - 1)
    BY <2>1
  <2> QED BY <1>6, <2>2 DEF x, z, v
<1> QED BY <1>2, <1>7 DEF Cells

(* Preparing a batch writes what its kernel will want. *)
LEMMA BatchFlattened ==
  ASSUME StagingTypes, NEW batch \in Batches, BatchFits(batch)
  PROVE  LET d == Described(batch)
             p == Flattened(batch, Width(batch))
         IN  /\ d \in Operation /\ Kernel(d)
             /\ TablesHeld(p, d) /\ LensHeld(p, d)
             /\ d.cells = Len(batch) /\ d.width = Width(batch)
<1> DEFINE n == Len(batch)
           w == Width(batch)
           d == Described(batch)
           p == Flattened(batch, w)
           table(i) == page_tables[batch[i]]
<1>1. n \in Nat /\ DOMAIN batch = 1..n /\ batch \in Seq(SeqIds)
  BY StagingAssumption
<1>2. \A i \in 1..n : /\ table(i) \in Tables
                      /\ table(i).blocks \in Seq(Nat) /\ Len(table(i).blocks) \in Nat
  <2> SUFFICES ASSUME NEW i \in 1..n PROVE /\ table(i) \in Tables
                      /\ table(i).blocks \in Seq(Nat) /\ Len(table(i).blocks) \in Nat
    OBVIOUS
  <2>1. table(i) \in Tables
    BY <1>1 DEF StagingTypes, BatchFits
  <2> QED BY <2>1, StagingAssumption
<1>3. w \in Nat /\ \A i \in 1..n : Len(table(i).blocks) <= w
  <2> DEFINE l == [i \in 1..n |-> Len(table(i).blocks)]
  <2>1. \A i \in 1..n : l[i] \in Nat
    BY <1>2
  <2>2. w = Max({0} \cup {l[i] : i \in 1..n})
    BY <1>1 DEF Width
  <2> HIDE DEF l
  <2>3. w \in Nat /\ \A i \in 1..n : l[i] <= w
    BY <1>1, <2>1, <2>2, Greatest
  <2> QED BY <2>3 DEF l
<1>4. n <= MaxBatch /\ w <= MaxBlocks
  BY DEF BatchFits
<1>5. /\ d = [op |-> "kernel", cells |-> n, width |-> w,
              want |-> [i \in 1..n |-> table(i)]]
      /\ d.op = "kernel" /\ d.cells = n /\ d.width = w /\ DOMAIN d.want = 1..n
      /\ \A i \in 1..n : d.want[i] = table(i)
  BY <1>1 DEF Described
<1>6. d \in Operation
  BY <1>1, <1>2, <1>3, <1>5 DEF Operation
<1>7. \A i \in 1..n, b \in 1..w :
        /\ CellOf(i, b, w) \in 0..(n * w - 1) /\ CellOf(i, b, w) \in Cells
        /\ CellOf(i, b, w) \div w = i - 1 /\ CellOf(i, b, w) % w = b - 1
  BY <1>1, <1>3, <1>4, CellsOfRow
<1>8. Kernel(d)
  <2>1. n * w \in Nat /\ MaxBatch \in Nat
    BY <1>1, <1>3, StagingAssumption
  <2>2. \A i \in 1..n, b \in 1..w : CellOf(i, b, w) < n * w
    BY <1>7, <2>1
  <2>3. \A i \in 1..n : i \in 1..MaxBatch /\ i <= n
    BY <1>1, <1>4, <2>1
  <2> HIDE DEF n, w, d
  <2> QED BY <1>5, <1>7, <2>2, <2>3 DEF Kernel, Inside
<1>9. LensHeld(p, d)
  <2>1. p.lens = [i \in 1..MaxBatch |->
                   IF i <= n THEN ContextLen(table(i)) ELSE pinned.lens[i]]
    BY DEF Flattened
  <2>2. \A i \in 1..n : i \in 1..MaxBatch /\ i <= n
    BY <1>1, <1>4, StagingAssumption
  <2>3. \A i \in 1..n : p.lens[i] = ContextLen(table(i))
    BY <2>1, <2>2
  <2> HIDE DEF p, d, n, w
  <2> QED BY <1>5, <2>3 DEF LensHeld
<1>10. TablesHeld(p, d)
  <2> DEFINE laid == 0..(n * w - 1)
             at(c) == LET t == page_tables[batch[(c \div w) + 1]]
                          b == (c % w) + 1
                      IN  IF b <= Len(t.blocks) THEN t.blocks[b] ELSE Unset
  <2>1. p.tables = [c \in Cells \cup laid |->
                     IF c \in laid THEN [x \in laid |-> at(x)][c] ELSE pinned.tables[c]]
    BY DEF Flattened
  <2>2. \A c \in laid : p.tables[c] = at(c)
    BY <2>1
  <2>3. ASSUME NEW i \in 1..n, NEW b \in 1..w
        PROVE  p.tables[CellOf(i, b, w)] = Entry(table(i), b)
    <3>1. CellOf(i, b, w) \in laid
      BY <1>7
    <3>2. (CellOf(i, b, w) \div w) + 1 = i /\ (CellOf(i, b, w) % w) + 1 = b
      BY <1>7
    <3> QED BY <2>2, <3>1, <3>2 DEF Entry
  <2> HIDE DEF p, d, n, w
  <2> QED BY <1>3, <1>5, <2>3 DEF TablesHeld
<1> QED BY <1>5, <1>6, <1>8, <1>9, <1>10

-----------------------------------------------------------------------------
LEMMA TakeHead ==
  ASSUME NEW T, NEW q \in Seq(T), q # <<>>, NEW d \in Seq(T)
  PROVE  q \o d # <<>> /\ Head(q \o d) = Head(q) /\ Tail(q \o d) = Tail(q) \o d
<1> DEFINE l == q \o d
           r == Tail(q)
           m == r \o d
           n == Len(q)
           h == Len(d)
<1>1. /\ r \in Seq(T) /\ Len(r) = n - 1 /\ n \in Nat \ {0} /\ h \in Nat
      /\ \A i \in 1..Len(r) : r[i] = q[i + 1]
      /\ Head(q) = q[1]
  BY HeadTailProperties, EmptySeq
<1>2. /\ l \in Seq(T) /\ Len(l) = n + h
      /\ \A i \in 1..n + h : l[i] = IF i <= n THEN q[i] ELSE d[i - n]
  BY ConcatProperties
<1> HIDE DEF n, h, r
<1>3. /\ m \in Seq(T) /\ Len(m) = n + h - 1
      /\ \A i \in 1..n + h - 1 :
           m[i] = IF i <= n - 1 THEN r[i] ELSE d[i - n + 1]
  <2>1. /\ m \in Seq(T) /\ Len(m) = Len(r) + Len(d)
        /\ \A i \in 1..Len(r) + Len(d) :
             m[i] = IF i <= Len(r) THEN r[i] ELSE d[i - Len(r)]
    BY <1>1, ConcatProperties
  <2>2. Len(r) + Len(d) = n + h - 1
    BY <1>1 DEF h
  <2> HIDE DEF m
  <2>3. ASSUME NEW i \in 1..n + h - 1
        PROVE  m[i] = IF i <= n - 1 THEN r[i] ELSE d[i - n + 1]
    <3>1. i \in 1..Len(r) + Len(d)
      BY <2>2
    <3>2. i - Len(r) = i - n + 1
      BY <1>1, <2>3
    <3>3. m[i] = IF i <= Len(r) THEN r[i] ELSE d[i - Len(r)]
      BY <2>1, <3>1
    <3> QED BY <1>1, <3>2, <3>3
  <2> QED BY <2>1, <2>2, <2>3
<1> HIDE DEF l, m
<1>4. l # <<>>
  BY <1>1, <1>2, EmptySeq
<1>5. /\ Tail(l) \in Seq(T) /\ Len(Tail(l)) = n + h - 1 /\ Head(l) = l[1]
      /\ \A i \in 1..n + h - 1 : Tail(l)[i] = l[i + 1]
  <2>1. /\ Tail(l) \in Seq(T) /\ Len(Tail(l)) = Len(l) - 1
        /\ \A i \in 1..Len(Tail(l)) : Tail(l)[i] = l[i + 1]
    BY <1>2, <1>4, HeadTailProperties
  <2>2. Len(l) - 1 = n + h - 1
    BY <1>1, <1>2
  <2>3. Head(l) = l[1]
    BY <1>2, <1>4
  <2> QED BY <2>1, <2>2, <2>3
<1>6. \A i \in 1..n + h - 1 : m[i] = Tail(l)[i]
  <2> SUFFICES ASSUME NEW i \in 1..n + h - 1 PROVE m[i] = Tail(l)[i]
    OBVIOUS
  <2>1. Tail(l)[i] = l[i + 1] /\ i + 1 \in 1..n + h /\ i \in Nat
    BY <1>1, <1>5
  <2>2. CASE i <= n - 1
    <3>1. i \in 1..Len(r) /\ i + 1 <= n
      BY <1>1, <2>1, <2>2
    <3> QED BY <1>1, <1>2, <1>3, <2>1, <2>2, <3>1
  <2>3. CASE ~(i <= n - 1)
    <3>1. ~(i + 1 <= n) /\ (i + 1) - n = i - n + 1
      BY <1>1, <2>1, <2>3
    <3>2. l[i + 1] = d[(i + 1) - n] /\ m[i] = d[i - n + 1]
      BY <1>2, <1>3, <2>1, <2>3, <3>1
    <3> QED BY <2>1, <3>1, <3>2
  <2> QED BY <2>2, <2>3
<1>7. m = Tail(l)
  BY <1>3, <1>5, <1>6, SeqEqual
<1>8. Head(l) = q[1]
  BY <1>1, <1>2, <1>5
<1> QED BY <1>1, <1>4, <1>7, <1>8 DEF l, m, r

(* The queue of a stream and the descriptor of its caller as one sequence: *)
(* the device takes its head.                                              *)
LEMMA OpsTaken ==
  ASSUME StagingTypes, NEW st \in Streams, queue[st] # <<>>,
         queue' = [queue EXCEPT ![st] = Tail(@)], descriptor' = descriptor
  PROVE  /\ Ops(st) # <<>> /\ Head(queue[st]) = Head(Ops(st))
         /\ Ops(st)' = Tail(Ops(st))
         /\ \A other \in Streams : other # st => Ops(other)' = Ops(other)
<1>1. /\ queue[st] \in Seq(Operation) /\ descriptor[st] \in Seq(Operation)
      /\ queue'[st] = Tail(queue[st])
  BY DEF StagingTypes
<1>2. Ops(st) # <<>> /\ Head(queue[st]) = Head(Ops(st)) /\ Ops(st)' = Tail(Ops(st))
  <2>1. /\ queue[st] \o descriptor[st] # <<>>
        /\ Head(queue[st] \o descriptor[st]) = Head(queue[st])
        /\ Tail(queue[st] \o descriptor[st]) = Tail(queue[st]) \o descriptor[st]
    <3>1. queue[st] \in Seq(Operation) /\ descriptor[st] \in Seq(Operation) /\ queue[st] # <<>>
      BY <1>1
    <3> QED BY ONLY <3>1, TakeHead
  <2>2. Ops(st) = queue[st] \o descriptor[st]
    BY DEF Ops
  <2>3. Ops(st)' = Tail(queue[st]) \o descriptor[st]
    BY <1>1 DEF Ops
  <2> QED BY ONLY <2>1, <2>2, <2>3
<1>3. \A other \in Streams : other # st => Ops(other)' = Ops(other)
  <2>1. queue \in [Streams -> Seq(Operation)]
    BY DEF StagingTypes
  <2>2. \A other \in Streams : other # st => queue'[other] = queue[other]
    BY <2>1
  <2> QED BY <2>2 DEF Ops
<1> QED BY <1>2, <1>3

LEMMA OpsNone ==
  ASSUME StagingTypes, NEW st \in Streams
  PROVE  Ops(st) = <<>> <=> queue[st] = <<>> /\ descriptor[st] = <<>>
BY ConcatEqualIffEmpty DEF StagingTypes, Ops

(* Nothing else moves when the operations of the other streams stay. *)
LEMMA OthersStay ==
  ASSUME StagingInv, NEW st \in Streams, StagingTypes',
         \A other \in Streams : other # st => Ops(other)' = Ops(other),
         \A other \in Streams : other # st => Ops(other) = <<>>,
         UnderWay(st)'
  PROVE  StagingInv'
<1>1. \A other \in Streams : other # st => UnderWay(other)'
  BY DEF UnderWay
<1>2. OneAtATime'
  BY DEF OneAtATime
<1> QED BY <1>1, <1>2 DEF StagingInv

LEMMA AloneWhenBusy ==
  ASSUME StagingInv, NEW st \in Streams, Ops(st) # <<>>
  PROVE  \A other \in Streams : other # st => Ops(other) = <<>>
BY DEF StagingInv, OneAtATime

(* The steps. *)
LEMMA StagingInitInv == StagingInit => StagingInv
<1> SUFFICES ASSUME StagingInit PROVE StagingInv
  OBVIOUS
<1>1. StagingTypes
  BY DEF StagingInit, StagingTypes, Blank
<1>2. \A st \in Streams : Ops(st) = <<>>
  BY <1>1, OpsNone DEF StagingInit
<1> QED BY <1>1, <1>2 DEF StagingInv, OneAtATime, UnderWay

LEMMA PreparePrefix ==
  ASSUME StagingInv, NEW st \in Streams, NEW batch \in Batches, Idle, BatchFits(batch)
  PROVE  LET d == Described(batch)
             p == Flattened(batch, Width(batch))
         IN  /\ d \in Operation /\ Kernel(d)
             /\ TablesHeld(p, d) /\ LensHeld(p, d)
             /\ d.cells = Len(batch) /\ d.width = Width(batch)
             /\ CopyTables(Len(batch) * Width(batch)) \in Operation
             /\ CopyLens(Len(batch)) \in Operation
             /\ Len(batch) * Width(batch) \in Nat
             /\ queue[st] = <<>> /\ descriptor[st] = <<>>
             /\ \A other \in Streams : Ops(other) = <<>>
<1>1. StagingTypes
  BY DEF StagingInv
<1>2. LET d == Described(batch)
          p == Flattened(batch, Width(batch))
      IN  /\ d \in Operation /\ Kernel(d)
          /\ TablesHeld(p, d) /\ LensHeld(p, d)
          /\ d.cells = Len(batch) /\ d.width = Width(batch)
  BY <1>1, BatchFlattened
<1>3. Len(batch) \in Nat /\ Width(batch) \in Nat
  BY <1>2 DEF Operation
<1>4. Len(batch) * Width(batch) \in Nat
  BY <1>3
<1>5. /\ CopyTables(Len(batch) * Width(batch)) \in Operation
      /\ CopyLens(Len(batch)) \in Operation
  BY <1>3, <1>4 DEF CopyTables, CopyLens, Operation
<1>6. \A other \in Streams : Ops(other) = <<>>
  BY <1>1, OpsNone DEF Idle
<1> QED BY <1>2, <1>4, <1>5, <1>6 DEF Idle

LEMMA PrepareInv ==
  ASSUME Waits, StagingInv, NEW st \in Streams, NEW batch \in Batches, Prepare(st, batch)
  PROVE  StagingInv'
<1>0. PICK d, p, c, e : /\ d = Described(batch) /\ p = Flattened(batch, Width(batch))
                        /\ c = CopyTables(Len(batch) * Width(batch))
                        /\ e = CopyLens(Len(batch))
  OBVIOUS
<1>1. /\ d \in Operation /\ Kernel(d) /\ TablesHeld(p, d) /\ LensHeld(p, d)
      /\ d.cells = Len(batch) /\ d.width = Width(batch)
      /\ c \in Operation /\ e \in Operation
      /\ queue[st] = <<>> /\ descriptor[st] = <<>>
      /\ \A other \in Streams : Ops(other) = <<>>
  BY <1>0, PreparePrefix DEF Prepare
<1>2. /\ pinned' = p /\ page_tables' = page_tables /\ device' = device
      /\ queue' = [queue EXCEPT ![st] = queue[st] \o <<c, e>>]
      /\ descriptor' = [descriptor EXCEPT ![st] = <<d>>]
  BY <1>0 DEF Prepare
<1>3. queue[st] \o <<c, e>> = <<c, e>> /\ <<c, e>> \in Seq(Operation)
  <2>1. <<c, e>> \in Seq(Operation)
    BY <1>1
  <2> QED BY <1>1, <2>1, ConcatEmptySeq
<1>4. StagingTypes /\ StagingTypes'
  BY <1>1, <1>2, <1>3 DEF StagingInv, StagingTypes
<1>5. queue'[st] = <<c, e>> /\ descriptor'[st] = <<d>>
  BY <1>2, <1>3, <1>4 DEF StagingTypes
<1>6. Ops(st)' = <<c, e, d>>
  <2>1. <<c, e>> \o <<d>> = <<c, e, d>>
    <3>1. /\ <<c, e>> \in Seq(Operation) /\ <<d>> \in Seq(Operation)
          /\ <<c, e, d>> \in Seq(Operation)
      BY <1>1
    <3>2. /\ <<c, e>> \o <<d>> \in Seq(Operation) /\ Len(<<c, e>> \o <<d>>) = 3
          /\ \A i \in 1..3 : (<<c, e>> \o <<d>>)[i]
                             = IF i <= 2 THEN <<c, e>>[i] ELSE <<d>>[i - 2]
      BY <3>1, ConcatProperties
    <3>3. \A i \in 1..3 : (<<c, e>> \o <<d>>)[i] = <<c, e, d>>[i]
      BY <3>2
    <3> QED BY <3>1, <3>2, <3>3, SeqEqual
  <2> QED BY <1>5, <2>1 DEF Ops
<1>7. \A other \in Streams : other # st => Ops(other)' = Ops(other)
  BY <1>2, <1>4 DEF StagingTypes, Ops
<1>8. CopiesToCome(st, d)'
  <2>1. c = CopyTables(d.cells * d.width) /\ e = CopyLens(d.cells)
    BY <1>0, <1>1
  <2> QED BY <1>1, <1>2, <1>6, <2>1 DEF CopiesToCome, TablesHeld, LensHeld
<1>9. UnderWay(st)'
  BY <1>1, <1>8 DEF UnderWay
<1> QED BY <1>1, <1>4, <1>7, <1>9, OthersStay

LEMMA PrepareThrowsInv ==
  ASSUME Waits, StagingInv, NEW st \in Streams, NEW batch \in Batches,
         PrepareThrows(st, batch)
  PROVE  StagingInv'
<1>0. PICK n, c : n = Len(batch) * Width(batch) /\ c = CopyTables(n)
  OBVIOUS
<1>1. /\ c \in Operation /\ n \in Nat /\ queue[st] = <<>> /\ descriptor[st] = <<>>
      /\ \A other \in Streams : Ops(other) = <<>>
  BY <1>0, PreparePrefix DEF PrepareThrows
<1>2. /\ page_tables' = page_tables /\ device' = device /\ descriptor' = descriptor
      /\ queue' = queue \/ queue' = [queue EXCEPT ![st] = Append(queue[st], c)]
  BY <1>0 DEF PrepareThrows
<1>3. StagingTypes /\ Append(queue[st], c) = <<c>> /\ <<c>> \in Seq(Operation)
  BY <1>1 DEF StagingInv
<1>4. StagingTypes'
  BY <1>2, <1>3 DEF StagingTypes
<1>5. \A other \in Streams : other # st => Ops(other)' = Ops(other)
  BY <1>2, <1>3 DEF StagingTypes, Ops
<1>6. Ops(st)' = <<>> \/ Ops(st)' = <<c>>
  <2>1. CASE queue' = queue
    BY <1>1, <1>2, <2>1 DEF Ops
  <2>2. CASE queue' = [queue EXCEPT ![st] = Append(queue[st], c)]
    <3>1. queue'[st] = <<c>> /\ descriptor'[st] = <<>>
      BY <1>1, <1>2, <1>3, <2>2 DEF StagingTypes
    <3> QED BY <1>3, <3>1, ConcatEmptySeq DEF Ops
  <2> QED BY <1>2, <2>1, <2>2
<1>7. UnderWay(st)'
  BY <1>0, <1>1, <1>6 DEF UnderWay
<1> QED BY <1>1, <1>4, <1>5, <1>7, OthersStay

LEMMA QuietSteps ==
  ASSUME StagingInv,
         \/ UNCHANGED stagingVars
         \/ \E s \in SeqIds : ChangeTable(s)
         \/ \E st \in Streams : Launch(st)
  PROVE  StagingInv'
<1>1. StagingTypes
  BY DEF StagingInv
<1>2. pinned' = pinned /\ device' = device
  BY DEF stagingVars, ChangeTable, Launch
<1>3. StagingTypes' /\ \A st \in Streams : Ops(st)' = Ops(st)
  <2>1. CASE UNCHANGED stagingVars
    BY <1>1, <2>1 DEF stagingVars, StagingTypes, Ops
  <2>2. ASSUME NEW s \in SeqIds, ChangeTable(s)
        PROVE  StagingTypes' /\ \A st \in Streams : Ops(st)' = Ops(st)
    BY <1>1, <2>2 DEF ChangeTable, StagingTypes, Ops
  <2>3. ASSUME NEW st \in Streams, Launch(st)
        PROVE  StagingTypes' /\ \A other \in Streams : Ops(other)' = Ops(other)
    <3>1. /\ queue' = [queue EXCEPT ![st] = queue[st] \o descriptor[st]]
          /\ descriptor' = [descriptor EXCEPT ![st] = <<>>]
          /\ UNCHANGED <<page_tables, device>>
      BY <2>3 DEF Launch
    <3>2. queue[st] \o descriptor[st] \in Seq(Operation) /\ <<>> \in Seq(Operation)
      BY <1>1, ConcatProperties DEF StagingTypes
    <3>3. StagingTypes'
      BY <1>1, <3>1, <3>2 DEF StagingTypes
    <3>4. Ops(st)' = Ops(st)
      <4>1. queue'[st] = queue[st] \o descriptor[st] /\ descriptor'[st] = <<>>
        BY <1>1, <3>1 DEF StagingTypes
      <4>2. (queue[st] \o descriptor[st]) \o <<>> = queue[st] \o descriptor[st]
        BY <3>2, ConcatEmptySeq
      <4> QED BY <4>1, <4>2 DEF Ops
    <3>5. \A other \in Streams : other # st => Ops(other)' = Ops(other)
      BY <1>1, <3>1 DEF StagingTypes, Ops
    <3> QED BY <3>3, <3>4, <3>5
  <2> QED BY <2>1, <2>2, <2>3
<1>4. OneAtATime'
  BY <1>3 DEF StagingInv, OneAtATime
<1>5. \A st \in Streams : UnderWay(st)'
  <2> SUFFICES ASSUME NEW st \in Streams PROVE UnderWay(st)'
    OBVIOUS
  <2>1. UnderWay(st)
    BY DEF StagingInv
  <2>2. Ops(st)' = Ops(st)
    BY <1>3
  <2>3. CASE \E d \in Operation :
               Kernel(d) /\ (CopiesToCome(st, d) \/ LensToCome(st, d) \/ KernelToCome(st, d))
    <3>1. PICK d \in Operation :
            Kernel(d) /\ (CopiesToCome(st, d) \/ LensToCome(st, d) \/ KernelToCome(st, d))
      BY <2>3
    <3>2. CopiesToCome(st, d)' \/ LensToCome(st, d)' \/ KernelToCome(st, d)'
      BY <1>2, <2>2, <3>1 DEF CopiesToCome, LensToCome, KernelToCome, TablesHeld, LensHeld
    <3>3. Kernel(d)'
      BY <3>1 DEF Kernel, Inside
    <3> QED BY <3>2, <3>3 DEF UnderWay
  <2> QED BY <2>1, <2>2, <2>3 DEF UnderWay
<1> QED BY <1>3, <1>4, <1>5 DEF StagingInv

(* The head of what a stream has under way tells how far it is. *)
LEMMA HeadTells ==
  ASSUME StagingInv, NEW st \in Streams, Ops(st) # <<>>
  PROVE  \/ \E n \in Nat : Ops(st) = <<CopyTables(n)>>
                           /\ Head(Ops(st)) = CopyTables(n) /\ Tail(Ops(st)) = <<>>
         \/ \E d \in Operation :
              /\ Kernel(d)
              /\ \/ /\ CopiesToCome(st, d)
                    /\ Head(Ops(st)) = CopyTables(d.cells * d.width)
                    /\ Tail(Ops(st)) = <<CopyLens(d.cells), d>>
                 \/ /\ LensToCome(st, d)
                    /\ Head(Ops(st)) = CopyLens(d.cells) /\ Tail(Ops(st)) = <<d>>
                 \/ KernelToCome(st, d) /\ Head(Ops(st)) = d /\ Tail(Ops(st)) = <<>>
<1>1. UnderWay(st)
  BY DEF StagingInv
<1>2. \A a, b, c : /\ Head(<<a>>) = a /\ Tail(<<a>>) = <<>>
                   /\ Head(<<a, b>>) = a /\ Tail(<<a, b>>) = <<b>>
                   /\ Head(<<a, b, c>>) = a /\ Tail(<<a, b, c>>) = <<b, c>>
  OBVIOUS
<1>3. ASSUME NEW n \in Nat, Ops(st) = <<CopyTables(n)>>
      PROVE  Head(Ops(st)) = CopyTables(n) /\ Tail(Ops(st)) = <<>>
  BY <1>2, <1>3
<1>4. ASSUME NEW d \in Operation, CopiesToCome(st, d)
      PROVE  /\ Head(Ops(st)) = CopyTables(d.cells * d.width)
             /\ Tail(Ops(st)) = <<CopyLens(d.cells), d>>
  BY <1>2, <1>4 DEF CopiesToCome
<1>5. ASSUME NEW d \in Operation, LensToCome(st, d)
      PROVE  Head(Ops(st)) = CopyLens(d.cells) /\ Tail(Ops(st)) = <<d>>
  BY <1>2, <1>5 DEF LensToCome
<1>6. ASSUME NEW d \in Operation, KernelToCome(st, d)
      PROVE  Head(Ops(st)) = d /\ Tail(Ops(st)) = <<>>
  BY <1>2, <1>6 DEF KernelToCome
<1>7. CASE \E n \in Nat : Ops(st) = <<CopyTables(n)>>
  BY <1>3, <1>7
<1>8. CASE \E d \in Operation :
             Kernel(d) /\ (CopiesToCome(st, d) \/ LensToCome(st, d) \/ KernelToCome(st, d))
  BY <1>4, <1>5, <1>6, <1>8
<1> QED BY <1>1, <1>7, <1>8 DEF UnderWay

LEMMA RunInv ==
  ASSUME StagingInv, NEW st \in Streams,
         RunCopyTables(st) \/ RunCopyLens(st) \/ RunKernel(st)
  PROVE  StagingInv'
<1> DEFINE o == Head(Ops(st))
<1>1. StagingTypes
  BY DEF StagingInv
<1>2. /\ queue[st] # <<>> /\ queue' = [queue EXCEPT ![st] = Tail(queue[st])]
      /\ descriptor' = descriptor /\ pinned' = pinned /\ page_tables' = page_tables
  BY DEF RunCopyTables, RunCopyLens, RunKernel
<1>3. /\ Ops(st) # <<>> /\ Head(queue[st]) = o /\ Ops(st)' = Tail(Ops(st))
      /\ \A other \in Streams : other # st => Ops(other)' = Ops(other)
  BY <1>1, <1>2, OpsTaken
<1>4. \A other \in Streams : other # st => Ops(other) = <<>>
  BY <1>3, AloneWhenBusy
<1>5. /\ device' = [tables |-> device'.tables, lens |-> device'.lens]
      /\ DOMAIN device'.tables = Cells /\ DOMAIN device'.lens = 1..MaxBatch
      /\ RunCopyTables(st) => /\ o.op = "copy_tables" /\ device'.lens = device.lens
                              /\ \A c \in Cells : c < o.cells =>
                                   device'.tables[c] = pinned.tables[c]
      /\ RunCopyLens(st) => /\ o.op = "copy_lens" /\ device'.tables = device.tables
                            /\ \A i \in 1..MaxBatch : i <= o.cells =>
                                 device'.lens[i] = pinned.lens[i]
      /\ RunKernel(st) => o.op = "kernel"
  <2>1. device = [tables |-> device.tables, lens |-> device.lens]
        /\ DOMAIN device.tables = Cells /\ DOMAIN device.lens = 1..MaxBatch
    BY <1>1 DEF StagingTypes
  <2> HIDE DEF o
  <2>2. CASE RunCopyTables(st)
    <3>1. /\ o.op = "copy_tables"
          /\ device' = [device EXCEPT !.tables =
               [c \in Cells |-> IF c < o.cells THEN pinned.tables[c] ELSE device.tables[c]]]
      BY <1>3, <2>1, <2>2 DEF RunCopyTables
    <3>2. device' = [tables |-> [c \in Cells |-> IF c < o.cells THEN pinned.tables[c]
                                                  ELSE device.tables[c]],
                     lens |-> device.lens]
      BY <2>1, <3>1
    <3>3. ~RunCopyLens(st) /\ ~RunKernel(st)
      BY <1>3, <3>1 DEF RunCopyLens, RunKernel
    <3> QED BY <2>1, <3>1, <3>2, <3>3
  <2>3. CASE RunCopyLens(st)
    <3>1. /\ o.op = "copy_lens"
          /\ device' = [device EXCEPT !.lens =
               [i \in 1..MaxBatch |-> IF i <= o.cells THEN pinned.lens[i] ELSE device.lens[i]]]
      BY <1>3, <2>1, <2>3 DEF RunCopyLens
    <3>2. device' = [tables |-> device.tables,
                     lens |-> [i \in 1..MaxBatch |-> IF i <= o.cells THEN pinned.lens[i]
                                                     ELSE device.lens[i]]]
      BY <2>1, <3>1
    <3>3. ~RunCopyTables(st) /\ ~RunKernel(st)
      BY <1>3, <3>1 DEF RunCopyTables, RunKernel
    <3> QED BY <2>1, <3>1, <3>2, <3>3
  <2>4. CASE RunKernel(st)
    <3>1. o.op = "kernel" /\ device' = device
      BY <1>3, <2>4 DEF RunKernel
    <3>2. ~RunCopyTables(st) /\ ~RunCopyLens(st)
      BY <1>3, <3>1 DEF RunCopyTables, RunCopyLens
    <3> QED BY <2>1, <3>1, <3>2
  <2> QED BY <2>2, <2>3, <2>4
<1>6. StagingTypes'
  <2>1. Tail(queue[st]) \in Seq(Operation)
    BY <1>1, <1>2, HeadTailProperties DEF StagingTypes
  <2> QED BY <1>1, <1>2, <1>5, <2>1 DEF StagingTypes
<1>7. UnderWay(st)'
  <2>1. CASE \E n \in Nat : Ops(st) = <<CopyTables(n)>>
                            /\ Head(Ops(st)) = CopyTables(n) /\ Tail(Ops(st)) = <<>>
    BY <1>3, <2>1 DEF UnderWay
  <2>2. ASSUME NEW d \in Operation, Kernel(d), CopiesToCome(st, d),
               o = CopyTables(d.cells * d.width), Tail(Ops(st)) = <<CopyLens(d.cells), d>>
        PROVE  UnderWay(st)'
    <3>1. o.op = "copy_tables" /\ o.cells = d.cells * d.width
      BY <2>2 DEF CopyTables
    <3>2. \A c \in Cells : c < d.cells * d.width => device'.tables[c] = pinned.tables[c]
      BY <1>5, <3>1 DEF RunCopyLens, RunKernel
    <3>3. TablesHeld(device', d) /\ LensHeld(pinned', d)
      BY <1>2, <2>2, <3>2 DEF CopiesToCome, TablesHeld, LensHeld, Kernel, Inside
    <3>4. LensToCome(st, d)'
      BY <1>3, <2>2, <3>3 DEF LensToCome, TablesHeld, LensHeld
    <3> QED BY <2>2, <3>4 DEF UnderWay, Kernel, Inside
  <2>3. ASSUME NEW d \in Operation, Kernel(d), LensToCome(st, d),
               o = CopyLens(d.cells), Tail(Ops(st)) = <<d>>
        PROVE  UnderWay(st)'
    <3>1. o.op = "copy_lens" /\ o.cells = d.cells
      BY <2>3 DEF CopyLens
    <3>2. /\ \A i \in 1..MaxBatch : i <= d.cells => device'.lens[i] = pinned.lens[i]
          /\ device'.tables = device.tables
      BY <1>5, <3>1 DEF RunCopyTables, RunKernel
    <3>3. TablesHeld(device', d) /\ LensHeld(device', d)
      BY <2>3, <3>2 DEF LensToCome, TablesHeld, LensHeld, Kernel, Inside
    <3>4. KernelToCome(st, d)'
      BY <1>3, <2>3, <3>3 DEF KernelToCome, TablesHeld, LensHeld
    <3> QED BY <2>3, <3>4 DEF UnderWay, Kernel, Inside
  <2>4. ASSUME Tail(Ops(st)) = <<>>
        PROVE  UnderWay(st)'
    BY <1>3, <2>4 DEF UnderWay
  <2> QED BY <1>3, <2>1, <2>2, <2>3, <2>4, HeadTells
<1> QED BY <1>3, <1>4, <1>6, <1>7, OthersStay

LEMMA StagingNextInv ==
  ASSUME Waits, StagingInv, [StagingNext]_stagingVars
  PROVE  StagingInv'
BY PrepareInv, PrepareThrowsInv, QuietSteps, RunInv DEF StagingNext

(* When the callers wait for the device between two calls, every kernel    *)
(* finds its own batch in the one device buffer they all share, inside its *)
(* capacity: for any tables, batches, widths and number of streams, and    *)
(* also after calls whose copy failed half way.                            *)
THEOREM KernelsSeeTheirBatch ==
  ASSUME Waits
  PROVE  StagingSpec => []KernelSeesItsBatch
<1>1. ASSUME StagingInv PROVE KernelSeesItsBatch
  <2> SUFFICES ASSUME NEW st \in Streams, queue[st] # <<>>, Head(queue[st]).op = "kernel"
               PROVE  ReadsOwnBatch(Head(queue[st]))
    BY DEF KernelSeesItsBatch
  <2>1. StagingTypes
    BY <1>1 DEF StagingInv
  <2>2. Ops(st) # <<>> /\ Head(Ops(st)) = Head(queue[st])
    BY <2>1, TakeHead DEF StagingTypes, Ops
  <2>3. PICK d \in Operation : Kernel(d) /\ KernelToCome(st, d) /\ Head(Ops(st)) = d
    BY <1>1, <2>2, HeadTells DEF CopyTables, CopyLens
  <2> QED BY <2>2, <2>3 DEF KernelToCome, TablesHeld, LensHeld, Kernel, Inside,
                            ReadsOwnBatch, Entry, ContextLen
<1> QED BY <1>1, StagingInitInv, StagingNextInv, PTL DEF StagingSpec


-----------------------------------------------------------------------------
(***************************************************************************)
(* The RMSNorm kernel, for any rows, vector size, warp and block size.     *)
(*                                                                         *)
(* First whole warps: how many a block has, and what is folded of them.    *)
(***************************************************************************)
LEMMA DivisionParts ==
  ASSUME NEW n \in Nat \ {0}, NEW a \in Nat
  PROVE  /\ a \div n \in Nat /\ a % n \in 0..(n - 1)
         /\ a = (a \div n) * n + (a % n)
OBVIOUS

LEMMA QuotientBelow ==
  ASSUME NEW n \in Nat \ {0}, NEW a \in Nat, NEW q \in Nat, a < q * n
  PROVE  a \div n < q
OBVIOUS

LEMMA QuotientAtMost ==
  ASSUME NEW n \in Nat \ {0}, NEW a \in Nat, NEW b \in Nat, a <= b
  PROVE  a \div n <= b \div n
OBVIOUS

LEMMA GreaterOfTwo ==
  ASSUME NEW a \in Nat, NEW b \in Nat
  PROVE  Max({a, b}) = IF a < b THEN b ELSE a
<1> DEFINE m == IF a < b THEN b ELSE a
<1>1. m \in {a, b} /\ \A y \in {a, b} : m >= y
  OBVIOUS
<1>2. Max({a, b}) \in {a, b} /\ \A y \in {a, b} : Max({a, b}) >= y
  <2> HIDE DEF m
  <2> QED BY <1>1 DEF Max
<1>3. PICK x : x = Max({a, b})
  OBVIOUS
<1>4. (x = a \/ x = b) /\ x >= a /\ x >= b
  BY <1>2, <1>3
<1>5. x = m
  BY <1>4
<1> QED BY <1>3, <1>5

LEMMA WholeWarps ==
  ASSUME NEW n \in Nat
  PROVE  \E nw \in 1..WarpSize : BlockFor(n) = nw * WarpSize
<1> DEFINE W == WarpSize
           f == MaxBlock \div W
           v == n \div VecSize
           q == (v + W - 1) \div W
<1>0. W \in Nat \ {0} /\ MaxBlock \in Nat \ {0} /\ VecSize \in Nat \ {0}
  BY NormAssumption, ThreadBlockAssumption
<1>1. f \in Nat /\ MaxBlock = f * W /\ f <= W
  <2>1. MaxBlock = f * W + (MaxBlock % W) /\ MaxBlock % W = 0 /\ f <= W
    BY <1>0, DivisionParts, NormAssumption
  <2>2. f \in Nat
    BY <1>0, DivisionParts
  <2>3. f * W \in Nat
    BY <1>0, <2>2
  <2> QED BY <2>1, <2>2, <2>3
<1>2. v \in Nat
  BY <1>0, DivisionParts
<1>3. CASE v >= MaxBlock
  <2>1. BlockFor(n) = MaxBlock
    BY <1>0, <1>2, <1>3 DEF BlockFor
  <2>2. f # 0
    BY <1>0, <1>1
  <2> QED BY <1>1, <2>1, <2>2
<1>4. CASE v < MaxBlock
  <2>1. q \in Nat /\ q <= f
    <3>1. v + W - 1 \in Nat
      BY <1>0, <1>2
    <3>2. (f + 1) * W = f * W + W /\ f + 1 \in Nat
      BY <1>0, <1>1
    <3>3. v + W - 1 < (f + 1) * W
      <4> DEFINE z == f * W
                 u == (f + 1) * W
      <4>1. MaxBlock = z /\ u = z + W
        BY <1>1, <3>2
      <4> HIDE DEF z, u
      <4>2. v + W - 1 < u
        BY <1>0, <1>2, <1>4, <4>1
      <4> QED BY <4>2 DEF u
    <3>4. (v + W - 1) \div W < f + 1
      BY <1>0, <3>1, <3>2, <3>3, QuotientBelow
    <3>5. q \in Nat
      BY <1>0, <3>1, DivisionParts
    <3> HIDE DEF f, W, v
    <3> QED BY <1>1, <3>4, <3>5
  <2>2. BlockFor(n) = Max({W, q * W}) /\ q * W \in Nat
    BY <1>0, <1>4, <2>1 DEF BlockFor, RoundedUp
  <2>3. BlockFor(n) = IF W < q * W THEN q * W ELSE W
    BY <1>0, <2>2, GreaterOfTwo
  <2>4. CASE W < q * W
    <3>1. q # 0
      BY <1>0, <2>4
    <3> QED BY <1>0, <1>1, <2>1, <2>3, <2>4, <3>1
  <2>5. CASE ~(W < q * W)
    <3>1. BlockFor(n) = 1 * W /\ 1 \in 1..W
      BY <1>0, <2>3, <2>5
    <3> QED BY <3>1
  <2> QED BY <2>4, <2>5
<1> QED BY <1>0, <1>2, <1>3, <1>4

LEMMA WarpsOfBlock ==
  ASSUME NEW nw \in 1..WarpSize
  PROVE  /\ Warps(nw * WarpSize) = 0..(nw - 1)
         /\ FoldedSlots(nw * WarpSize) = 0..(nw - 1)
<1>0. WarpSize \in Nat \ {0} /\ nw \in Nat \ {0} /\ nw * WarpSize \in Nat
  BY ThreadBlockAssumption
<1>1. (nw * WarpSize + (WarpSize - 1)) \div WarpSize = nw
  BY <1>0, Division
<1>2. (nw * WarpSize + 0) \div WarpSize = nw
  BY <1>0, Division
<1>3. (nw * WarpSize) \div WarpSize = nw /\ (nw * WarpSize + WarpSize - 1) \div WarpSize = nw
  <2> DEFINE x == nw * WarpSize
  <2> HIDE DEF x
  <2>1. x + 0 = x /\ x + (WarpSize - 1) = x + WarpSize - 1
    BY <1>0 DEF x
  <2> QED BY <1>1, <1>2, <2>1 DEF x
<1>4. Warps(nw * WarpSize) = 0..(nw - 1)
  BY <1>3 DEF Warps, RoundedUp
<1>5. FoldedSlots(nw * WarpSize) = {t \in 0..(WarpSize - 1) : t < nw}
  BY <1>3 DEF FoldedSlots
<1>6. {t \in 0..(WarpSize - 1) : t < nw} = 0..(nw - 1)
  BY <1>0
<1> QED BY <1>4, <1>5, <1>6

(* The columns of the warps are the row, each once. *)
OwnerIn(block, c) == WarpOf((c \div VecSize) % block)

Owner(c) == OwnerIn(Block, c)

Hidden == params.hidden_dim

WholeVectors == Hidden \in Nat /\ Hidden % VecSize = 0

LEMMA ColumnsByOwner ==
  ASSUME WholeVectors, NEW w
  PROVE  ColumnsOf(w) = {c \in 0..(Hidden - 1) : Owner(c) = w}
<1> DEFINE V == VecSize
           N == Hidden \div V
<1>0. V \in Nat \ {0} /\ Hidden \in Nat /\ N \in Nat
  BY NormAssumption, DivisionParts DEF WholeVectors
<1>1. Hidden = N * V /\ N * V \in Nat
  <2>1. Hidden = N * V + (Hidden % V) /\ Hidden % V = 0
    BY <1>0, DivisionParts DEF WholeVectors
  <2>2. N * V \in Nat
    BY <1>0
  <2> QED BY <2>1, <2>2
<1> HIDE DEF N
<1>2. ASSUME NEW c \in ColumnsOf(w)
      PROVE  c \in 0..(Hidden - 1) /\ Owner(c) = w
  <2>1. PICK i \in ItemsOf(w, N, Block) : c \in (i * V)..(i * V + V - 1)
    BY <1>2 DEF ColumnsOf, N, Hidden
  <2>2. i \in 0..(N - 1) /\ WarpOf(i % Block) = w
    BY <2>1 DEF ItemsOf
  <2>3. i * V \in Nat /\ N * V = i * V + V + (N - 1 - i) * V /\ (N - 1 - i) * V \in Nat
    BY <1>0, <2>2
  <2>4. c - i * V \in 0..(V - 1) /\ c = i * V + (c - i * V) /\ c \in 0..(Hidden - 1)
    <3> DEFINE x == i * V
               y == (N - 1 - i) * V
    <3>1. x \in Nat /\ y \in Nat /\ Hidden = x + V + y /\ c \in x..(x + V - 1)
      BY <1>1, <2>1, <2>3
    <3> HIDE DEF x, y
    <3>2. c - x \in 0..(V - 1) /\ c = x + (c - x) /\ c \in 0..(Hidden - 1)
      BY <1>0, <3>1
    <3> QED BY <3>2 DEF x
  <2>5. c \div V = i
    <3>1. PICK r : r = c - i * V
      OBVIOUS
    <3>2. c = i * V + r /\ r \in 0..(V - 1)
      BY ONLY <2>4, <3>1, Zenon
    <3>3. i \in Nat /\ V \in Nat \ {0}
      BY <1>0, <2>2
    <3>4. (i * V + r) \div V = i
      BY ONLY <3>2, <3>3, Division
    <3> QED BY ONLY <3>2, <3>4, Zenon
  <2> QED BY <2>2, <2>4, <2>5 DEF Owner, OwnerIn
<1>3. ASSUME NEW c \in 0..(Hidden - 1), Owner(c) = w
      PROVE  c \in ColumnsOf(w)
  <2> DEFINE i == c \div V
  <2>1. c \in Nat /\ c < N * V
    BY <1>0, <1>1
  <2>2. i \in Nat /\ i < N
    BY <1>0, <2>1, DivisionParts, QuotientBelow
  <2>3. i \in ItemsOf(w, N, Block)
    BY <1>0, <1>3, <2>2 DEF ItemsOf, Owner, OwnerIn
  <2>4. c \in (i * V)..(i * V + V - 1)
    <3>1. c = i * V + (c % V) /\ c % V \in 0..(V - 1) /\ i * V \in Nat
      BY <1>0, <2>1, <2>2, DivisionParts
    <3> QED BY <1>0, <2>1, <3>1
  <2> HIDE DEF i
  <2> QED BY <2>3, <2>4 DEF ColumnsOf, N, Hidden
<1> QED BY <1>2, <1>3

LEMMA OwnerIsWarp ==
  ASSUME NEW n \in Nat, NEW block, block = BlockFor(n)
  PROVE  /\ 0 \in Warps(block) /\ IsFiniteSet(Warps(block))
         /\ FoldedSlots(block) = Warps(block)
         /\ \A c \in 0..(n - 1) : OwnerIn(block, c) \in Warps(block)
<1>1. PICK nw \in 1..WarpSize : block = nw * WarpSize
  BY WholeWarps
<1>2. Warps(block) = 0..(nw - 1) /\ FoldedSlots(block) = 0..(nw - 1)
  BY <1>1, WarpsOfBlock
<1>3. WarpSize \in Nat \ {0} /\ nw \in Nat \ {0} /\ nw * WarpSize \in Nat \ {0}
      /\ VecSize \in Nat \ {0}
  BY ThreadBlockAssumption, NormAssumption
<1>4. ASSUME NEW c \in 0..(n - 1) PROVE OwnerIn(block, c) \in 0..(nw - 1)
  <2>1. PICK i : i = (c \div VecSize) % block
    OBVIOUS
  <2>2. i \in 0..(nw * WarpSize - 1)
    <3>1. c \in Nat
      OBVIOUS
    <3>2. c \div VecSize \in Nat
      BY <1>3, <3>1, DivisionParts
    <3> QED BY <1>1, <1>3, <2>1, <3>2, DivisionParts
  <2>3. i \in Nat /\ i < nw * WarpSize
    BY <1>3, <2>2
  <2>4. i \div WarpSize \in Nat /\ i \div WarpSize < nw
    BY <1>3, <2>3, DivisionParts, QuotientBelow
  <2>5. i \div WarpSize \in 0..(nw - 1)
    BY <1>3, <2>4
  <2> QED BY <2>1, <2>5 DEF OwnerIn, WarpOf
<1>5. 0 \in 0..(nw - 1) /\ IsFiniteSet(0..(nw - 1))
  BY <1>3, FS_Interval
<1> QED BY <1>2, <1>4, <1>5

(* The squares of the sums of the two rows, and what they add up to.       *)
RowSum(c) == params.input[c] + params.residual[c]

Squares == [c \in DOMAIN params.input |-> RowSum(c) * RowSum(c)]

SquaresOf(S) == SumFunctionOnSet(Squares, S)

LEMMA SquareIsNat ==
  ASSUME NEW x \in Int
  PROVE  x * x \in Nat
<1>1. CASE x >= 0
  BY <1>1
<1>2. CASE x < 0
  <2>1. x * x = (-x) * (-x) /\ -x \in Nat
    BY <1>2
  <2>2. (-x) * (-x) \in Nat
    BY <2>1
  <2> QED BY <2>1, <2>2
<1> QED BY <1>1, <1>2

(* The three folds of the kernel and its property are such sums.           *)
LEMMA SquaresOfWarp ==
  ASSUME NEW U, IsFiniteSet(U), U \subseteq DOMAIN params.input,
         \A c \in U : res_row[c] = params.residual[c]
  PROVE  LET sum(c) == params.input[c] + res_row[c]
         IN  MapThenSumSet(LAMBDA c : sum(c) * sum(c), U) = SquaresOf(U)
<1> DEFINE sum(c) == params.input[c] + res_row[c]
           Folds(it) == it = [s \in SUBSET U |->
             IF s = {} THEN 0
             ELSE sum(Chosen(s)) * sum(Chosen(s)) + it[s \ {Chosen(s)}]]
<1>1. MapThenSumSet(LAMBDA c : sum(c) * sum(c), U) = (CHOOSE it : Folds(it))[U]
  BY DEF MapThenSumSet, MapThenFoldSet, Chosen
<1>2. \A c \in U : Squares[c] = sum(c) * sum(c)
  BY DEF Squares, RowSum
<1>3. ASSUME NEW it PROVE Folds(it) <=> Adds(it, Squares, U)
  <2>1. \A s \in SUBSET U : s = {} \/ Squares[Chosen(s)] = sum(Chosen(s)) * sum(Chosen(s))
    BY <1>2, ChosenIsIn
  <2> HIDE DEF sum
  <2> QED BY <2>1 DEF Adds, Added
<1>4. PICK it : it = CHOOSE i : Folds(i)
  OBVIOUS
<1>5. Adds(it, Squares, U)
  <2>1. \E i : Folds(i)
    BY <1>3, AdderExists
  <2> HIDE DEF Folds
  <2> QED BY <1>3, <1>4, <2>1
<1> HIDE DEF Folds
<1> QED BY <1>1, <1>4, <1>5, AddingIsSum DEF SquaresOf

LEMMA SquaresOfSlots ==
  ASSUME NEW U, IsFiniteSet(U)
  PROVE  MapThenSumSet(LAMBDA t : norm_mem[t], U) = SumFunctionOnSet(norm_mem, U)
<1> DEFINE Folds(it) == it = [s \in SUBSET U |->
             IF s = {} THEN 0 ELSE norm_mem[Chosen(s)] + it[s \ {Chosen(s)}]]
<1>1. MapThenSumSet(LAMBDA t : norm_mem[t], U) = (CHOOSE it : Folds(it))[U]
  BY DEF MapThenSumSet, MapThenFoldSet, Chosen
<1>2. \A it : Folds(it) <=> Adds(it, norm_mem, U)
  BY DEF Adds, Added
<1>3. PICK it : it = CHOOSE i : Folds(i)
  OBVIOUS
<1> HIDE DEF Folds
<1>4. Adds(it, norm_mem, U)
  BY <1>2, <1>3, AdderExists
<1> QED BY <1>1, <1>3, <1>4, AddingIsSum

LEMMA SquaresOfRow ==
  ASSUME IsFiniteSet(DOMAIN params.input)
  PROVE  LET added == [c \in DOMAIN params.input |-> params.input[c] + params.residual[c]]
         IN  MapThenSumSet(LAMBDA c : added[c] * added[c], DOMAIN added)
               = SquaresOf(DOMAIN params.input)
<1> DEFINE added == [c \in DOMAIN params.input |-> params.input[c] + params.residual[c]]
           U == DOMAIN params.input
           Folds(it) == it = [s \in SUBSET U |->
             IF s = {} THEN 0
             ELSE added[Chosen(s)] * added[Chosen(s)] + it[s \ {Chosen(s)}]]
<1>1. MapThenSumSet(LAMBDA c : added[c] * added[c], DOMAIN added)
        = (CHOOSE it : Folds(it))[U]
  <2>1. DOMAIN added = U
    OBVIOUS
  <2>2. MapThenSumSet(LAMBDA c : added[c] * added[c], U) = (CHOOSE it : Folds(it))[U]
    <3> HIDE DEF added, U
    <3> QED BY DEF MapThenSumSet, MapThenFoldSet, Chosen
  <2> QED BY ONLY <2>1, <2>2, Zenon
<1>2. \A c \in U : Squares[c] = added[c] * added[c]
  BY DEF Squares, RowSum
<1>3. ASSUME NEW it PROVE Folds(it) <=> Adds(it, Squares, U)
  <2>1. \A s \in SUBSET U : s = {} \/ Squares[Chosen(s)] = added[Chosen(s)] * added[Chosen(s)]
    BY <1>2, ChosenIsIn
  <2> HIDE DEF added, U
  <2> QED BY <2>1 DEF Adds, Added
<1>4. PICK it : it = CHOOSE i : Folds(i)
  OBVIOUS
<1>5. Adds(it, Squares, U)
  <2>1. \E i : Folds(i)
    BY <1>3, AdderExists
  <2> HIDE DEF Folds
  <2> QED BY <1>3, <1>4, <2>1
<1>6. it[U] = SquaresOf(U)
  BY <1>5, AddingIsSum DEF SquaresOf
<1> HIDE DEF Folds
<1> QED BY ONLY <1>1, <1>4, <1>6, Zenon DEF added, U

-----------------------------------------------------------------------------
(* What each warp has done so far, and what it has left alone.             *)
Columns == 0..(Hidden - 1)

RowsGiven ==
  /\ {params.input, params.residual} \subseteq NormRows
  /\ WholeVectors
  /\ DOMAIN params.input = Columns /\ DOMAIN params.residual = Columns
  /\ \A c \in Columns : params.input[c] \in Int /\ params.residual[c] \in Int

BlockRuns(st, res, out, mem, inv) ==
  /\ st \in [Warps(Block) -> 0..3] /\ DOMAIN mem = Warps(Block) /\ inv \in Nat
  /\ res = [c \in Columns |->
              IF st[Owner(c)] >= 1 THEN RowSum(c) ELSE params.residual[c]]
  /\ out = [c \in Columns |-> out[c]]
  /\ \A w, v \in Warps(Block) : /\ st[w] >= 2 => st[v] >= 1
                                /\ st[w] = 3 => st[v] >= 2
  /\ \A w \in Warps(Block) : st[w] >= 1 => mem[w] = SquaresOf(ColumnsOf(w))
  /\ st[0] >= 2 => inv = SquaresOf(Columns)
  /\ \A c \in Columns :
       st[Owner(c)] = 3 => out[c] = <<RowSum(c), SquaresOf(Columns)>>

NormLaunched ==
  RowsGiven /\ BlockRuns(norm_stage, res_row, out_row, norm_mem, s_inv_rms)

NormInv ==
  \/ params = NoParams /\ DOMAIN norm_stage = {} /\ s_inv_rms \in Nat
  \/ NormLaunched

LEMMA BlockGoesOn ==
  ASSUME RowsGiven, params' = params,
         BlockRuns(norm_stage', res_row', out_row', norm_mem', s_inv_rms')
  PROVE  NormLaunched'
BY DEF NormLaunched, RowsGiven, BlockRuns, WholeVectors, Columns, Hidden, Block, Owner,
       RowSum, SquaresOf, Squares, ColumnsOf

LEMMA ColumnFacts ==
  ASSUME RowsGiven
  PROVE  /\ IsFiniteSet(Columns) /\ Hidden \in Nat
         /\ \A c \in Columns : /\ Squares[c] \in Nat /\ Owner(c) \in Warps(Block)
         /\ \A w : /\ ColumnsOf(w) = {c \in Columns : Owner(c) = w}
                   /\ IsFiniteSet(ColumnsOf(w)) /\ SquaresOf(ColumnsOf(w)) \in Nat
<1>1. WholeVectors /\ Hidden \in Nat
  BY DEF RowsGiven, WholeVectors
<1>2. IsFiniteSet(Columns)
  BY <1>1, FS_Interval DEF Columns
<1>3. ASSUME NEW c \in Columns PROVE Squares[c] \in Nat
  <2>1. RowSum(c) \in Int /\ Squares[c] = RowSum(c) * RowSum(c)
    BY <1>3 DEF RowsGiven, RowSum, Squares
  <2> QED BY <2>1, SquareIsNat
<1>4. \A w : ColumnsOf(w) = {c \in Columns : Owner(c) = w}
  BY <1>1, ColumnsByOwner DEF Columns
<1>5. ASSUME NEW w PROVE IsFiniteSet(ColumnsOf(w)) /\ SquaresOf(ColumnsOf(w)) \in Nat
  <2>1. PICK U : U = ColumnsOf(w)
    OBVIOUS
  <2>2. U \subseteq Columns
    BY <1>4, <2>1
  <2>3. IsFiniteSet(U)
    BY <1>2, <2>2, FS_Subset
  <2>4. SquaresOf(U) \in Nat
    BY <1>3, <2>2, <2>3, SumIsNat DEF SquaresOf
  <2> QED BY <2>1, <2>3, <2>4
<1>6. \A c \in Columns : Owner(c) \in Warps(Block)
  BY <1>1, OwnerIsWarp DEF Columns, Owner, Block, Hidden
<1> QED BY <1>1, <1>2, <1>3, <1>4, <1>5, <1>6

(* The squares of the warps are the squares of the row. *)
LEMMA WarpsAddUp ==
  ASSUME RowsGiven, NEW mem,
         \A w \in Warps(Block) : mem[w] = SquaresOf(ColumnsOf(w))
  PROVE  SumFunctionOnSet(mem, Warps(Block)) = SquaresOf(Columns)
<1> DEFINE P == [w \in Warps(Block) |-> ColumnsOf(w)]
<1>1. \A w \in Warps(Block) : P[w] = {c \in Columns : Owner(c) = w}
  BY ColumnFacts
<1>2. \A x : x \in Columns <=> \E w \in Warps(Block) : x \in P[w]
  BY <1>1, ColumnFacts
<1>3. \A w \in Warps(Block) : /\ IsFiniteSet(P[w])
                              /\ mem[w] = SumFunctionOnSet(Squares, P[w])
  BY ColumnFacts DEF SquaresOf
<1>4. \A w \in Warps(Block) : \A x \in P[w] : Squares[x] \in Nat
  BY <1>1, ColumnFacts
<1>5. \A w, u \in Warps(Block) : w # u => P[w] \cap P[u] = {}
  BY <1>1
<1>6. IsFiniteSet(Warps(Block))
  BY OwnerIsWarp DEF RowsGiven, WholeVectors, Block, Hidden
<1> HIDE DEF P
<1>7. SumFunctionOnSet(mem, Warps(Block)) = SquaresOf(Columns)
  <2>1. PICK v : v = Squares
    OBVIOUS
  <2>2. PICK W : W = Warps(Block)
    OBVIOUS
  <2>3. PICK part : part = P
    OBVIOUS
  <2>4. /\ IsFiniteSet(W) /\ \A w, u \in W : w # u => part[w] \cap part[u] = {}
        /\ \A w \in W : /\ IsFiniteSet(part[w]) /\ \A x \in part[w] : v[x] \in Nat
                        /\ mem[w] = SumFunctionOnSet(v, part[w])
    BY <1>3, <1>4, <1>5, <1>6, <2>1, <2>2, <2>3
  <2>5. \A x : x \in Columns <=> \E w \in W : x \in part[w]
    BY <1>2, <2>2, <2>3
  <2>6. SumFunctionOnSet(mem, W) = SumFunctionOnSet(v, Columns)
    BY ONLY <2>4, <2>5, SumOfParts, SMTT(30)
  <2> QED BY <2>1, <2>2, <2>6 DEF SquaresOf
<1> QED BY <1>7

-----------------------------------------------------------------------------
LEMMA NormInitInv == NormInit => NormInv
BY DEF NormInit, NormInv

LEMMA LaunchInv ==
  ASSUME NEW input \in NormRows, NEW residual \in NormRows, LaunchNorm(input, residual)
  PROVE  NormInv'
<1> DEFINE H == Cardinality(DOMAIN input)
           zero == [w \in Warps(BlockFor(H)) |-> 0]
<1>1. PICK rows : rows = [hidden_dim |-> H, input |-> input, residual |-> residual]
  OBVIOUS
<1>2. /\ params' = rows /\ norm_stage' = zero /\ norm_mem' = zero
      /\ res_row' = residual /\ out_row' = [c \in DOMAIN input |-> <<>>]
      /\ s_inv_rms' = 0
      /\ DOMAIN input = DOMAIN residual /\ H % VecSize = 0
  BY <1>1 DEF LaunchNorm
<1>3. rows.hidden_dim = H /\ rows.input = input /\ rows.residual = residual
  BY <1>1
<1>4. H \in Nat /\ DOMAIN input = 0..(H - 1)
  <2>1. IsFiniteSet(DOMAIN input) /\ input \in [0..(H - 1) -> Int]
    BY NormAssumption
  <2> QED BY <2>1, FS_CardinalityType
<1>5. RowsGiven'
  <2>1. \A c \in 0..(H - 1) : input[c] \in Int /\ residual[c] \in Int
    BY <1>2, <1>4, NormAssumption
  <2> HIDE DEF H
  <2> QED BY <1>2, <1>3, <1>4, <2>1 DEF RowsGiven, WholeVectors, Columns, Hidden
<1>6. Columns' = 0..(H - 1) /\ Warps(Block)' = Warps(BlockFor(H))
  BY <1>2, <1>3 DEF Columns, Hidden, Block
<1>7. PICK block : block = BlockFor(H)
  OBVIOUS
<1>8. \A c \in 0..(H - 1) : OwnerIn(block, c) \in Warps(block)
  BY <1>4, <1>7, OwnerIsWarp
<1>9. /\ Columns' = 0..(H - 1) /\ Block' = block
      /\ norm_stage' = [w \in Warps(block) |-> 0]
  BY <1>2, <1>3, <1>7 DEF Columns, Hidden, Block
<1>10. BlockRuns(norm_stage, res_row, out_row, norm_mem, s_inv_rms)'
  <2> HIDE DEF H
  <2>1. norm_stage' \in [Warps(block) -> 0..3] /\ DOMAIN norm_mem' = Warps(block)
        /\ s_inv_rms' \in Nat /\ \A w \in Warps(block) : norm_stage'[w] = 0
    BY <1>2, <1>7, <1>9
  <2>2. \A c \in 0..(H - 1) : norm_stage'[OwnerIn(block, c)] = 0
    BY <1>8, <2>1
  <2>3. 0 \in Warps(block) /\ norm_stage'[0] = 0
    BY <1>4, <1>7, <2>1, OwnerIsWarp DEF H
  <2>4. res_row' = [c \in 0..(H - 1) |-> params'.residual[c]]
        /\ out_row' = [c \in 0..(H - 1) |-> out_row'[c]]
    BY <1>2, <1>3, <1>4, NormAssumption
  <2> QED BY <1>9, <2>1, <2>2, <2>3, <2>4 DEF BlockRuns, Owner
<1> QED BY <1>5, <1>10 DEF NormInv, NormLaunched

LEMMA BlockFacts ==
  ASSUME NormLaunched
  PROVE  /\ RowsGiven
         /\ BlockRuns(norm_stage, res_row, out_row, norm_mem, s_inv_rms)
         /\ DOMAIN norm_stage = Warps(Block) /\ DOMAIN norm_mem = Warps(Block)
         /\ DOMAIN res_row = Columns /\ DOMAIN out_row = Columns
         /\ 0 \in Warps(Block)
         /\ \A c \in Columns : Owner(c) \in Warps(Block)
<1>1. RowsGiven /\ BlockRuns(norm_stage, res_row, out_row, norm_mem, s_inv_rms)
  BY DEF NormLaunched
<1>2. 0 \in Warps(Block)
  BY <1>1, OwnerIsWarp DEF RowsGiven, WholeVectors, Block, Hidden
<1>3. \A c \in Columns : Owner(c) \in Warps(Block)
  BY <1>1, ColumnFacts
<1> QED BY <1>1, <1>2, <1>3 DEF BlockRuns

LEMMA AddInv ==
  ASSUME NormLaunched, NEW w \in Warps(Block), AddResidual(w)
  PROVE  NormLaunched'
<1>1. /\ RowsGiven
      /\ BlockRuns(norm_stage, res_row, out_row, norm_mem, s_inv_rms)
      /\ DOMAIN norm_stage = Warps(Block) /\ DOMAIN norm_mem = Warps(Block)
      /\ DOMAIN res_row = Columns
      /\ \A c \in Columns : Owner(c) \in Warps(Block)
  BY BlockFacts
<1>2. PICK U : U = ColumnsOf(w)
  OBVIOUS
<1>3. U = {c \in Columns : Owner(c) = w} /\ IsFiniteSet(U) /\ SquaresOf(U) \in Nat
  BY <1>1, <1>2, ColumnFacts
<1>4. norm_stage[w] = 0 /\ params' = params /\ out_row' = out_row
      /\ s_inv_rms' = s_inv_rms /\ norm_stage' = [norm_stage EXCEPT ![w] = 1]
  BY DEF AddResidual, Past
<1>5. \A c \in U : res_row[c] = params.residual[c]
  BY <1>1, <1>3, <1>4 DEF BlockRuns
<1>6. res_row' =
        [c \in Columns |-> IF c \in U THEN params.input[c] + res_row[c] ELSE res_row[c]]
  BY <1>1, <1>2 DEF AddResidual
<1>7. norm_mem' = [norm_mem EXCEPT ![w] = SquaresOf(U)]
  <2>1. U \subseteq DOMAIN params.input
    BY <1>1, <1>3 DEF RowsGiven
  <2> DEFINE sum(c) == params.input[c] + res_row[c]
  <2>2. MapThenSumSet(LAMBDA c : sum(c) * sum(c), U) = SquaresOf(U)
    BY <1>3, <1>5, <2>1, SquaresOfWarp
  <2>3. norm_mem' = [norm_mem EXCEPT ![w] =
                       MapThenSumSet(LAMBDA c : sum(c) * sum(c), ColumnsOf(w))]
    BY DEF AddResidual
  <2> QED BY <1>2, <2>2, <2>3
<1>8. BlockRuns(norm_stage', res_row', out_row', norm_mem', s_inv_rms')
  <2>1. PICK st, stN : st = norm_stage /\ stN = norm_stage'
    OBVIOUS
  <2>2. st \in [Warps(Block) -> 0..3] /\ st[w] = 0
    BY <1>1, <1>4, <2>1 DEF BlockRuns
  <2>3. /\ stN \in [Warps(Block) -> 0..3]
        /\ \A v \in Warps(Block) : stN[v] = IF v = w THEN 1 ELSE st[v]
    BY <1>4, <2>1, <2>2
  <2>4. res_row' = [c \in Columns |->
                      IF stN[Owner(c)] >= 1 THEN RowSum(c) ELSE params.residual[c]]
    <3>1. \A c \in Columns : res_row[c] =
            IF st[Owner(c)] >= 1 THEN RowSum(c) ELSE params.residual[c]
      BY <1>1, <2>1 DEF BlockRuns
    <3>2. ASSUME NEW c \in Columns
          PROVE  (IF c \in U THEN params.input[c] + res_row[c] ELSE res_row[c])
                   = (IF stN[Owner(c)] >= 1 THEN RowSum(c) ELSE params.residual[c])
      <4>1. CASE c \in U
        <5>1. Owner(c) = w /\ stN[Owner(c)] = 1 /\ res_row[c] = params.residual[c]
          BY <1>3, <1>5, <2>3, <4>1
        <5> QED BY <4>1, <5>1 DEF RowSum
      <4>2. CASE c \notin U
        <5>1. Owner(c) # w /\ stN[Owner(c)] = st[Owner(c)]
          BY <1>1, <1>3, <2>3, <4>2
        <5> QED BY <3>1, <4>2, <5>1
      <4> QED BY <4>1, <4>2
    <3> QED BY <1>6, <3>2
  <2>5. /\ DOMAIN norm_mem' = Warps(Block)
        /\ \A v \in Warps(Block) : stN[v] >= 1 => norm_mem'[v] = SquaresOf(ColumnsOf(v))
    <3>1. \A v \in Warps(Block) : st[v] >= 1 => norm_mem[v] = SquaresOf(ColumnsOf(v))
      BY <1>1, <2>1 DEF BlockRuns
    <3> QED BY <1>1, <1>2, <1>7, <2>3, <3>1
  <2>6. \A v, u \in Warps(Block) : /\ stN[v] >= 2 => stN[u] >= 1
                                   /\ stN[v] = 3 => stN[u] >= 2
    <3>1. \A v, u \in Warps(Block) : /\ st[v] >= 2 => st[u] >= 1
                                     /\ st[v] = 3 => st[u] >= 2
      BY <1>1, <2>1 DEF BlockRuns
    <3> QED BY <2>2, <2>3, <3>1
  <2>7. 0 \in Warps(Block)
    BY BlockFacts
  <2>8. stN[0] >= 2 => s_inv_rms' = SquaresOf(Columns)
    <3>1. st[0] >= 2 => s_inv_rms = SquaresOf(Columns)
      BY <1>1, <2>1 DEF BlockRuns
    <3> QED BY <1>4, <2>3, <2>7, <3>1
  <2>9. \A c \in Columns :
          stN[Owner(c)] = 3 => out_row'[c] = <<RowSum(c), SquaresOf(Columns)>>
    <3>1. \A c \in Columns :
            st[Owner(c)] = 3 => out_row[c] = <<RowSum(c), SquaresOf(Columns)>>
      BY <1>1, <2>1 DEF BlockRuns
    <3> QED BY <1>1, <1>4, <2>3, <3>1
  <2>10. s_inv_rms' \in Nat /\ out_row' = [c \in Columns |-> out_row'[c]]
    BY <1>1, <1>4 DEF BlockRuns
  <2> QED BY <2>1, <2>3, <2>4, <2>5, <2>6, <2>8, <2>9, <2>10 DEF BlockRuns
<1> QED BY <1>1, <1>4, <1>8, BlockGoesOn

LEMMA ReduceInv ==
  ASSUME NormLaunched, NEW w \in Warps(Block), ReduceSquares(w)
  PROVE  NormLaunched'
<1>1. /\ RowsGiven
      /\ BlockRuns(norm_stage, res_row, out_row, norm_mem, s_inv_rms)
      /\ DOMAIN norm_stage = Warps(Block)
      /\ 0 \in Warps(Block)
      /\ \A c \in Columns : Owner(c) \in Warps(Block)
  BY BlockFacts
<1>2. PICK st, stN : st = norm_stage /\ stN = norm_stage'
  OBVIOUS
<1>3. /\ st[w] = 1 /\ \A v \in Warps(Block) : st[v] >= 1
      /\ params' = params /\ out_row' = out_row /\ res_row' = res_row
      /\ norm_mem' = norm_mem /\ stN = [st EXCEPT ![w] = 2]
  BY <1>1, <1>2 DEF ReduceSquares, Past, Synced
<1>4. /\ st \in [Warps(Block) -> 0..3]
      /\ res_row = [c \in Columns |->
                      IF st[Owner(c)] >= 1 THEN RowSum(c) ELSE params.residual[c]]
      /\ \A v, u \in Warps(Block) : /\ st[v] >= 2 => st[u] >= 1
                                    /\ st[v] = 3 => st[u] >= 2
      /\ \A v \in Warps(Block) : norm_mem[v] = SquaresOf(ColumnsOf(v))
      /\ st[0] >= 2 => s_inv_rms = SquaresOf(Columns)
      /\ \A c \in Columns :
           st[Owner(c)] = 3 => out_row[c] = <<RowSum(c), SquaresOf(Columns)>>
  BY <1>1, <1>2, <1>3 DEF BlockRuns
<1>5. /\ stN \in [Warps(Block) -> 0..3]
      /\ \A v \in Warps(Block) : stN[v] = IF v = w THEN 2 ELSE st[v]
  BY <1>3, <1>4
<1>6. s_inv_rms' = IF w = 0 THEN SquaresOf(Columns) ELSE s_inv_rms
  <2>1. PICK U : U = FoldedSlots(Block)
    OBVIOUS
  <2>2. U = Warps(Block) /\ IsFiniteSet(U)
    BY <1>1, <2>1, OwnerIsWarp DEF RowsGiven, WholeVectors, Block, Hidden
  <2>3. MapThenSumSet(LAMBDA t : norm_mem[t], U) = SquaresOf(Columns)
    <3>1. MapThenSumSet(LAMBDA t : norm_mem[t], U) = SumFunctionOnSet(norm_mem, U)
      BY <2>2, SquaresOfSlots
    <3>2. SumFunctionOnSet(norm_mem, Warps(Block)) = SquaresOf(Columns)
      BY <1>1, <1>4, WarpsAddUp
    <3> QED BY <2>2, <3>1, <3>2
  <2>4. s_inv_rms' =
          IF w = 0 THEN MapThenSumSet(LAMBDA t : norm_mem[t], FoldedSlots(Block))
                   ELSE s_inv_rms
    BY DEF ReduceSquares
  <2> QED BY <2>1, <2>3, <2>4
<1>7. SquaresOf(Columns) \in Nat
  <2>1. \A c \in Columns : Squares[c] \in Nat
    BY <1>1, ColumnFacts
  <2>2. IsFiniteSet(Columns)
    BY <1>1, ColumnFacts
  <2> QED BY <2>1, <2>2, SumIsNat DEF SquaresOf
<1>8. BlockRuns(norm_stage', res_row', out_row', norm_mem', s_inv_rms')
  <2>1. s_inv_rms' \in Nat
    BY <1>1, <1>6, <1>7 DEF BlockRuns
  <2>2. res_row' = [c \in Columns |->
                      IF stN[Owner(c)] >= 1 THEN RowSum(c) ELSE params.residual[c]]
    <3>1. \A c \in Columns : stN[Owner(c)] >= 1 /\ st[Owner(c)] >= 1
      BY <1>1, <1>3, <1>5
    <3> QED BY <1>3, <1>4, <3>1
  <2>3. \A v, u \in Warps(Block) : /\ stN[v] >= 2 => stN[u] >= 1
                                   /\ stN[v] = 3 => stN[u] >= 2
    BY <1>3, <1>4, <1>5
  <2>4. \A v \in Warps(Block) : stN[v] >= 1 => norm_mem'[v] = SquaresOf(ColumnsOf(v))
    BY <1>3, <1>4
  <2>5. stN[0] >= 2 => s_inv_rms' = SquaresOf(Columns)
    BY <1>1, <1>4, <1>5, <1>6
  <2>6. \A c \in Columns :
          stN[Owner(c)] = 3 => out_row'[c] = <<RowSum(c), SquaresOf(Columns)>>
    BY <1>1, <1>3, <1>4, <1>5
  <2>7. DOMAIN norm_mem' = Warps(Block) /\ out_row' = [c \in Columns |-> out_row'[c]]
    BY <1>1, <1>3 DEF BlockRuns
  <2> QED BY <1>2, <1>5, <2>1, <2>2, <2>3, <2>4, <2>5, <2>6, <2>7 DEF BlockRuns
<1> QED BY <1>1, <1>3, <1>8, BlockGoesOn

LEMMA NormaliseInv ==
  ASSUME NormLaunched, NEW w \in Warps(Block), Normalise(w)
  PROVE  NormLaunched'
<1>1. /\ RowsGiven
      /\ BlockRuns(norm_stage, res_row, out_row, norm_mem, s_inv_rms)
      /\ DOMAIN norm_stage = Warps(Block) /\ DOMAIN out_row = Columns
      /\ 0 \in Warps(Block)
      /\ \A c \in Columns : Owner(c) \in Warps(Block)
  BY BlockFacts
<1>2. PICK st, stN : st = norm_stage /\ stN = norm_stage'
  OBVIOUS
<1>3. /\ st[w] = 2 /\ \A v \in Warps(Block) : st[v] >= 2
      /\ params' = params /\ res_row' = res_row /\ s_inv_rms' = s_inv_rms
      /\ norm_mem' = norm_mem /\ stN = [st EXCEPT ![w] = 3]
  BY <1>1, <1>2 DEF Normalise, Past, Synced
<1>4. /\ st \in [Warps(Block) -> 0..3]
      /\ res_row = [c \in Columns |->
                      IF st[Owner(c)] >= 1 THEN RowSum(c) ELSE params.residual[c]]
      /\ \A v \in Warps(Block) : norm_mem[v] = SquaresOf(ColumnsOf(v))
      /\ s_inv_rms = SquaresOf(Columns) /\ s_inv_rms \in Nat
      /\ \A c \in Columns :
           st[Owner(c)] = 3 => out_row[c] = <<RowSum(c), SquaresOf(Columns)>>
  BY <1>1, <1>2, <1>3 DEF BlockRuns
<1>5. /\ stN \in [Warps(Block) -> 0..3]
      /\ \A v \in Warps(Block) : stN[v] = IF v = w THEN 3 ELSE st[v]
  BY <1>3, <1>4
<1>6. \A c \in Columns : res_row[c] = RowSum(c)
  BY <1>1, <1>3, <1>4
<1>7. out_row' = [c \in Columns |-> IF c \in {d \in Columns : Owner(d) = w}
                                    THEN <<res_row[c], s_inv_rms>> ELSE out_row[c]]
  BY <1>1, ColumnFacts DEF Normalise
<1>8. BlockRuns(norm_stage', res_row', out_row', norm_mem', s_inv_rms')
  <2>1. res_row' = [c \in Columns |->
                      IF stN[Owner(c)] >= 1 THEN RowSum(c) ELSE params.residual[c]]
    <3>1. \A c \in Columns : stN[Owner(c)] >= 1 /\ st[Owner(c)] >= 1
      BY <1>1, <1>3, <1>5
    <3> QED BY <1>3, <1>4, <3>1
  <2>2. \A v, u \in Warps(Block) : /\ stN[v] >= 2 => stN[u] >= 1
                                   /\ stN[v] = 3 => stN[u] >= 2
    BY <1>3, <1>4, <1>5
  <2>3. ASSUME NEW c \in Columns, stN[Owner(c)] = 3
        PROVE  out_row'[c] = <<RowSum(c), SquaresOf(Columns)>>
    <3>1. CASE Owner(c) = w
      BY <1>4, <1>6, <1>7, <3>1
    <3>2. CASE Owner(c) # w
      BY <1>1, <1>4, <1>5, <1>7, <2>3, <3>2
    <3> QED BY <3>1, <3>2
  <2>4. out_row' = [c \in Columns |-> out_row'[c]]
    BY <1>7
  <2>5. DOMAIN norm_mem' = Warps(Block)
    BY <1>1, <1>3 DEF BlockRuns
  <2> QED BY <1>2, <1>3, <1>4, <1>5, <2>1, <2>2, <2>3, <2>4, <2>5 DEF BlockRuns
<1> QED BY <1>1, <1>3, <1>8, BlockGoesOn

LEMMA NormNextInv ==
  ASSUME NormInv, [NormNext]_normVars
  PROVE  NormInv'
<1>1. ASSUME NEW input \in NormRows, NEW residual \in NormRows, LaunchNorm(input, residual)
      PROVE  NormInv'
  BY <1>1, LaunchInv
<1>2. ASSUME NEW w \in DOMAIN norm_stage,
             AddResidual(w) \/ ReduceSquares(w) \/ Normalise(w)
      PROVE  NormInv'
  <2>1. NormLaunched
    BY <1>2 DEF NormInv
  <2>2. w \in Warps(Block)
    BY <1>2, <2>1, BlockFacts
  <2>3. NormLaunched'
    BY <1>2, <2>1, <2>2, AddInv, ReduceInv, NormaliseInv
  <2> QED BY <2>3 DEF NormInv
<1>3. ASSUME UNCHANGED normVars PROVE NormInv'
  <2>1. CASE NormLaunched
    <3>1. RowsGiven /\ BlockRuns(norm_stage, res_row, out_row, norm_mem, s_inv_rms)
      BY <2>1, BlockFacts
    <3>2. /\ params' = params /\ norm_stage' = norm_stage /\ res_row' = res_row
          /\ out_row' = out_row /\ norm_mem' = norm_mem /\ s_inv_rms' = s_inv_rms
      BY <1>3 DEF normVars
    <3>3. BlockRuns(norm_stage', res_row', out_row', norm_mem', s_inv_rms')
      BY <3>1, <3>2
    <3> QED BY <3>1, <3>2, <3>3, BlockGoesOn DEF NormInv
  <2>2. CASE ~NormLaunched
    BY <1>3, <2>2 DEF NormInv, normVars
  <2> QED BY <2>1, <2>2
<1> QED BY <1>1, <1>2, <1>3 DEF NormNext

(* NormTypeOK (fused_rmsnorm_kernel): the launch, the barriers a warp has  *)
(* arrived at and the sum in shared memory, for any rows and block sizes.  *)
THEOREM NormTypesHold == NormSpec => []NormTypeOK
<1>1. ASSUME NormInv PROVE NormTypeOK
  <2>1. CASE NormLaunched
    <3>1. /\ RowsGiven /\ norm_stage \in [Warps(Block) -> 0..3] /\ s_inv_rms \in Nat
          /\ DOMAIN norm_stage = Warps(Block)
      BY <2>1, BlockFacts DEF BlockRuns
    <3> QED BY <3>1 DEF NormTypeOK, RowsGiven
  <2>2. CASE ~NormLaunched
    BY <1>1, <2>2 DEF NormInv, NormTypeOK
  <2> QED BY <2>1, <2>2
<1> QED BY <1>1, NormInitInv, NormNextInv, PTL DEF NormSpec

(* RowNormalised (fused_rmsnorm_kernel, launch_fused_rmsnorm): whatever    *)
(* rows, vector, warp and block sizes there are and however the warps      *)
(* interleave between the barriers, a block that has returned has added    *)
(* the two rows and divided every element by the squares of the whole row. *)
THEOREM RowIsNormalised == NormSpec => []RowNormalised
<1>1. ASSUME NormInv PROVE RowNormalised
  <2> DEFINE added == [c \in DOMAIN params.input |-> params.input[c] + params.residual[c]]
             squares == MapThenSumSet(LAMBDA c : added[c] * added[c], DOMAIN added)
  <2> SUFFICES ASSUME params # NoParams, \A w \in DOMAIN norm_stage : norm_stage[w] = 3
               PROVE  /\ res_row = added
                      /\ out_row = [c \in DOMAIN added |-> <<added[c], squares>>]
    BY DEF RowNormalised
  <2>1. /\ RowsGiven
        /\ BlockRuns(norm_stage, res_row, out_row, norm_mem, s_inv_rms)
        /\ DOMAIN norm_stage = Warps(Block)
        /\ \A c \in Columns : Owner(c) \in Warps(Block)
    BY <1>1, BlockFacts DEF NormInv
  <2>2. DOMAIN params.input = Columns /\ IsFiniteSet(Columns)
    BY <2>1, ColumnFacts DEF RowsGiven
  <2>3. \A c \in Columns : norm_stage[Owner(c)] = 3
    BY <2>1
  <2>4. /\ res_row = [c \in Columns |-> RowSum(c)]
        /\ out_row = [c \in Columns |-> <<RowSum(c), SquaresOf(Columns)>>]
    BY <2>1, <2>3 DEF BlockRuns
  <2>5. squares = SquaresOf(Columns)
    BY <2>2, SquaresOfRow
  <2>6. DOMAIN added = Columns /\ \A c \in Columns : added[c] = RowSum(c)
    BY <2>2 DEF RowSum
  <2>7. added = [c \in Columns |-> RowSum(c)]
    BY <2>2 DEF RowSum
  <2> HIDE DEF added, squares
  <2> QED BY <2>4, <2>5, <2>6, <2>7
<1> QED BY <1>1, NormInitInv, NormNextInv, PTL DEF NormSpec

-----------------------------------------------------------------------------
(***************************************************************************)
(* The sampling kernel, for any vocabulary, logits, draw and block.        *)
(***************************************************************************)
(* A set of integers with a bound has a greatest element, and a set of     *)
(* numbers a least one.                                                    *)
LEMMA MaxOfSet ==
  ASSUME NEW S, S \subseteq Int, S # {}, NEW B \in Int, \A x \in S : x <= B
  PROVE  Max(S) \in S /\ \A x \in S : x <= Max(S)
<1> DEFINE T == {n \in Nat : B - n \in S}
<1>1. \A x \in S : B - x \in T
  <2> SUFFICES ASSUME NEW x \in S PROVE B - x \in T
    OBVIOUS
  <2>1. x \in Int /\ x <= B
    OBVIOUS
  <2>2. B - x \in Nat /\ B - (B - x) = x
    BY <2>1
  <2> QED BY <2>2
<1>2. PICK n \in T : \A nw \in T : n <= nw
  <2>1. T # {} /\ T \in SUBSET Nat
    BY <1>1
  <2> HIDE DEF T
  <2> QED BY <2>1, LeastNumber
<1>3. B - n \in S /\ n \in Nat
  BY <1>2
<1>4. \A y \in S : B - n >= y
  <2> SUFFICES ASSUME NEW y \in S PROVE B - n >= y
    OBVIOUS
  <2>1. n <= B - y /\ y \in Int
    BY <1>1, <1>2
  <2> QED BY <1>3, <2>1
<1> HIDE DEF T
<1>5. Max(S) \in S /\ \A y \in S : Max(S) >= y
  BY <1>3, <1>4 DEF Max
<1>6. \A x \in S : x <= Max(S)
  BY <1>5
<1> QED BY <1>5, <1>6

LEMMA MinOfSet ==
  ASSUME NEW S, S \subseteq Nat, S # {}
  PROVE  Min(S) \in S /\ \A x \in S : Min(S) <= x
<1>1. \E m \in S : \A nw \in S : m <= nw
  <2>1. S \in SUBSET Nat
    OBVIOUS
  <2> QED BY <2>1, LeastNumber
<1> QED BY <1>1 DEF Min

-----------------------------------------------------------------------------
LEMMA FactorKeepsOrder ==
  ASSUME NEW x \in Nat, NEW y \in Nat, NEW a \in Nat \ {0}
  PROVE  x <= y <=> x * a <= y * a
<1>1. CASE x <= y
  <2>1. y * a = x * a + (y - x) * a /\ (y - x) * a \in Nat /\ x * a \in Nat
    BY <1>1
  <2> QED BY <1>1, <2>1
<1>2. CASE y < x
  <2>1. x * a = y * a + (x - y) * a /\ (x - y) * a \in Nat \ {0} /\ y * a \in Nat
    BY <1>2
  <2> QED BY <1>2, <2>1
<1> QED BY <1>1, <1>2

(* The weights of the row before and after the maximum is taken out.       *)
LEMMA PowerFacts ==
  ASSUME NEW m \in 0..MaxLogit, NEW l \in 0..MaxLogit
  PROVE  /\ Power[l] \in Nat \ {0} /\ Power[l - m + MaxLogit] \in Nat \ {0}
         /\ Power[l - m + MaxLogit] * Power[m] = Power[l] * Power[MaxLogit]
<1>1. MaxLogit \in Nat \ {0} /\ 2 * MaxLogit <= MaxExponent
  BY SamplingAssumption
<1>2. MaxExponent \in Nat /\ Power \in [0..MaxExponent -> Nat \ {0}]
  BY ExponentialAssumption
<1>3. /\ m \in 0..MaxExponent /\ l \in 0..MaxExponent /\ MaxLogit \in 0..MaxExponent
      /\ l - m + MaxLogit \in 0..MaxExponent
      /\ (l - m + MaxLogit) + m = l + MaxLogit /\ l + MaxLogit <= MaxExponent
  BY <1>1, <1>2
<1>4. Power[(l - m + MaxLogit) + m] = Power[l - m + MaxLogit] * Power[m]
  BY <1>3, ExponentialAssumption
<1>5. Power[l + MaxLogit] = Power[l] * Power[MaxLogit]
  BY <1>3, ExponentialAssumption
<1> QED BY <1>2, <1>3, <1>4, <1>5

-----------------------------------------------------------------------------
(* The row of a launch, and what its warps work out.                       *)
RowGiven ==
  /\ launch.logits \in [Vocab -> 0..MaxLogit] /\ launch.greedy \in BOOLEAN
  /\ launch.draw \in 1..DrawSteps

RowMax == Max({launch.logits[i] : i \in Vocab})
WarpMax(w) == Max(Logits(w) \cup {Lowest})

Shifted == [i \in Vocab |-> Power[launch.logits[i] - RowMax + MaxLogit]]
Plain == [i \in Vocab |-> Power[launch.logits[i]]]

Items(w) == ItemsOf(w, vocab_size, BlockDim)

LEMMA SamplingWarps ==
  /\ BlockWarps = FoldedSlots(BlockDim) /\ 0 \in BlockWarps /\ IsFiniteSet(BlockWarps)
  /\ BlockWarps \subseteq Threads /\ IsFiniteSet(Vocab)
  /\ vocab_size \in Nat \ {0} /\ MaxLogit \in Nat \ {0} /\ DrawSteps \in Nat \ {0}
  /\ \A i \in Vocab : WarpOf(i % BlockDim) \in BlockWarps
<1> DEFINE W == WarpSize
           nw == BlockDim \div W
<1>1. /\ W \in Nat \ {0} /\ BlockDim \in Nat \ {0} /\ nw <= W /\ BlockDim % W = 0
      /\ vocab_size \in Nat \ {0} /\ MaxLogit \in Nat \ {0} /\ DrawSteps \in Nat \ {0}
  BY SamplingAssumption, ThreadBlockAssumption
<1>2. nw \in Nat /\ BlockDim = nw * W
  <2>1. nw \in Nat /\ BlockDim = nw * W + (BlockDim % W)
    BY <1>1, DivisionParts
  <2>2. nw * W \in Nat
    BY <1>1, <2>1
  <2> QED BY <1>1, <2>1, <2>2
<1>3. nw # 0
  BY <1>1, <1>2
<1>4. nw \in 1..W
  BY <1>1, <1>2, <1>3
<1>5. Warps(nw * W) = 0..(nw - 1) /\ FoldedSlots(nw * W) = 0..(nw - 1)
  BY <1>4, WarpsOfBlock
<1>6. BlockWarps = 0..(nw - 1) /\ FoldedSlots(BlockDim) = 0..(nw - 1)
  BY <1>2, <1>5 DEF BlockWarps
<1>7. nw <= BlockDim
  BY <1>1, <1>4, <1>2
<1>8. ASSUME NEW i \in Vocab PROVE WarpOf(i % BlockDim) \in 0..(nw - 1)
  <2>1. i \in Nat
    BY <1>1 DEF Vocab
  <2>2. i % BlockDim \in 0..(BlockDim - 1)
    BY <1>1, <2>1, DivisionParts
  <2>3. PICK r : r = i % BlockDim
    OBVIOUS
  <2>4. r \in Nat /\ r < nw * W
    BY <1>1, <1>2, <2>2, <2>3
  <2>5. r \div W \in Nat /\ r \div W < nw
    BY <1>1, <1>2, <2>4, DivisionParts, QuotientBelow
  <2>6. r \div W \in 0..(nw - 1)
    BY <1>2, <2>5
  <2> QED BY <2>3, <2>6 DEF WarpOf
<1> HIDE DEF nw
<1>9. 0 \in 0..(nw - 1) /\ IsFiniteSet(0..(nw - 1)) /\ 0..(nw - 1) \subseteq Threads
  BY <1>1, <1>4, <1>7, FS_Interval DEF Threads
<1>10. IsFiniteSet(Vocab)
  BY <1>1, FS_Interval DEF Vocab
<1> QED BY <1>1, <1>6, <1>8, <1>9, <1>10

LEMMA ItemsAreParts ==
  /\ \A w : Items(w) = {i \in Vocab : WarpOf(i % BlockDim) = w} /\ IsFiniteSet(Items(w))
  /\ \A x : x \in Vocab <=> \E w \in BlockWarps : x \in Items(w)
<1>1. \A w : Items(w) = {i \in Vocab : WarpOf(i % BlockDim) = w}
  BY DEF Items, ItemsOf, Vocab
<1>2. ASSUME NEW w PROVE IsFiniteSet(Items(w))
  <2>1. Items(w) \subseteq Vocab
    BY <1>1
  <2> QED BY <2>1, SamplingWarps, FS_Subset
<1>3. \A x : x \in Vocab <=> \E w \in BlockWarps : x \in Items(w)
  BY <1>1, SamplingWarps
<1> QED BY <1>1, <1>2, <1>3

LEMMA RowMaxFacts ==
  ASSUME RowGiven
  PROVE  /\ RowMax \in 0..MaxLogit
         /\ \A i \in Vocab : launch.logits[i] \in 0..MaxLogit /\ launch.logits[i] <= RowMax
         /\ \E i \in Vocab : launch.logits[i] = RowMax
<1> DEFINE S == {launch.logits[i] : i \in Vocab}
<1>1. \A i \in Vocab : launch.logits[i] \in 0..MaxLogit /\ launch.logits[i] \in S
  BY DEF RowGiven
<1>2. 0 \in Vocab /\ MaxLogit \in Int
  BY SamplingWarps DEF Vocab
<1>3. S \subseteq Int /\ S # {} /\ \A x \in S : x <= MaxLogit
  BY <1>1, <1>2
<1>4. \A x \in S : x \in 0..MaxLogit /\ \E i \in Vocab : launch.logits[i] = x
  BY <1>1
<1> HIDE DEF S
<1>5. Max(S) \in S /\ \A x \in S : x <= Max(S)
  BY <1>2, <1>3, MaxOfSet
<1>6. RowMax = Max(S)
  BY DEF RowMax, S
<1> QED BY <1>1, <1>4, <1>5, <1>6

LEMMA WarpMaxFacts ==
  ASSUME RowGiven, NEW w
  PROVE  /\ WarpMax(w) \in {launch.logits[i] : i \in Items(w)} \cup {Lowest}
         /\ \A i \in Items(w) : launch.logits[i] <= WarpMax(w)
<1> DEFINE S == Logits(w) \cup {Lowest}
<1>1. \A i \in Items(w) : launch.logits[i] \in 0..MaxLogit /\ launch.logits[i] \in S
  BY ItemsAreParts, RowMaxFacts DEF Logits, Items
<1>2. S = {launch.logits[i] : i \in Items(w)} \cup {Lowest}
  BY DEF Logits, Items
<1>3. S \subseteq Int /\ S # {} /\ (\A x \in S : x <= MaxLogit) /\ MaxLogit \in Int
  BY <1>1, <1>2, SamplingWarps DEF Lowest
<1> HIDE DEF S
<1>4. Max(S) \in S /\ \A x \in S : x <= Max(S)
  BY <1>3, MaxOfSet
<1>5. WarpMax(w) = Max(S)
  BY DEF WarpMax, S
<1> QED BY <1>1, <1>2, <1>4, <1>5

(* The greatest of the maxima of the warps is that of the row. *)
LEMMA WarpsFindMax ==
  ASSUME RowGiven, NEW mem, \A w \in BlockWarps : mem[w] = WarpMax(w)
  PROVE  Max({mem[t] : t \in FoldedSlots(BlockDim)}) = RowMax
<1> DEFINE S == {mem[t] : t \in FoldedSlots(BlockDim)}
<1>0. FoldedSlots(BlockDim) = BlockWarps /\ 0 \in BlockWarps /\ MaxLogit \in Nat
  BY SamplingWarps
<1>1. ASSUME NEW w \in BlockWarps
      PROVE  mem[w] \in Lowest..RowMax
  <2>1. \/ WarpMax(w) = Lowest
        \/ \E i \in Items(w) : WarpMax(w) = launch.logits[i]
    BY WarpMaxFacts
  <2>2. \A i \in Items(w) : launch.logits[i] \in 0..RowMax
    BY ItemsAreParts, RowMaxFacts
  <2>3. RowMax \in Nat /\ mem[w] = WarpMax(w)
    BY <1>0, <1>1, RowMaxFacts
  <2> QED BY <2>1, <2>2, <2>3 DEF Lowest
<1>2. PICK i \in Vocab : launch.logits[i] = RowMax
  BY RowMaxFacts
<1>3. PICK u \in BlockWarps : i \in Items(u)
  BY ItemsAreParts
<1>4. mem[u] \in S /\ mem[u] = RowMax
  <2>1. RowMax <= mem[u]
    BY <1>2, <1>3, WarpMaxFacts
  <2>2. RowMax \in Nat /\ mem[u] \in Lowest..RowMax
    BY <1>0, <1>1, RowMaxFacts
  <2>3. mem[u] = RowMax
    BY <2>1, <2>2 DEF Lowest
  <2> QED BY <1>0, <2>3
<1>5. S \subseteq Int /\ \A x \in S : x <= RowMax
  BY <1>0, <1>1 DEF Lowest
<1>6. RowMax \in Int
  BY <1>0, RowMaxFacts
<1> HIDE DEF S
<1>7. Max(S) \in S /\ \A x \in S : x <= Max(S)
  BY <1>4, <1>5, <1>6, MaxOfSet
<1>8. Max(S) = RowMax
  <2>1. Max(S) \in Int /\ Max(S) <= RowMax /\ RowMax <= Max(S)
    BY <1>4, <1>5, <1>7
  <2> QED BY <1>6, <2>1
<1> QED BY <1>8 DEF S

LEMMA RowSums ==
  ASSUME RowGiven
  PROVE  /\ \A i \in Vocab : Shifted[i] \in Nat \ {0} /\ Plain[i] \in Nat \ {0}
         /\ Power[RowMax] \in Nat \ {0} /\ Power[MaxLogit] \in Nat \ {0}
         /\ \A S \in SUBSET Vocab :
              /\ SumFunctionOnSet(Shifted, S) \in Nat /\ SumFunctionOnSet(Plain, S) \in Nat
              /\ SumFunctionOnSet(Shifted, S) * Power[RowMax]
                   = SumFunctionOnSet(Plain, S) * Power[MaxLogit]
<1>1. RowMax \in 0..MaxLogit /\ MaxLogit \in 0..MaxLogit
  BY SamplingWarps, RowMaxFacts
<1>2. Power[RowMax] \in Nat \ {0} /\ Power[MaxLogit] \in Nat \ {0}
  BY <1>1, PowerFacts
<1>3. ASSUME NEW i \in Vocab
      PROVE  /\ Shifted[i] \in Nat \ {0} /\ Plain[i] \in Nat \ {0}
             /\ Shifted[i] * Power[RowMax] = Plain[i] * Power[MaxLogit]
  <2>1. PICK l \in 0..MaxLogit : l = launch.logits[i]
    BY RowMaxFacts
  <2>2. Shifted[i] = Power[l - RowMax + MaxLogit] /\ Plain[i] = Power[l]
    BY <2>1 DEF Shifted, Plain
  <2> QED BY <1>1, <2>2, PowerFacts
<1>4. ASSUME NEW S \in SUBSET Vocab
      PROVE  /\ SumFunctionOnSet(Shifted, S) \in Nat /\ SumFunctionOnSet(Plain, S) \in Nat
             /\ SumFunctionOnSet(Shifted, S) * Power[RowMax]
                  = SumFunctionOnSet(Plain, S) * Power[MaxLogit]
  <2>1. IsFiniteSet(S)
    BY SamplingWarps, FS_Subset
  <2>2. PICK v, u : v = Shifted /\ u = Plain
    OBVIOUS
  <2>3. PICK a \in Nat, b \in Nat : a = Power[RowMax] /\ b = Power[MaxLogit]
    BY <1>2
  <2>4. \A x \in S : v[x] \in Nat /\ u[x] \in Nat /\ v[x] * a = u[x] * b
    BY <1>3, <2>2, <2>3
  <2>5. SumFunctionOnSet(v, S) * a = SumFunctionOnSet(u, S) * b
    BY ONLY <2>1, <2>4, SumScaled
  <2>6. SumFunctionOnSet(v, S) \in Nat /\ SumFunctionOnSet(u, S) \in Nat
    BY <2>1, <2>4, SumIsNat
  <2> QED BY <2>2, <2>3, <2>5, <2>6
<1> QED BY <1>2, <1>3, <1>4

(* The folds of the kernel and of what the row asks for are such sums.     *)
LEMMA ShiftedSum ==
  ASSUME s_max_val = RowMax, NEW U, U \subseteq Vocab
  PROVE  MapThenSumSet(LAMBDA i : Exp(launch.logits[i] - s_max_val), U)
           = SumFunctionOnSet(Shifted, U)
<1> DEFINE f(i) == Exp(launch.logits[i] - s_max_val)
           Folds(it) == it = [s \in SUBSET U |->
             IF s = {} THEN 0 ELSE f(Chosen(s)) + it[s \ {Chosen(s)}]]
<1>1. MapThenSumSet(LAMBDA i : Exp(launch.logits[i] - s_max_val), U)
        = (CHOOSE it : Folds(it))[U]
  BY DEF MapThenSumSet, MapThenFoldSet, Chosen
<1>2. \A c \in U : Shifted[c] = f(c)
  BY DEF Shifted, Exp
<1>3. ASSUME NEW it PROVE Folds(it) <=> Adds(it, Shifted, U)
  <2>1. \A s \in SUBSET U : s = {} \/ Shifted[Chosen(s)] = f(Chosen(s))
    BY <1>2, ChosenIsIn
  <2> HIDE DEF f
  <2> QED BY <2>1 DEF Adds, Added
<1>4. PICK it : it = CHOOSE i : Folds(i)
  OBVIOUS
<1>5. IsFiniteSet(U)
  BY SamplingWarps, FS_Subset
<1>6. Adds(it, Shifted, U)
  <2>1. \E i : Folds(i)
    BY <1>3, <1>5, AdderExists
  <2> HIDE DEF Folds
  <2> QED BY <1>3, <1>4, <2>1
<1> HIDE DEF Folds
<1> QED BY <1>1, <1>4, <1>5, <1>6, AddingIsSum

LEMMA ShiftedCdf ==
  ASSUME max_logit[0] = RowMax, NEW U, U \subseteq Vocab
  PROVE  MapThenSumSet(LAMBDA i : Exp(launch.logits[i] - max_logit[0]), U)
           = SumFunctionOnSet(Shifted, U)
<1> DEFINE f(i) == Exp(launch.logits[i] - max_logit[0])
           Folds(it) == it = [s \in SUBSET U |->
             IF s = {} THEN 0 ELSE f(Chosen(s)) + it[s \ {Chosen(s)}]]
<1>1. MapThenSumSet(LAMBDA i : Exp(launch.logits[i] - max_logit[0]), U)
        = (CHOOSE it : Folds(it))[U]
  BY DEF MapThenSumSet, MapThenFoldSet, Chosen
<1>2. \A c \in U : Shifted[c] = f(c)
  BY DEF Shifted, Exp
<1>3. ASSUME NEW it PROVE Folds(it) <=> Adds(it, Shifted, U)
  <2>1. \A s \in SUBSET U : s = {} \/ Shifted[Chosen(s)] = f(Chosen(s))
    BY <1>2, ChosenIsIn
  <2> HIDE DEF f
  <2> QED BY <2>1 DEF Adds, Added
<1>4. PICK it : it = CHOOSE i : Folds(i)
  OBVIOUS
<1>5. IsFiniteSet(U)
  BY SamplingWarps, FS_Subset
<1>6. Adds(it, Shifted, U)
  <2>1. \E i : Folds(i)
    BY <1>3, <1>5, AdderExists
  <2> HIDE DEF Folds
  <2> QED BY <1>3, <1>4, <2>1
<1> HIDE DEF Folds
<1> QED BY <1>1, <1>4, <1>5, <1>6, AddingIsSum

LEMMA PlainSum ==
  ASSUME NEW U, U \subseteq Vocab
  PROVE  Exponentials(U) = SumFunctionOnSet(Plain, U)
<1> DEFINE f(i) == Power[launch.logits[i]]
           Folds(it) == it = [s \in SUBSET U |->
             IF s = {} THEN 0 ELSE f(Chosen(s)) + it[s \ {Chosen(s)}]]
<1>1. Exponentials(U) = (CHOOSE it : Folds(it))[U]
  BY DEF Exponentials, MapThenSumSet, MapThenFoldSet, Chosen
<1>2. \A c \in U : Plain[c] = f(c)
  BY DEF Plain
<1>3. ASSUME NEW it PROVE Folds(it) <=> Adds(it, Plain, U)
  <2>1. \A s \in SUBSET U : s = {} \/ Plain[Chosen(s)] = f(Chosen(s))
    BY <1>2, ChosenIsIn
  <2> HIDE DEF f
  <2> QED BY <2>1 DEF Adds, Added
<1>4. PICK it : it = CHOOSE i : Folds(i)
  OBVIOUS
<1>5. IsFiniteSet(U)
  BY SamplingWarps, FS_Subset
<1>6. Adds(it, Plain, U)
  <2>1. \E i : Folds(i)
    BY <1>3, <1>5, AdderExists
  <2> HIDE DEF Folds
  <2> QED BY <1>3, <1>4, <2>1
<1> HIDE DEF Folds
<1> QED BY <1>1, <1>4, <1>5, <1>6, AddingIsSum

LEMMA MemorySum ==
  ASSUME NEW U, IsFiniteSet(U)
  PROVE  MapThenSumSet(LAMBDA t : s_mem[t], U) = SumFunctionOnSet(s_mem, U)
<1> DEFINE Folds(it) == it = [s \in SUBSET U |->
             IF s = {} THEN 0 ELSE s_mem[Chosen(s)] + it[s \ {Chosen(s)}]]
<1>1. MapThenSumSet(LAMBDA t : s_mem[t], U) = (CHOOSE it : Folds(it))[U]
  BY DEF MapThenSumSet, MapThenFoldSet, Chosen
<1>2. \A it : Folds(it) <=> Adds(it, s_mem, U)
  BY DEF Adds, Added
<1>3. PICK it : it = CHOOSE i : Folds(i)
  OBVIOUS
<1> HIDE DEF Folds
<1>4. Adds(it, s_mem, U)
  BY <1>2, <1>3, AdderExists
<1> QED BY <1>1, <1>3, <1>4, AddingIsSum

LEMMA WarpsAddExponentials ==
  ASSUME RowGiven, NEW mem,
         \A w \in BlockWarps : mem[w] = SumFunctionOnSet(Shifted, Items(w))
  PROVE  SumFunctionOnSet(mem, BlockWarps) = SumFunctionOnSet(Shifted, Vocab)
<1>1. PICK v : v = Shifted
  OBVIOUS
<1>2. PICK part : part = [w \in BlockWarps |-> Items(w)]
  OBVIOUS
<1>3. PICK W : W = BlockWarps
  OBVIOUS
<1>4. \A w \in W : part[w] = {i \in Vocab : WarpOf(i % BlockDim) = w} /\ part[w] = Items(w)
  BY <1>2, <1>3, ItemsAreParts
<1>5. /\ IsFiniteSet(W) /\ \A w, u \in W : w # u => part[w] \cap part[u] = {}
      /\ \A w \in W : /\ IsFiniteSet(part[w]) /\ \A x \in part[w] : v[x] \in Nat
                      /\ mem[w] = SumFunctionOnSet(v, part[w])
  <2>1. IsFiniteSet(W) /\ \A w \in W : IsFiniteSet(part[w])
    BY <1>3, <1>4, ItemsAreParts, SamplingWarps
  <2>2. \A w, u \in W : w # u => part[w] \cap part[u] = {}
    BY <1>4
  <2>3. \A w \in W : \A x \in part[w] : v[x] \in Nat
    BY <1>1, <1>4, RowSums
  <2>4. \A w \in W : mem[w] = SumFunctionOnSet(v, part[w])
    BY <1>1, <1>3, <1>4
  <2> QED BY <2>1, <2>2, <2>3, <2>4
<1>6. \A x : x \in Vocab <=> \E w \in W : x \in part[w]
  BY <1>3, <1>4, ItemsAreParts
<1>7. PICK U : U = Vocab
  OBVIOUS
<1>8. \A x : x \in U <=> \E w \in W : x \in part[w]
  BY <1>6, <1>7
<1>9. SumFunctionOnSet(mem, W) = SumFunctionOnSet(v, U)
  BY ONLY <1>5, <1>8, SumOfParts, SMTT(30)
<1> QED BY <1>1, <1>3, <1>7, <1>9

-----------------------------------------------------------------------------
(* The token a row asks for, and what thread 0 puts out. *)
IsWantedToken(i) ==
  /\ i \in Vocab
  /\ IF launch.greedy
     THEN /\ \A j \in Vocab : launch.logits[j] <= launch.logits[i]
          /\ \A j \in 0..(i - 1) : launch.logits[j] < launch.logits[i]
     ELSE LET all == SumFunctionOnSet(Plain, Vocab)
              upto(j) == SumFunctionOnSet(Plain, 0..j)
          IN  /\ launch.draw * all <= DrawSteps * upto(i)
              /\ launch.draw * all > DrawSteps * upto(i - 1)

LEMMA TokensReached ==
  ASSUME RowGiven, NEW i \in Vocab, NEW t \in Vocab, i < t,
         NEW need \in Nat, need <= DrawSteps * SumFunctionOnSet(Plain, 0..i)
  PROVE  need <= DrawSteps * SumFunctionOnSet(Plain, 0..(t - 1))
<1>1. i \in Nat /\ t \in Nat /\ 0..i \subseteq 0..(t - 1) /\ 0..(t - 1) \subseteq Vocab
      /\ 0..i \subseteq Vocab
  BY SamplingWarps DEF Vocab
<1>2. PICK x \in Nat, y \in Nat, n \in Nat :
        /\ x = SumFunctionOnSet(Plain, 0..i) /\ y = SumFunctionOnSet(Plain, 0..(t - 1))
        /\ n = DrawSteps
  BY <1>1, RowSums, SamplingWarps
<1>3. x <= y
  <2>1. IsFiniteSet(0..(t - 1)) /\ \A c \in 0..(t - 1) : Plain[c] \in Nat
    BY <1>1, RowSums, SamplingWarps, FS_Subset
  <2>2. 0..i \in SUBSET (0..(t - 1))
    BY <1>1
  <2> QED BY <1>2, <2>1, <2>2, SumOfPart
<1>4. n * x <= n * y
  <2>1. n * y = n * x + n * (y - x) /\ n * (y - x) \in Nat /\ n * x \in Nat /\ n * y \in Nat
    BY <1>3
  <2> QED BY <2>1
<1>5. need <= n * x
  BY <1>2
<1>6. need <= n * y
  <2>1. n * x \in Nat /\ n * y \in Nat
    OBVIOUS
  <2> QED BY <1>4, <1>5, <2>1
<1> QED BY <1>2, <1>6

LEMMA WantedIsToken ==
  ASSUME RowGiven, NEW t, IsWantedToken(t)
  PROVE  Wanted = t
<1>1. \A i \in Vocab : i \in Nat /\ launch.logits[i] \in Int /\ 0..i \subseteq Vocab
                       /\ 0..(i - 1) \subseteq Vocab
  BY SamplingWarps, RowMaxFacts DEF Vocab
<1>2. t \in Vocab /\ t \in Nat
  BY <1>1 DEF IsWantedToken
<1>3. CASE launch.greedy
  <2> DEFINE IsWanted(i) == /\ \A j \in Vocab : launch.logits[j] <= launch.logits[i]
                            /\ \A j \in 0..(i - 1) : launch.logits[j] < launch.logits[i]
  <2>1. IsWanted(t)
    BY <1>3 DEF IsWantedToken
  <2>2. ASSUME NEW i \in Vocab, IsWanted(i) PROVE i = t
    <3>1. ~(t < i)
      <4> SUFFICES ASSUME t < i PROVE FALSE
        OBVIOUS
      <4>1. t \in 0..(i - 1)
        <5>1. i \in Nat /\ t \in Nat
          BY <1>1, <1>2, <2>2
        <5> HIDE DEF IsWanted
        <5> QED BY <5>1
      <4>2. launch.logits[t] < launch.logits[i] /\ launch.logits[i] <= launch.logits[t]
        BY <2>1, <2>2, <4>1
      <4> QED BY <1>1, <1>2, <4>2
    <3>2. ~(i < t)
      <4> SUFFICES ASSUME i < t PROVE FALSE
        OBVIOUS
      <4>1. i \in 0..(t - 1)
        BY <1>1, <1>2
      <4>2. launch.logits[i] < launch.logits[t] /\ launch.logits[t] <= launch.logits[i]
        BY <1>2, <2>1, <2>2, <4>1
      <4> QED BY <1>1, <1>2, <4>2
    <3> QED BY <1>1, <1>2, <3>1, <3>2
  <2>3. Wanted = CHOOSE i \in Vocab : IsWanted(i)
    BY <1>3 DEF Wanted
  <2> HIDE DEF IsWanted
  <2> QED BY <1>2, <2>1, <2>2, <2>3
<1>4. CASE ~launch.greedy
  <2> DEFINE IsWanted(i) ==
               /\ launch.draw * Exponentials(Vocab) <= DrawSteps * Exponentials(0..i)
               /\ launch.draw * Exponentials(Vocab) > DrawSteps * Exponentials(0..(i - 1))
             P(i) == SumFunctionOnSet(Plain, 0..i)
             all == SumFunctionOnSet(Plain, Vocab)
  <2>1. Exponentials(Vocab) = all
        /\ \A i \in Vocab : Exponentials(0..i) = P(i) /\ Exponentials(0..(i - 1)) = P(i - 1)
    BY <1>1, PlainSum
  <2>2. PICK need \in Nat : need = launch.draw * all
    BY RowSums DEF RowGiven
  <2>3. ASSUME NEW i \in Vocab PROVE DrawSteps * P(i) \in Nat /\ DrawSteps * P(i - 1) \in Nat
    <3>1. P(i) \in Nat /\ P(i - 1) \in Nat /\ DrawSteps \in Nat
      BY <1>1, RowSums, SamplingWarps
    <3> HIDE DEF P
    <3> QED BY <3>1
  <2>4. \A i \in Vocab :
          IsWanted(i) <=> need <= DrawSteps * P(i) /\ need > DrawSteps * P(i - 1)
    BY <2>1, <2>2
  <2>5. IsWanted(t)
    BY <1>2, <1>4, <2>2, <2>4 DEF IsWantedToken
  <2> HIDE DEF IsWanted
  <2>6. ASSUME NEW i \in Vocab, IsWanted(i) PROVE i = t
    <3>1. need <= DrawSteps * P(i) /\ need > DrawSteps * P(i - 1)
      BY <2>4, <2>6
    <3>2. need <= DrawSteps * P(t) /\ need > DrawSteps * P(t - 1)
      BY <1>2, <2>4, <2>5
    <3>3. ~(t < i)
      <4> SUFFICES ASSUME t < i PROVE FALSE
        OBVIOUS
      <4>1. need <= DrawSteps * P(i - 1)
        BY <1>2, <3>2, TokensReached
      <4> HIDE DEF P
      <4> QED BY <2>3, <3>1, <4>1
    <3>4. ~(i < t)
      <4> SUFFICES ASSUME i < t PROVE FALSE
        OBVIOUS
      <4>1. need <= DrawSteps * P(t - 1)
        BY <1>2, <3>1, TokensReached
      <4> HIDE DEF P
      <4> QED BY <1>2, <2>3, <3>2, <4>1
    <3> QED BY <1>1, <1>2, <3>3, <3>4
  <2>7. Wanted = CHOOSE i \in Vocab : IsWanted(i)
    BY <1>4 DEF Wanted, IsWanted
  <2> QED BY <1>2, <2>5, <2>6, <2>7
<1> QED BY <1>3, <1>4

LEMMA FirstOfGreatest ==
  ASSUME RowGiven, launch.greedy
  PROVE  IsWantedToken(
           Min({i \in Vocab : \A j \in Vocab : launch.logits[j] <= launch.logits[i]}))
<1> DEFINE best == {i \in Vocab : \A j \in Vocab : launch.logits[j] <= launch.logits[i]}
           IsWanted(i) == /\ \A j \in Vocab : launch.logits[j] <= launch.logits[i]
                          /\ \A j \in 0..(i - 1) : launch.logits[j] < launch.logits[i]
<1>1. \A i \in Vocab : i \in Nat /\ launch.logits[i] \in Int /\ 0..(i - 1) \subseteq Vocab
  BY SamplingWarps, RowMaxFacts DEF Vocab
<1>2. best \subseteq Nat /\ best # {}
  BY <1>1, RowMaxFacts
<1>3. PICK m : m = Min(best)
  OBVIOUS
<1>4. m \in best /\ \A x \in best : m <= x
  BY <1>2, <1>3, MinOfSet
<1>5. m \in Vocab /\ IsWanted(m)
  <2>1. m \in Vocab /\ \A j \in Vocab : launch.logits[j] <= launch.logits[m]
    BY <1>4
  <2>2. ASSUME NEW j \in 0..(m - 1) PROVE launch.logits[j] < launch.logits[m]
    <3>1. j \in Vocab /\ m \in Nat /\ j < m
      BY <1>1, <2>1
    <3>2. ~(m <= j) /\ j \notin best
      BY <1>1, <1>4, <3>1
    <3>3. PICK i \in Vocab : ~(launch.logits[i] <= launch.logits[j])
      BY <3>1, <3>2
    <3>4. launch.logits[i] <= launch.logits[m]
      BY <2>1
    <3> QED BY <1>1, <2>1, <3>1, <3>3, <3>4
  <2> QED BY <2>1, <2>2
<1> QED BY <1>3, <1>5 DEF IsWantedToken, best

LEMMA DrawnIsWanted ==
  ASSUME RowGiven, ~launch.greedy, max_logit[0] = RowMax,
         NEW sum, sum = SumFunctionOnSet(Shifted, Vocab)
  PROVE  IsWantedToken(Drawn(sum))
<1> DEFINE P(i) == SumFunctionOnSet(Plain, 0..i)
           all == SumFunctionOnSet(Plain, Vocab)
           reached == {i \in Vocab : launch.draw * sum <= DrawSteps * Cdf(i)}
<1>1. PICK d \in Nat \ {0}, n \in Nat \ {0}, top \in Nat :
        d = launch.draw /\ n = DrawSteps /\ d <= n /\ top = vocab_size - 1
  BY SamplingWarps DEF RowGiven
<1>2. /\ Vocab = 0..top /\ IsFiniteSet(Vocab)
      /\ \A i \in Vocab : i \in Nat /\ 0..i \subseteq Vocab /\ 0..(i - 1) \subseteq Vocab
  BY <1>1, SamplingWarps DEF Vocab
<1>3. all \in Nat /\ \A i \in Vocab : P(i) \in Nat /\ P(i - 1) \in Nat
  BY <1>2, RowSums
<1>5. ASSUME NEW i \in Vocab
      PROVE  i \in reached <=> d * all <= n * P(i)
  <2>1. PICK c \in Nat, s \in Nat, a \in Nat \ {0}, b \in Nat \ {0} :
          /\ c = SumFunctionOnSet(Shifted, 0..i) /\ s = sum
          /\ a = Power[RowMax] /\ b = Power[MaxLogit]
    BY <1>2, RowSums
  <2>2. c * a = P(i) * b /\ s * a = all * b
    BY <1>2, <2>1, RowSums
  <2>3. Cdf(i) = c
    <3>1. PICK U : U = 0..i
      OBVIOUS
    <3>2. MapThenSumSet(LAMBDA j : Exp(launch.logits[j] - max_logit[0]), U) = c
      BY <1>2, <2>1, <3>1, ShiftedCdf
    <3> QED BY <3>1, <3>2 DEF Cdf
  <2>4. i \in reached <=> d * s <= n * c
    BY <1>1, <2>1, <2>3
  <2>5. d * s \in Nat /\ n * c \in Nat
    OBVIOUS
  <2>6. d * s <= n * c <=> (d * s) * a <= (n * c) * a
    BY <2>5, FactorKeepsOrder
  <2>7. PICK p \in Nat, q \in Nat : p = P(i) /\ q = all
    BY <1>3
  <2>8. (d * s) * a = (d * q) * b /\ (n * c) * a = (n * p) * b
    <3>1. (d * s) * a = d * (s * a) /\ (n * c) * a = n * (c * a)
      OBVIOUS
    <3>2. (d * q) * b = d * (q * b) /\ (n * p) * b = n * (p * b)
      OBVIOUS
    <3> QED BY <2>2, <2>7, <3>1, <3>2
  <2>9. d * q \in Nat /\ n * p \in Nat
    OBVIOUS
  <2>10. d * q <= n * p <=> (d * q) * b <= (n * p) * b
    BY <2>9, FactorKeepsOrder
  <2> QED BY <2>4, <2>6, <2>7, <2>8, <2>10
<1>6. top \in reached
  <2>1. top \in Vocab /\ P(top) = all
    BY <1>1, <1>2
  <2>2. d * all <= n * all
    <3>1. n * all = d * all + (n - d) * all /\ (n - d) * all \in Nat /\ d * all \in Nat
      BY <1>1, <1>3
    <3> QED BY <3>1, <1>3
  <2> QED BY <1>5, <2>1, <2>2
<1>7. d * all \in Nat \ {0}
  <2>1. 0 \in Vocab
    BY <1>1, <1>2
  <2>2. all = Plain[0] + SumFunctionOnSet(Plain, Vocab \ {0})
    <3>1. PICK v, U : v = Plain /\ U = Vocab
      OBVIOUS
    <3>2. IsFiniteSet(U) /\ 0 \in U /\ \A x \in U : v[x] \in Nat
      BY <1>2, <2>1, <3>1, RowSums
    <3>3. SumFunctionOnSet(v, U) = v[0] + SumFunctionOnSet(v, U \ {0})
      BY ONLY <3>2, SumWithout
    <3> QED BY <3>1, <3>3
  <2>3. all \in Nat \ {0}
    <3>1. PICK p \in Nat \ {0}, r \in Nat :
            p = Plain[0] /\ r = SumFunctionOnSet(Plain, Vocab \ {0})
      BY <2>1, RowSums
    <3> QED BY <2>2, <3>1
  <2> HIDE DEF all
  <2> QED BY <1>1, <2>3
<1>8. PICK m : m = Min(reached)
  OBVIOUS
<1>9. m \in reached /\ \A x \in reached : m <= x
  BY <1>2, <1>6, <1>8, MinOfSet
<1>10. m \in Vocab /\ m \in Nat
  BY <1>2, <1>9
<1> HIDE DEF P, all
<1>11. d * all <= n * P(m) /\ d * all > n * P(m - 1)
  <2>1. d * all <= n * P(m)
    BY <1>5, <1>9, <1>10
  <2>2. d * all > n * P(m - 1)
    <3>1. CASE m = 0
      <4>1. 0..(m - 1) = {}
        BY <3>1
      <4>2. P(m - 1) = 0
        BY <4>1, SumOfNothing DEF P
      <4> QED BY <1>1, <1>7, <4>2
    <3>2. CASE m # 0
      <4>1. m - 1 \in Vocab /\ m - 1 < m
        BY <1>1, <1>2, <1>10, <3>2
      <4>2. m - 1 \notin reached
        BY <1>2, <1>9, <1>10, <4>1
      <4>3. ~(d * all <= n * P(m - 1))
        BY <1>5, <4>1, <4>2
      <4>4. n * P(m - 1) \in Nat
        BY <1>3, <1>10
      <4> QED BY <1>7, <4>3, <4>4
    <3> QED BY <3>1, <3>2
  <2> QED BY <2>1, <2>2
<1>12. Drawn(sum) = Min(reached)
  BY <1>6 DEF Drawn
<1>13. m = Drawn(sum)
  BY <1>8, <1>12
<1> HIDE DEF reached
<1> QED BY <1>1, <1>10, <1>11, <1>13 DEF IsWantedToken, P, all

-----------------------------------------------------------------------------
(* What each warp has done so far, and what of it shared memory holds.     *)
SamplingShape ==
  DOMAIN stage = BlockWarps /\ DOMAIN s_mem = Threads /\ DOMAIN max_logit = BlockWarps

WarpsInStep(st) ==
  /\ st \in [BlockWarps -> 0..5]
  /\ \A w, v \in BlockWarps :
       /\ st[w] >= 2 => st[v] >= 1
       /\ st[w] >= 3 => st[v] >= 2
       /\ st[w] >= 4 => st[v] >= 3
       /\ st[w] = 5 /\ ~launch.greedy => st[v] >= 4
       /\ st[w] = 4 => ~launch.greedy

MemoryHolds(st, mem, reg) ==
  /\ st[0] <= 1 => \A w \in BlockWarps : st[w] \in {1, 2} => mem[w] = WarpMax(w)
  /\ ~launch.greedy => \A w \in BlockWarps : st[w] >= 3 =>
       reg[w] = RowMax /\ mem[w] = SumFunctionOnSet(Shifted, Items(w))

ResultsHold(st, max_val, sum_val, token) ==
  /\ st[0] >= 2 => max_val = RowMax
  /\ st[0] >= 4 /\ ~launch.greedy => sum_val = SumFunctionOnSet(Shifted, Vocab)
  /\ st[0] = 5 => IsWantedToken(token)

RowSampled ==
  /\ RowGiven
  /\ WarpsInStep(stage)
  /\ MemoryHolds(stage, s_mem, max_logit)
  /\ ResultsHold(stage, s_max_val, s_sum_val, output_token)

SamplingInv == SamplingShape /\ (launch = NoLaunch \/ RowSampled)

LEMMA RowStays ==
  ASSUME launch' = launch
  PROVE  /\ RowGiven' = RowGiven /\ RowMax' = RowMax /\ Shifted' = Shifted
         /\ \A w : WarpMax(w)' = WarpMax(w)
         /\ \A i : IsWantedToken(i)' <=> IsWantedToken(i)
<1>1. RowMax' = RowMax
  BY DEF RowMax
<1>2. Shifted' = Shifted /\ Plain' = Plain
  BY <1>1 DEF Shifted, Plain
<1>3. \A w : WarpMax(w)' = WarpMax(w)
  BY DEF WarpMax, Logits
<1>4. \A i : IsWantedToken(i)' <=> IsWantedToken(i)
  BY <1>2 DEF IsWantedToken
<1>5. RowGiven' = RowGiven
  BY DEF RowGiven
<1> QED BY <1>1, <1>2, <1>3, <1>4, <1>5

LEMMA RowGoesOn ==
  ASSUME RowGiven, launch' = launch, WarpsInStep(stage'),
         MemoryHolds(stage', s_mem', max_logit'),
         ResultsHold(stage', s_max_val', s_sum_val', output_token')
  PROVE  RowSampled'
<1>1. RowGiven' /\ WarpsInStep(stage)'
  BY RowStays DEF WarpsInStep
<1>2. MemoryHolds(stage, s_mem, max_logit)'
  <2>1. \A w : Items(w)' = Items(w)
    BY DEF Items
  <2> QED BY <2>1, RowStays DEF MemoryHolds
<1>3. ResultsHold(stage, s_max_val, s_sum_val, output_token)'
  BY RowStays DEF ResultsHold
<1> QED BY <1>1, <1>2, <1>3 DEF RowSampled

(* A warp that goes on past a barrier that all have reached. *)
LEMMA StageMoves ==
  ASSUME NEW st, WarpsInStep(st), NEW w \in BlockWarps, NEW s,
         \A v \in BlockWarps : st[v] >= st[w],
         \/ st[w] <= 2 /\ s = st[w] + 1
         \/ ~launch.greedy /\ st[w] \in {3, 4} /\ s = st[w] + 1
         \/ launch.greedy /\ st[w] = 3 /\ s = 5
  PROVE  WarpsInStep([st EXCEPT ![w] = s])
<1>1. st \in [BlockWarps -> 0..5] /\ s \in 0..5
  BY DEF WarpsInStep
<1>2. PICK stN : stN = [st EXCEPT ![w] = s]
  OBVIOUS
<1>3. /\ stN \in [BlockWarps -> 0..5]
      /\ \A v \in BlockWarps : stN[v] = IF v = w THEN s ELSE st[v]
  BY <1>1, <1>2
<1>4. ASSUME NEW u \in BlockWarps, NEW v \in BlockWarps
      PROVE  /\ stN[u] >= 2 => stN[v] >= 1
             /\ stN[u] >= 3 => stN[v] >= 2
             /\ stN[u] >= 4 => stN[v] >= 3
             /\ stN[u] = 5 /\ ~launch.greedy => stN[v] >= 4
             /\ stN[u] = 4 => ~launch.greedy
  <2>1. /\ st[u] >= 2 => st[v] >= 1
        /\ st[u] >= 3 => st[v] >= 2
        /\ st[u] >= 4 => st[v] >= 3
        /\ st[u] = 5 /\ ~launch.greedy => st[v] >= 4
        /\ st[u] = 4 => ~launch.greedy
    BY DEF WarpsInStep
  <2>2. st[u] \in 0..5 /\ st[v] \in 0..5 /\ st[w] \in 0..5 /\ st[v] >= st[w]
    BY <1>1
  <2>3. CASE u = w
    BY <1>3, <2>2, <2>3
  <2>4. CASE u # w /\ v = w
    BY <1>3, <2>1, <2>2, <2>4
  <2>5. CASE u # w /\ v # w
    BY <1>3, <2>1, <2>5
  <2> QED BY <2>3, <2>4, <2>5
<1> QED BY <1>2, <1>3, <1>4 DEF WarpsInStep

LEMMA StageFacts ==
  ASSUME RowSampled
  PROVE  /\ RowGiven /\ WarpsInStep(stage) /\ MemoryHolds(stage, s_mem, max_logit)
         /\ ResultsHold(stage, s_max_val, s_sum_val, output_token)
         /\ stage \in [BlockWarps -> 0..5] /\ DOMAIN stage = BlockWarps
         /\ 0 \in BlockWarps /\ BlockWarps \subseteq Threads
BY SamplingWarps DEF RowSampled, WarpsInStep

LEMMA FindMaxInv ==
  ASSUME SamplingShape, RowSampled, NEW w \in BlockWarps, FindMax(w)
  PROVE  RowSampled'
<1>1. /\ RowGiven /\ WarpsInStep(stage) /\ MemoryHolds(stage, s_mem, max_logit)
      /\ ResultsHold(stage, s_max_val, s_sum_val, output_token)
      /\ 0 \in BlockWarps /\ w \in Threads /\ DOMAIN s_mem = Threads
  BY StageFacts DEF SamplingShape
<1>2. PICK st, stN : st = stage /\ stN = stage'
  OBVIOUS
<1>3. /\ st[w] = 0 /\ launch' = launch /\ s_mem' = [s_mem EXCEPT ![w] = WarpMax(w)]
      /\ s_max_val' = s_max_val /\ s_sum_val' = s_sum_val /\ max_logit' = max_logit
      /\ output_token' = output_token /\ stN = [st EXCEPT ![w] = 1]
  BY <1>2 DEF FindMax, Arrive, WarpMax
<1>4. st \in [BlockWarps -> 0..5] /\ stN \in [BlockWarps -> 0..5]
      /\ \A v \in BlockWarps : stN[v] = IF v = w THEN 1 ELSE st[v]
  BY <1>2, <1>3, StageFacts
<1>5. WarpsInStep(stN)
  <2>1. WarpsInStep(st) /\ st[w] <= 2 /\ 1 = st[w] + 1
        /\ \A v \in BlockWarps : st[v] >= st[w]
    BY <1>1, <1>2, <1>3, <1>4
  <2> QED BY <1>3, <2>1, StageMoves
<1>6. \A v \in BlockWarps : st[v] <= 1
  BY <1>1, <1>2, <1>3, <1>4 DEF WarpsInStep
<1>7. MemoryHolds(stN, s_mem', max_logit')
  <2>1. ASSUME NEW v \in BlockWarps, stN[v] \in {1, 2} PROVE s_mem'[v] = WarpMax(v)
    <3>1. CASE v = w
      BY <1>1, <1>3, <3>1
    <3>2. CASE v # w
      <4>1. st[v] \in {1, 2} /\ s_mem'[v] = s_mem[v] /\ st[0] <= 1
        BY <1>1, <1>3, <1>4, <1>6, <2>1, <3>2
      <4> QED BY <1>1, <1>2, <4>1 DEF MemoryHolds
    <3> QED BY <3>1, <3>2
  <2>2. \A v \in BlockWarps : ~(stN[v] >= 3)
    BY <1>4, <1>6
  <2> QED BY <2>1, <2>2 DEF MemoryHolds
<1>8. ResultsHold(stN, s_max_val', s_sum_val', output_token')
  <2>1. stN[0] \in 0..1
    BY <1>1, <1>4, <1>6
  <2> QED BY <2>1 DEF ResultsHold
<1> QED BY <1>1, <1>2, <1>3, <1>5, <1>7, <1>8, RowGoesOn

LEMMA ReduceMaxInv ==
  ASSUME SamplingShape, RowSampled, NEW w \in BlockWarps, ReduceMax(w)
  PROVE  RowSampled'
<1>1. /\ RowGiven /\ WarpsInStep(stage) /\ MemoryHolds(stage, s_mem, max_logit)
      /\ ResultsHold(stage, s_max_val, s_sum_val, output_token)
      /\ 0 \in BlockWarps /\ DOMAIN stage = BlockWarps
  BY StageFacts
<1>2. PICK st, stN : st = stage /\ stN = stage'
  OBVIOUS
<1>3. /\ st[w] = 1 /\ launch' = launch /\ s_mem' = s_mem
      /\ s_sum_val' = s_sum_val /\ max_logit' = max_logit
      /\ output_token' = output_token /\ stN = [st EXCEPT ![w] = 2]
      /\ \A v \in BlockWarps : st[v] >= st[w]
  BY <1>1, <1>2 DEF ReduceMax, Arrive, Synced
<1>4. st \in [BlockWarps -> 0..5] /\ stN \in [BlockWarps -> 0..5]
      /\ \A v \in BlockWarps : stN[v] = IF v = w THEN 2 ELSE st[v]
  BY <1>2, <1>3, StageFacts
<1>5. WarpsInStep(stN)
  <2>1. WarpsInStep(st) /\ st[w] <= 2 /\ 2 = st[w] + 1
        /\ \A v \in BlockWarps : st[v] >= st[w]
    BY <1>1, <1>2, <1>3, <1>4
  <2> QED BY <1>3, <2>1, StageMoves
<1>6. \A v \in BlockWarps : st[v] \in {1, 2}
  BY <1>1, <1>2, <1>3, <1>4 DEF WarpsInStep
<1>7. MemoryHolds(stN, s_mem', max_logit')
  <2>1. \A v \in BlockWarps : ~(stN[v] >= 3)
    BY <1>4, <1>6
  <2>2. ASSUME stN[0] <= 1 PROVE \A v \in BlockWarps : s_mem[v] = WarpMax(v)
    <3>1. st[0] <= 1
      BY <1>1, <1>4, <2>2
    <3> QED BY <1>1, <1>2, <1>6, <3>1 DEF MemoryHolds
  <2> QED BY <1>3, <2>1, <2>2 DEF MemoryHolds
<1>8. ResultsHold(stN, s_max_val', s_sum_val', output_token')
  <2>1. stN[0] \in 1..2
    BY <1>1, <1>4, <1>6
  <2>2. CASE w = 0
    <3>1. \A v \in BlockWarps : s_mem[v] = WarpMax(v)
      BY <1>1, <1>2, <1>3, <1>6, <2>2 DEF MemoryHolds
    <3>2. s_max_val' = RowMax
      BY <1>1, <2>2, <3>1, WarpsFindMax DEF ReduceMax
    <3> QED BY <2>1, <3>2 DEF ResultsHold
  <2>3. CASE w # 0
    <3>1. stN[0] = st[0] /\ s_max_val' = s_max_val
      BY <1>1, <1>4, <2>3 DEF ReduceMax
    <3> QED BY <1>1, <1>2, <2>1, <3>1 DEF ResultsHold
  <2> QED BY <2>2, <2>3
<1> QED BY <1>1, <1>2, <1>3, <1>5, <1>7, <1>8, RowGoesOn

LEMMA StoreBestInv ==
  ASSUME SamplingShape, RowSampled, NEW w \in BlockWarps, StoreBest(w)
  PROVE  RowSampled'
<1>1. /\ RowGiven /\ WarpsInStep(stage) /\ MemoryHolds(stage, s_mem, max_logit)
      /\ ResultsHold(stage, s_max_val, s_sum_val, output_token)
      /\ 0 \in BlockWarps /\ DOMAIN stage = BlockWarps
  BY StageFacts
<1>2. PICK st, stN : st = stage /\ stN = stage'
  OBVIOUS
<1>3. /\ st[w] = 2 /\ launch.greedy /\ launch' = launch
      /\ s_max_val' = s_max_val /\ s_sum_val' = s_sum_val
      /\ output_token' = output_token /\ stN = [st EXCEPT ![w] = 3]
      /\ \A v \in BlockWarps : st[v] >= st[w]
  BY <1>1, <1>2 DEF StoreBest, Arrive, Synced
<1>4. st \in [BlockWarps -> 0..5] /\ stN \in [BlockWarps -> 0..5]
      /\ \A v \in BlockWarps : stN[v] = IF v = w THEN 3 ELSE st[v]
  BY <1>2, <1>3, StageFacts
<1>5. WarpsInStep(stN)
  <2>1. WarpsInStep(st) /\ st[w] <= 2 /\ 3 = st[w] + 1
    BY <1>1, <1>2, <1>3
  <2> QED BY <1>3, <2>1, StageMoves
<1>6. st[0] \in {2, 3} /\ stN[0] \in {2, 3}
  <2>1. st[0] \in 0..5 /\ st[0] >= 2 /\ ~(st[0] >= 4)
    BY <1>1, <1>2, <1>3, <1>4 DEF WarpsInStep
  <2> QED BY <1>1, <1>4, <2>1
<1>7. MemoryHolds(stN, s_mem', max_logit')
  BY <1>3, <1>6 DEF MemoryHolds
<1>8. ResultsHold(stN, s_max_val', s_sum_val', output_token')
  BY <1>1, <1>2, <1>3, <1>6 DEF ResultsHold
<1> QED BY <1>1, <1>2, <1>3, <1>5, <1>7, <1>8, RowGoesOn

LEMMA PickBestInv ==
  ASSUME SamplingShape, RowSampled, NEW w \in BlockWarps, PickBest(w)
  PROVE  RowSampled'
<1>1. /\ RowGiven /\ WarpsInStep(stage) /\ MemoryHolds(stage, s_mem, max_logit)
      /\ ResultsHold(stage, s_max_val, s_sum_val, output_token)
      /\ 0 \in BlockWarps /\ DOMAIN stage = BlockWarps
  BY StageFacts
<1>2. PICK st, stN : st = stage /\ stN = stage'
  OBVIOUS
<1>3. /\ st[w] = 3 /\ launch.greedy /\ launch' = launch
      /\ s_max_val' = s_max_val /\ s_sum_val' = s_sum_val
      /\ stN = [st EXCEPT ![w] = 5]
      /\ \A v \in BlockWarps : st[v] >= st[w]
  BY <1>1, <1>2 DEF PickBest, Arrive, Synced
<1>4. st \in [BlockWarps -> 0..5] /\ stN \in [BlockWarps -> 0..5]
      /\ \A v \in BlockWarps : stN[v] = IF v = w THEN 5 ELSE st[v]
  BY <1>2, <1>3, StageFacts
<1>5. WarpsInStep(stN)
  <2>1. WarpsInStep(st)
    BY <1>1, <1>2
  <2> QED BY <1>3, <2>1, StageMoves
<1>6. st[0] \in 3..5 /\ stN[0] \in 3..5
  BY <1>1, <1>3, <1>4
<1>7. MemoryHolds(stN, s_mem', max_logit')
  BY <1>3, <1>6 DEF MemoryHolds
<1>8. ResultsHold(stN, s_max_val', s_sum_val', output_token')
  <2>1. s_max_val' = RowMax
    BY <1>1, <1>2, <1>3, <1>6 DEF ResultsHold
  <2>2. CASE w = 0
    <3>1. IsWantedToken(output_token')
      BY <1>1, <1>3, <2>2, FirstOfGreatest DEF PickBest
    <3> QED BY <1>3, <2>1, <3>1 DEF ResultsHold
  <2>3. CASE w # 0
    <3>1. stN[0] = st[0] /\ output_token' = output_token
      BY <1>1, <1>4, <2>3 DEF PickBest
    <3> QED BY <1>1, <1>2, <1>3, <2>1, <3>1 DEF ResultsHold
  <2> QED BY <2>2, <2>3
<1> QED BY <1>1, <1>2, <1>3, <1>5, <1>7, <1>8, RowGoesOn

LEMMA SumExpInv ==
  ASSUME SamplingShape, RowSampled, NEW w \in BlockWarps, SumExp(w)
  PROVE  RowSampled'
<1>1. /\ RowGiven /\ WarpsInStep(stage) /\ MemoryHolds(stage, s_mem, max_logit)
      /\ ResultsHold(stage, s_max_val, s_sum_val, output_token)
      /\ 0 \in BlockWarps /\ DOMAIN stage = BlockWarps
      /\ w \in Threads /\ DOMAIN s_mem = Threads /\ DOMAIN max_logit = BlockWarps
  BY StageFacts DEF SamplingShape
<1>2. PICK st, stN : st = stage /\ stN = stage'
  OBVIOUS
<1>3. /\ st[w] = 2 /\ ~launch.greedy /\ launch' = launch
      /\ s_max_val' = s_max_val /\ s_sum_val' = s_sum_val
      /\ max_logit' = [max_logit EXCEPT ![w] = s_max_val]
      /\ output_token' = output_token /\ stN = [st EXCEPT ![w] = 3]
      /\ \A v \in BlockWarps : st[v] >= st[w]
  BY <1>1, <1>2 DEF SumExp, Arrive, Synced
<1>4. st \in [BlockWarps -> 0..5] /\ stN \in [BlockWarps -> 0..5]
      /\ \A v \in BlockWarps : stN[v] = IF v = w THEN 3 ELSE st[v]
  BY <1>2, <1>3, StageFacts
<1>5. WarpsInStep(stN)
  <2>1. WarpsInStep(st) /\ st[w] <= 2 /\ 3 = st[w] + 1
    BY <1>1, <1>2, <1>3
  <2> QED BY <1>3, <2>1, StageMoves
<1>6. st[0] \in {2, 3} /\ stN[0] \in {2, 3}
  <2>1. st[0] \in 0..5 /\ st[0] >= 2 /\ ~(st[0] >= 4)
    BY <1>1, <1>2, <1>3, <1>4 DEF WarpsInStep
  <2> QED BY <1>1, <1>4, <2>1
<1>7. s_max_val = RowMax
  BY <1>1, <1>2, <1>6 DEF ResultsHold
<1>8. s_mem' = [s_mem EXCEPT ![w] = SumFunctionOnSet(Shifted, Items(w))]
  <2>1. PICK U : U = Items(w)
    OBVIOUS
  <2>2. U \subseteq Vocab
    BY <2>1, ItemsAreParts
  <2>3. MapThenSumSet(LAMBDA i : Exp(launch.logits[i] - s_max_val), U)
          = SumFunctionOnSet(Shifted, U)
    BY <1>7, <2>2, ShiftedSum
  <2>4. s_mem' = [s_mem EXCEPT ![w] =
                    MapThenSumSet(LAMBDA i : Exp(launch.logits[i] - s_max_val), U)]
    BY <2>1 DEF SumExp, Items
  <2> QED BY <2>1, <2>3, <2>4
<1>9. MemoryHolds(stN, s_mem', max_logit')
  <2>1. ASSUME NEW v \in BlockWarps, stN[v] >= 3
        PROVE  max_logit'[v] = RowMax /\ s_mem'[v] = SumFunctionOnSet(Shifted, Items(v))
    <3>1. CASE v = w
      BY <1>1, <1>3, <1>7, <1>8, <3>1
    <3>2. CASE v # w
      <4>1. st[v] >= 3 /\ s_mem'[v] = s_mem[v] /\ max_logit'[v] = max_logit[v]
        BY <1>1, <1>3, <1>4, <1>8, <2>1, <3>2
      <4> QED BY <1>1, <1>2, <1>3, <4>1 DEF MemoryHolds
    <3> QED BY <3>1, <3>2
  <2> QED BY <1>6, <2>1 DEF MemoryHolds
<1>10. ResultsHold(stN, s_max_val', s_sum_val', output_token')
  BY <1>3, <1>6, <1>7 DEF ResultsHold
<1> QED BY <1>1, <1>2, <1>3, <1>5, <1>9, <1>10, RowGoesOn

LEMMA ReduceSumInv ==
  ASSUME SamplingShape, RowSampled, NEW w \in BlockWarps, ReduceSum(w)
  PROVE  RowSampled'
<1>1. /\ RowGiven /\ WarpsInStep(stage) /\ MemoryHolds(stage, s_mem, max_logit)
      /\ ResultsHold(stage, s_max_val, s_sum_val, output_token)
      /\ 0 \in BlockWarps /\ DOMAIN stage = BlockWarps
  BY StageFacts
<1>2. PICK st, stN : st = stage /\ stN = stage'
  OBVIOUS
<1>3. /\ st[w] = 3 /\ ~launch.greedy /\ launch' = launch
      /\ s_max_val' = s_max_val /\ s_mem' = s_mem /\ max_logit' = max_logit
      /\ output_token' = output_token /\ stN = [st EXCEPT ![w] = 4]
      /\ \A v \in BlockWarps : st[v] >= st[w]
  BY <1>1, <1>2 DEF ReduceSum, Arrive, Synced
<1>4. st \in [BlockWarps -> 0..5] /\ stN \in [BlockWarps -> 0..5]
      /\ \A v \in BlockWarps : stN[v] = IF v = w THEN 4 ELSE st[v]
  BY <1>2, <1>3, StageFacts
<1>5. WarpsInStep(stN)
  <2>1. WarpsInStep(st) /\ st[w] \in {3, 4} /\ 4 = st[w] + 1
    BY <1>1, <1>2, <1>3
  <2> QED BY <1>3, <2>1, StageMoves
<1>6. st[0] \in 3..4 /\ stN[0] \in 3..4
  <2>1. ~(st[0] = 5)
    BY <1>1, <1>2, <1>3 DEF WarpsInStep
  <2> QED BY <1>1, <1>3, <1>4, <2>1
<1>7. \A v \in BlockWarps : /\ s_mem[v] = SumFunctionOnSet(Shifted, Items(v))
                            /\ max_logit[v] = RowMax
  BY <1>1, <1>2, <1>3 DEF MemoryHolds
<1>8. MemoryHolds(stN, s_mem', max_logit')
  BY <1>3, <1>6, <1>7 DEF MemoryHolds
<1>9. ResultsHold(stN, s_max_val', s_sum_val', output_token')
  <2>1. s_max_val' = RowMax
    BY <1>1, <1>2, <1>3, <1>6 DEF ResultsHold
  <2>2. CASE w = 0
    <3>1. s_sum_val' = MapThenSumSet(LAMBDA t : s_mem[t], BlockWarps)
      BY <2>2, SamplingWarps DEF ReduceSum
    <3>2. MapThenSumSet(LAMBDA t : s_mem[t], BlockWarps) = SumFunctionOnSet(s_mem, BlockWarps)
      BY SamplingWarps, MemorySum
    <3>3. PICK mem : mem = s_mem
      OBVIOUS
    <3>4. SumFunctionOnSet(mem, BlockWarps) = SumFunctionOnSet(Shifted, Vocab)
      BY <1>1, <1>7, <3>3, WarpsAddExponentials
    <3>5. s_sum_val' = SumFunctionOnSet(Shifted, Vocab)
      BY <3>1, <3>2, <3>3, <3>4
    <3> QED BY <1>6, <2>1, <3>5 DEF ResultsHold
  <2>3. CASE w # 0
    <3>1. stN[0] = st[0] /\ s_sum_val' = s_sum_val
      BY <1>1, <1>4, <2>3 DEF ReduceSum
    <3> QED BY <1>1, <1>2, <1>3, <2>1, <3>1 DEF ResultsHold
  <2> QED BY <2>2, <2>3
<1> QED BY <1>1, <1>2, <1>3, <1>5, <1>8, <1>9, RowGoesOn

LEMMA SelectInv ==
  ASSUME SamplingShape, RowSampled, NEW w \in BlockWarps, Select(w)
  PROVE  RowSampled'
<1>1. /\ RowGiven /\ WarpsInStep(stage) /\ MemoryHolds(stage, s_mem, max_logit)
      /\ ResultsHold(stage, s_max_val, s_sum_val, output_token)
      /\ 0 \in BlockWarps /\ DOMAIN stage = BlockWarps
  BY StageFacts
<1>2. PICK st, stN : st = stage /\ stN = stage'
  OBVIOUS
<1>3. /\ st[w] = 4 /\ launch' = launch
      /\ s_max_val' = s_max_val /\ s_mem' = s_mem /\ max_logit' = max_logit
      /\ s_sum_val' = s_sum_val /\ stN = [st EXCEPT ![w] = 5]
      /\ \A v \in BlockWarps : st[v] >= st[w]
  BY <1>1, <1>2 DEF Select, Arrive, Synced
<1>4. st \in [BlockWarps -> 0..5] /\ stN \in [BlockWarps -> 0..5]
      /\ \A v \in BlockWarps : stN[v] = IF v = w THEN 5 ELSE st[v]
  BY <1>2, <1>3, StageFacts
<1>5. ~launch.greedy
  BY <1>1, <1>2, <1>3 DEF WarpsInStep
<1>6. WarpsInStep(stN)
  <2>1. WarpsInStep(st) /\ st[w] \in {3, 4} /\ 5 = st[w] + 1
    BY <1>1, <1>2, <1>3
  <2> QED BY <1>3, <1>5, <2>1, StageMoves
<1>7. st[0] \in 4..5 /\ stN[0] \in 4..5
  BY <1>1, <1>3, <1>4
<1>8. \A v \in BlockWarps : /\ s_mem[v] = SumFunctionOnSet(Shifted, Items(v))
                            /\ max_logit[v] = RowMax
  <2>1. \A v \in BlockWarps : st[v] >= 3
    BY <1>3, <1>4
  <2> QED BY <1>1, <1>2, <1>5, <2>1 DEF MemoryHolds
<1>9. MemoryHolds(stN, s_mem', max_logit')
  BY <1>3, <1>7, <1>8 DEF MemoryHolds
<1>10. s_max_val = RowMax /\ s_sum_val = SumFunctionOnSet(Shifted, Vocab)
  BY <1>1, <1>2, <1>5, <1>7 DEF ResultsHold
<1>11. ResultsHold(stN, s_max_val', s_sum_val', output_token')
  <2>1. CASE w = 0
    <3>1. IsWantedToken(Drawn(s_sum_val))
      BY <1>1, <1>5, <1>8, <1>10, DrawnIsWanted
    <3>2. output_token' = Drawn(s_sum_val)
      BY <2>1 DEF Select
    <3> QED BY <1>3, <1>10, <3>1, <3>2 DEF ResultsHold
  <2>2. CASE w # 0
    <3>1. stN[0] = st[0] /\ output_token' = output_token
      BY <1>1, <1>4, <2>2 DEF Select
    <3> QED BY <1>1, <1>2, <1>3, <1>10, <3>1 DEF ResultsHold
  <2> QED BY <2>1, <2>2
<1> QED BY <1>1, <1>2, <1>3, <1>6, <1>9, <1>11, RowGoesOn

LEMMA LaunchSamplingInv ==
  ASSUME SamplingShape, NEW logits \in [Vocab -> 0..MaxLogit], NEW takes_best \in BOOLEAN,
         NEW draw \in 1..DrawSteps, NEW top_k \in TopKs,
         LaunchSampling(logits, takes_best, draw, top_k)
  PROVE  RowSampled'
<1>1. PICK row :
        row = [logits |-> logits, greedy |-> takes_best, draw |-> draw, top_k |-> top_k]
  OBVIOUS
<1>2. launch' = row /\ stage' = [w \in BlockWarps |-> 0]
  BY <1>1 DEF LaunchSampling
<1>3. row.logits = logits /\ row.greedy = takes_best /\ row.draw = draw
  BY <1>1
<1>4. RowGiven'
  BY <1>2, <1>3 DEF RowGiven
<1>5. stage' \in [BlockWarps -> 0..5] /\ 0 \in BlockWarps
      /\ \A w \in BlockWarps : stage'[w] = 0
  BY <1>2, SamplingWarps
<1>6. WarpsInStep(stage)'
  BY <1>5 DEF WarpsInStep
<1>7. MemoryHolds(stage, s_mem, max_logit)'
  BY <1>5 DEF MemoryHolds
<1>8. ResultsHold(stage, s_max_val, s_sum_val, output_token)'
  BY <1>5 DEF ResultsHold
<1> QED BY <1>4, <1>6, <1>7, <1>8 DEF RowSampled

LEMMA ShapeStays ==
  ASSUME SamplingShape, [SamplingNext]_samplingVars
  PROVE  SamplingShape'
<1>1. ASSUME NEW logits, NEW takes_best, NEW draw, NEW top_k,
             LaunchSampling(logits, takes_best, draw, top_k)
      PROVE  SamplingShape'
  BY <1>1 DEF LaunchSampling, SamplingShape
<1>2. ASSUME NEW w \in BlockWarps,
             \/ FindMax(w) \/ ReduceMax(w) \/ StoreBest(w) \/ PickBest(w)
             \/ SumExp(w) \/ ReduceSum(w) \/ Select(w)
      PROVE  SamplingShape'
  BY <1>2 DEF SamplingShape, Arrive,
     FindMax, ReduceMax, StoreBest, PickBest, SumExp, ReduceSum, Select
<1>3. ASSUME UNCHANGED samplingVars PROVE SamplingShape'
  BY <1>3 DEF SamplingShape, samplingVars
<1> QED BY <1>1, <1>2, <1>3 DEF SamplingNext

LEMMA SamplingStepInv ==
  ASSUME SamplingInv, [SamplingNext]_samplingVars
  PROVE  SamplingInv'
<1>1. SamplingShape /\ SamplingShape'
  BY ShapeStays DEF SamplingInv
<1>2. ASSUME NEW logits \in [Vocab -> 0..MaxLogit], NEW takes_best \in BOOLEAN,
             NEW draw \in 1..DrawSteps, NEW top_k \in TopKs,
             LaunchSampling(logits, takes_best, draw, top_k)
      PROVE  RowSampled'
  BY <1>1, <1>2, LaunchSamplingInv
<1>3. ASSUME NEW w \in BlockWarps,
             \/ FindMax(w) \/ ReduceMax(w) \/ StoreBest(w) \/ PickBest(w)
             \/ SumExp(w) \/ ReduceSum(w) \/ Select(w)
      PROVE  (launch = NoLaunch \/ RowSampled)'
  <2>1. CASE launch = NoLaunch
    <3>1. launch' = launch
      BY <1>3 DEF FindMax, ReduceMax, StoreBest, PickBest, SumExp, ReduceSum, Select
    <3> QED BY <2>1, <3>1 DEF NoLaunch
  <2>2. CASE RowSampled
    BY <1>1, <1>3, <2>2, FindMaxInv, ReduceMaxInv, StoreBestInv, PickBestInv,
       SumExpInv, ReduceSumInv, SelectInv
  <2> QED BY <2>1, <2>2 DEF SamplingInv
<1>4. ASSUME UNCHANGED samplingVars PROVE (launch = NoLaunch \/ RowSampled)'
  <2>1. CASE launch = NoLaunch
    BY <1>4, <2>1 DEF samplingVars, NoLaunch
  <2>2. CASE RowSampled
    <3>1. /\ launch' = launch /\ stage' = stage /\ s_mem' = s_mem
          /\ s_max_val' = s_max_val /\ s_sum_val' = s_sum_val
          /\ max_logit' = max_logit /\ output_token' = output_token
      BY <1>4 DEF samplingVars
    <3> QED BY <2>2, <3>1, StageFacts, RowGoesOn
  <2> QED BY <2>1, <2>2 DEF SamplingInv
<1> QED BY <1>1, <1>2, <1>3, <1>4 DEF SamplingNext, SamplingInv

(* SampledAsDrawn: whatever the number of its warps, the row it gets and   *)
(* the order in which its warps run, fused_sampling_kernel puts out the    *)
(* token that the probabilities of the row give to its draw: thread 0 of   *)
(* warp 0 sets s_sum_val and the token from sums that all warps have       *)
(* finished, and no warp reuses s_mem for the sums while another still     *)
(* folds the maxima.                                                       *)
THEOREM TokenIsAsDrawn == SamplingSpec => []SampledAsDrawn
<1>1. SamplingInit => SamplingInv
  BY DEF SamplingInit, SamplingInv, SamplingShape
<1>2. SamplingInv => SampledAsDrawn
  <2> SUFFICES ASSUME SamplingInv, Launched, Returned PROVE output_token = Wanted
    BY DEF SampledAsDrawn
  <2>1. RowSampled
    BY DEF SamplingInv, Launched
  <2>2. RowGiven /\ stage[0] = 5
    BY <2>1, StageFacts DEF Returned
  <2>3. IsWantedToken(output_token)
    BY <2>1, <2>2, StageFacts DEF ResultsHold
  <2>4. PICK t : t = output_token
    OBVIOUS
  <2> QED BY <2>2, <2>3, <2>4, WantedIsToken
<1> QED BY <1>1, <1>2, SamplingStepInv, PTL DEF SamplingSpec

-----------------------------------------------------------------------------
(***************************************************************************)
(* The attention kernels, for any length, row, scores and size of tiles.   *)
(***************************************************************************)
(* The launch of a row; the weights that the tiles before a tile give to   *)
(* the vectors when the maximum is m; the scores of the next tile.         *)
AttentionGiven ==
  /\ attn.seq_len \in 1..MaxLen /\ attn.is_causal \in BOOLEAN
  /\ attn.row \in 0..(attn.seq_len - 1)
  /\ attn.scores \in [0..(attn.seq_len - 1) -> 0..MaxScore]
  /\ Supported(attn.kernel, attn.seq_len, attn.is_causal, attn.row)

Kept(tile, m) ==
  [v \in Vectors |->
     IF Visible(v) /\ v < tile * Tile THEN Power[attn.scores[v] - m + MaxScore] ELSE 0]

TileScore(n) == IF Visible(Position(n)) THEN attn.scores[Position(n)] ELSE NoScore

LEMMA AttentionConstants ==
  /\ Tile \in Nat \ {0} /\ MaxLen \in Nat \ {0} /\ MaxScore \in Nat \ {0}
  /\ IsFiniteSet(Vectors) /\ IsFiniteSet(TileRows)
  /\ Vectors = 0..MaxLen /\ TileRows = 0..(Tile - 1) /\ 0 \in TileRows
<1>1. Tile \in Nat \ {0} /\ MaxLen \in Nat \ {0} /\ MaxScore \in Nat \ {0}
  BY AttentionAssumption
<1>2. Vectors = 0..MaxLen
  BY <1>1 DEF Vectors, Keys, Stray
<1>3. 0 \in TileRows
  BY <1>1 DEF TileRows
<1> QED BY <1>1, <1>2, <1>3, FS_Interval DEF TileRows

LEMMA WeightFacts ==
  ASSUME NEW s \in 0..MaxScore, NEW m \in 0..MaxScore
  PROVE  /\ Power[s] \in Nat \ {0} /\ Power[s - m + MaxScore] \in Nat \ {0}
         /\ Power[s - m + MaxScore] * Power[m] = Power[s] * Power[MaxScore]
         /\ \A p \in 0..m :
              /\ Power[m - p] \in Nat \ {0} /\ Power[s - p + MaxScore] \in Nat
              /\ Power[s - p + MaxScore] = Power[s - m + MaxScore] * Power[m - p]
<1>1. MaxScore \in Nat \ {0} /\ 2 * MaxScore <= MaxExponent
  BY AttentionAssumption
<1>2. MaxExponent \in Nat /\ Power \in [0..MaxExponent -> Nat \ {0}]
  BY ExponentialAssumption
<1>3. /\ m \in 0..MaxExponent /\ s \in 0..MaxExponent /\ MaxScore \in 0..MaxExponent
      /\ s - m + MaxScore \in 0..MaxExponent
      /\ (s - m + MaxScore) + m = s + MaxScore /\ s + MaxScore <= MaxExponent
  BY <1>1, <1>2
<1>4. Power[(s - m + MaxScore) + m] = Power[s - m + MaxScore] * Power[m]
  BY <1>3, ExponentialAssumption
<1>5. Power[s + MaxScore] = Power[s] * Power[MaxScore]
  BY <1>3, ExponentialAssumption
<1>6. ASSUME NEW p \in 0..m
      PROVE  /\ Power[m - p] \in Nat \ {0} /\ Power[s - p + MaxScore] \in Nat
             /\ Power[s - p + MaxScore] = Power[s - m + MaxScore] * Power[m - p]
  <2>1. /\ m - p \in 0..MaxExponent /\ s - p + MaxScore \in 0..MaxExponent
        /\ (s - m + MaxScore) + (m - p) = s - p + MaxScore
        /\ (s - m + MaxScore) + (m - p) <= MaxExponent
    BY <1>1, <1>2
  <2>2. Power[(s - m + MaxScore) + (m - p)] = Power[s - m + MaxScore] * Power[m - p]
    BY <1>3, <2>1, ExponentialAssumption
  <2> QED BY <1>2, <2>1, <2>2
<1> QED BY <1>2, <1>3, <1>4, <1>5, <1>6

LEMMA GreatestScore ==
  ASSUME NEW S, S \subseteq NoScore..MaxScore, NEW x \in S, x >= 0
  PROVE  Max(S) \in 0..MaxScore /\ \A y \in S : y <= Max(S)
<1>1. S \subseteq Int /\ S # {} /\ MaxScore \in Int /\ \A y \in S : y <= MaxScore
  BY AttentionConstants DEF NoScore
<1>2. Max(S) \in S /\ \A y \in S : y <= Max(S)
  BY <1>1, MaxOfSet
<1>3. Max(S) \in Int /\ x \in Int /\ x <= Max(S) /\ Max(S) <= MaxScore
  BY <1>1, <1>2
<1> QED BY <1>1, <1>2, <1>3

-----------------------------------------------------------------------------
LEMMA ProductOrder ==
  ASSUME NEW a \in Nat, NEW b \in Nat, NEW n \in Nat, a <= b
  PROVE  a * n <= b * n
<1>1. b * n = a * n + (b - a) * n /\ a * n \in Nat /\ (b - a) * n \in Nat
  OBVIOUS
<1> QED BY <1>1

(* How far the loop over the tiles goes. *)
LEMMA TilesOfRow ==
  ASSUME AttentionGiven, ~MaskedScores
  PROVE  /\ MaxKTiles \in Nat
         /\ \A v \in Nat : Visible(v) => v < MaxKTiles * Tile
         /\ \A tile \in Nat : tile < MaxKTiles =>
              /\ tile * Tile \in Nat /\ Visible(tile * Tile)
              /\ \/ \A n \in TileRows : Visible(tile * Tile + n)
                 \/ attn.kernel = "triton" /\ attn.is_causal
<1>1. PICK T \in Nat \ {0}, L \in Nat \ {0}, r \in Nat :
        T = Tile /\ L = attn.seq_len /\ r = attn.row /\ r < L
  BY AttentionConstants DEF AttentionGiven
<1>2. PICK q \in Nat, c \in Nat, x \in 0..(T - 1), y \in 0..(T - 1) :
        /\ q = (L + T - 1) \div T /\ c = r \div T /\ y = r % T
        /\ L + T - 1 = q * T + x /\ r = c * T + y
  <2>1. PICK z \in Nat : z = L + T - 1
    OBVIOUS
  <2>2. /\ z \div T \in Nat /\ z % T \in 0..(T - 1) /\ z = (z \div T) * T + (z % T)
        /\ r \div T \in Nat /\ r % T \in 0..(T - 1) /\ r = (r \div T) * T + (r % T)
    BY DivisionParts
  <2> QED BY <2>1, <2>2
<1>3. \A a \in Nat : a * T \in Nat
  OBVIOUS
<1>4. q * T \in Nat /\ L <= q * T /\ r < c * T + T /\ c * T <= r /\ (c + 1) * T = c * T + T
  BY <1>2, <1>3
<1>5. /\ MaxKTiles \in Nat /\ MaxKTiles = IF attn.is_causal THEN MaxKTiles ELSE q
      /\ attn.is_causal => MaxKTiles <= c + 1 /\ MaxKTiles <= q
                           /\ (MaxKTiles = c + 1 \/ MaxKTiles = q)
  <2>1. TilesFor(attn.seq_len) = q
    BY <1>1, <1>2 DEF TilesFor
  <2>2. PICK S : S = {(attn.row \div Tile) + 1, TilesFor(attn.seq_len)}
    OBVIOUS
  <2>3. S = {c + 1, q}
    BY <1>1, <1>2, <2>1, <2>2
  <2>4. Min(S) \in S /\ \A e \in S : Min(S) <= e
    BY <2>3, MinOfSet
  <2>5. MaxKTiles = IF attn.is_causal THEN Min(S) ELSE q
    BY <2>1, <2>2 DEF MaxKTiles
  <2> QED BY <2>3, <2>4, <2>5
<1>6. \A v : Visible(v) <=> v < L /\ (attn.is_causal => v <= r)
  BY <1>1 DEF Visible
<1>7. ASSUME NEW v \in Nat, Visible(v) PROVE v < MaxKTiles * T
  <2>1. v < q * T
    BY <1>4, <1>6, <1>7
  <2>2. attn.is_causal => v < (c + 1) * T
    BY <1>4, <1>6, <1>7
  <2> QED BY <1>5, <2>1, <2>2
<1>8. ASSUME NEW tile \in Nat, tile < MaxKTiles
      PROVE  /\ Visible(tile * T)
             /\ \/ \A n \in 0..(T - 1) : Visible(tile * T + n)
                \/ attn.kernel = "triton" /\ attn.is_causal
  <2>1. tile * T \in Nat /\ tile < q
    BY <1>3, <1>5, <1>8
  <2>2. attn.is_causal => tile * T <= c * T
    <3> SUFFICES ASSUME attn.is_causal PROVE tile * T <= c * T
      OBVIOUS
    <3>1. tile <= c
      BY <1>5, <1>8
    <3> QED BY <3>1, ProductOrder
  <2>3. CASE L % T = 0 /\ (attn.is_causal => r % T = T - 1)
    <3>1. PICK h \in Nat : h * T = L /\ q = h
      <4>1. PICK h \in Nat : L = h * T + 0
        BY <2>3, DivisionParts
      <4>2. (h * T + (T - 1)) \div T = h
        BY Division
      <4>3. h * T + (T - 1) = L + T - 1
        BY <1>3, <4>1
      <4> QED BY <1>2, <1>3, <4>1, <4>2, <4>3
    <3>2. tile * T + T <= L
      <4>1. (tile + 1) * T <= h * T
        BY <2>1, <3>1, ProductOrder
      <4>2. (tile + 1) * T = tile * T + T
        OBVIOUS
      <4> QED BY <3>1, <4>1, <4>2
    <3>3. ASSUME NEW n \in 0..(T - 1) PROVE Visible(tile * T + n)
      <4>1. tile * T + n < L
        BY <2>1, <3>2
      <4>2. attn.is_causal => tile * T + n <= r
        BY <1>2, <1>3, <2>1, <2>2, <2>3
      <4> QED BY <1>6, <4>1, <4>2
    <3>4. Visible(tile * T)
      <4>1. 0 \in 0..(T - 1) /\ tile * T + 0 = tile * T
        BY <2>1
      <4>2. Visible(tile * T + 0)
        BY <3>3, <4>1
      <4> QED BY <4>1, <4>2
    <3> QED BY <3>3, <3>4
  <2>4. CASE attn.kernel = "triton" /\ attn.is_causal
    <3>1. PICK a \in Nat, b \in Nat : a = tile * T /\ b = c * T
      BY <1>3
    <3>2. a <= b /\ b <= r
      BY <1>4, <2>2, <2>4, <3>1
    <3>3. a <= r /\ a < L
      BY <1>1, <3>2
    <3>4. tile * T <= r /\ tile * T < L
      BY <3>1, <3>3
    <3> QED BY <1>6, <2>4, <3>4
  <2>5. \/ L % T = 0 /\ (attn.is_causal => r % T = T - 1)
        \/ attn.kernel = "triton" /\ attn.is_causal
    BY <1>1 DEF AttentionGiven, Supported
  <2> QED BY <2>3, <2>4, <2>5
<1>9. TileRows = 0..(T - 1)
  BY <1>1 DEF TileRows
<1> QED BY <1>1, <1>3, <1>5, <1>7, <1>8, <1>9

(* What a kernel makes of a tile: a visible key has its score and weighs   *)
(* its own vector, the others have none.                                   *)
TileInLoop(score, vector, tile_max) ==
  /\ tile_max \in 0..MaxScore
  /\ \A n \in TileRows : /\ score[n] = TileScore(n) /\ vector[n] \in Vectors
                         /\ Visible(Position(n)) => vector[n] = Position(n)

LEMMA PositionFacts ==
  ASSUME AttentionGiven, ~MaskedScores, k_tile \in Nat, k_tile < MaxKTiles
  PROVE  /\ \A n \in TileRows : Position(n) \in Nat /\ n \in Nat
         /\ \A n \in TileRows : Visible(Position(n)) =>
              /\ Position(n) < attn.seq_len /\ ~Behind(n) /\ Position(n) \in Vectors
              /\ attn.scores[Position(n)] \in 0..MaxScore
         /\ \A n \in TileRows : Position(n) < attn.seq_len => Position(n) \in Vectors
         /\ \A n \in TileRows : ~Visible(Position(n)) =>
              Position(n) >= attn.seq_len \/ Behind(n)
         /\ Visible(Position(0)) /\ 0 \in TileRows
         /\ \/ \A n \in TileRows : Visible(Position(n))
            \/ attn.kernel = "triton" /\ attn.is_causal
<1>1. PICK b \in Nat : b = k_tile * Tile
  BY TilesOfRow
<1>2. \A n \in TileRows : Position(n) = b + n /\ n \in Nat
  BY <1>1, AttentionConstants DEF Position
<1>3. attn.seq_len \in 1..MaxLen /\ attn.row \in 0..(attn.seq_len - 1)
      /\ attn.scores \in [0..(attn.seq_len - 1) -> 0..MaxScore] /\ MaxLen \in Nat
  BY AttentionConstants DEF AttentionGiven
<1>4. \A n \in TileRows : Position(n) \in Nat /\ n \in Nat
  BY <1>2
<1>5. ASSUME NEW n \in TileRows, Position(n) < attn.seq_len
      PROVE  Position(n) \in Vectors /\ attn.scores[Position(n)] \in 0..MaxScore
  <2>1. PICK p \in Nat : p = Position(n)
    BY <1>4
  <2>2. p \in 0..(attn.seq_len - 1) /\ p \in 0..MaxLen
    BY <1>3, <1>5, <2>1
  <2>3. attn.scores[p] \in 0..MaxScore
    BY <1>3, <2>2
  <2> QED BY <2>1, <2>2, <2>3, AttentionConstants
<1>6. \A n \in TileRows : Visible(Position(n)) => Position(n) < attn.seq_len /\ ~Behind(n)
  BY <1>3, <1>4 DEF Visible, Behind
<1>7. \A n \in TileRows : ~Visible(Position(n)) => Position(n) >= attn.seq_len \/ Behind(n)
  BY <1>3, <1>4 DEF Visible, Behind
<1>8. Visible(Position(0))
  <2>1. Position(0) = b /\ Visible(b)
    BY <1>1, <1>2, AttentionConstants, TilesOfRow
  <2> QED BY <2>1
<1>9. \/ \A n \in TileRows : Visible(Position(n))
      \/ attn.kernel = "triton" /\ attn.is_causal
  BY <1>1, <1>2, TilesOfRow
<1> QED BY <1>4, <1>5, <1>6, <1>7, <1>8, <1>9, AttentionConstants

LEMMA CudaTileInLoop ==
  ASSUME AttentionGiven, ~MaskedScores, ~StrayRows, k_tile \in Nat, k_tile < MaxKTiles,
         attn.kernel = "cuda", NEW loaded, \A n \in TileRows : loaded[n] \in LoadedByCuda(n),
         NEW score, score = [n \in TileRows |-> CudaScore(n)]
  PROVE  TileInLoop(score, loaded, CudaMax)
<1>1. \A n \in TileRows :
        /\ Visible(Position(n)) /\ Position(n) < attn.seq_len /\ ~Behind(n)
        /\ Position(n) \in Vectors /\ Position(n) \in Nat
        /\ attn.scores[Position(n)] \in 0..MaxScore
  BY PositionFacts
<1>2. \A n \in TileRows : score[n] = TileScore(n)
  <2>1. attn.seq_len \in Nat
    BY AttentionConstants DEF AttentionGiven
  <2> QED BY <1>1, <2>1 DEF CudaScore, TileScore
<1>3. \A n \in TileRows : loaded[n] = Position(n)
  BY <1>1 DEF LoadedByCuda
<1>4. CudaMax \in 0..MaxScore
  <2> DEFINE S == {NoScore} \cup {attn.scores[Position(n)] :
                n \in {i \in TileRows : Position(i) < attn.seq_len /\ ~Behind(i)}}
  <2>1. 0 \in TileRows
    BY AttentionConstants
  <2>2. attn.scores[Position(0)] \in S /\ attn.scores[Position(0)] \in 0..MaxScore
    BY <1>1, <2>1
  <2>3. S \subseteq NoScore..MaxScore
    BY <1>1, AttentionConstants DEF NoScore
  <2>4. CudaMax = Max(S)
    BY DEF CudaMax
  <2> HIDE DEF S
  <2>5. PICK x \in S : x >= 0
    BY <2>2
  <2> QED BY <2>3, <2>4, <2>5, GreatestScore
<1> QED BY <1>1, <1>2, <1>3, <1>4 DEF TileInLoop

LEMMA TritonTileInLoop ==
  ASSUME AttentionGiven, ~MaskedScores, k_tile \in Nat, k_tile < MaxKTiles,
         NEW loaded, loaded = [n \in TileRows |-> LoadedByTriton(n)],
         NEW score, score = [n \in TileRows |-> TritonScore(n)]
  PROVE  TileInLoop(score, loaded, TritonMax)
<1>1. /\ \A n \in TileRows : Position(n) \in Nat /\ Position(n) < attn.seq_len
                               => Position(n) \in Vectors
      /\ \A n \in TileRows : Visible(Position(n)) =>
           /\ Position(n) < attn.seq_len /\ ~Behind(n)
           /\ attn.scores[Position(n)] \in 0..MaxScore
      /\ Visible(Position(0)) /\ 0 \in TileRows
  BY PositionFacts
<1>2. \A n \in TileRows : ~Visible(Position(n)) => Behind(n)
  <2>1. ASSUME NEW n \in TileRows, ~Visible(Position(n)) PROVE Behind(n)
    <3>1. attn.is_causal
      BY <2>1, PositionFacts
    <3>2. attn.row \in Nat /\ attn.seq_len \in Nat /\ attn.row < attn.seq_len
          /\ Position(n) \in Nat
      BY PositionFacts, AttentionConstants DEF AttentionGiven
    <3> QED BY <2>1, <3>1, <3>2 DEF Visible, Behind
  <2> QED BY <2>1
<1>3. \A n \in TileRows : TritonScore(n) = TileScore(n)
  BY <1>1, <1>2 DEF TritonScore, TileScore
<1>4. \A n \in TileRows : score[n] = TileScore(n)
  BY <1>3
<1>5. \A n \in TileRows : /\ loaded[n] \in Vectors
                          /\ Visible(Position(n)) => loaded[n] = Position(n)
  BY <1>1, PositionFacts DEF LoadedByTriton, Vectors
<1>6. TritonMax \in 0..MaxScore
  <2> DEFINE S == {TritonScore(n) : n \in TileRows}
  <2>1. TritonScore(0) \in S /\ TritonScore(0) \in 0..MaxScore
    BY <1>1, <1>3 DEF TileScore
  <2>2. S \subseteq NoScore..MaxScore
    BY <1>1, <1>3, AttentionConstants DEF NoScore, TileScore
  <2>3. TritonMax = Max(S)
    BY DEF TritonMax
  <2> HIDE DEF S
  <2>4. PICK x \in S : x >= 0
    BY <2>1
  <2> QED BY <2>2, <2>3, <2>4, GreatestScore
<1> QED BY <1>4, <1>5, <1>6 DEF TileInLoop

-----------------------------------------------------------------------------
(* What a tile adds. *)
LEMMA KeptFacts ==
  ASSUME AttentionGiven, NEW tile \in Nat, NEW m \in 0..MaxScore
  PROVE  /\ \A v \in Vectors : Kept(tile, m)[v] \in Nat
         /\ \A p \in 0..m :
              /\ Power[m - p] \in Nat \ {0}
              /\ \A v \in Vectors : Kept(tile, p)[v] = Kept(tile, m)[v] * Power[m - p]
<1>1. ASSUME NEW v \in Vectors, Visible(v)
      PROVE  attn.scores[v] \in 0..MaxScore
  BY <1>1, AttentionConstants DEF AttentionGiven, Visible
<1>2. ASSUME NEW v \in Vectors PROVE Kept(tile, m)[v] \in Nat
  BY <1>1, <1>2, WeightFacts DEF Kept
<1>3. ASSUME NEW p \in 0..m
      PROVE  /\ Power[m - p] \in Nat \ {0}
             /\ \A v \in Vectors : Kept(tile, p)[v] = Kept(tile, m)[v] * Power[m - p]
  <2>1. Power[m - p] \in Nat \ {0}
    <3>1. 0 \in 0..MaxScore
      BY AttentionConstants
    <3> QED BY <3>1, WeightFacts
  <2>2. ASSUME NEW v \in Vectors PROVE Kept(tile, p)[v] = Kept(tile, m)[v] * Power[m - p]
    <3>1. CASE Visible(v) /\ v < tile * Tile
      <4>1. PICK s \in 0..MaxScore : s = attn.scores[v]
        BY <1>1, <3>1
      <4>2. /\ Kept(tile, p)[v] = Power[s - p + MaxScore]
            /\ Kept(tile, m)[v] = Power[s - m + MaxScore]
        BY <3>1, <4>1 DEF Kept
      <4> QED BY <4>2, WeightFacts
    <3>2. CASE ~(Visible(v) /\ v < tile * Tile)
      <4>1. Kept(tile, p)[v] = 0 /\ Kept(tile, m)[v] = 0
        BY <3>2 DEF Kept
      <4> QED BY <2>1, <4>1
    <3> QED BY <3>1, <3>2
  <2> QED BY <2>1, <2>2
<1> QED BY <1>2, <1>3

LEMMA TileSums ==
  ASSUME AttentionGiven, ~MaskedScores, k_tile \in Nat, k_tile < MaxKTiles,
         NEW score, NEW vector, NEW tile_max, TileInLoop(score, vector, tile_max),
         NEW m \in 0..MaxScore, NEW tw, \A n \in TileRows : tw[n] = Weight(score[n], m),
         NEW part, \A v \in Vectors : \A n : n \in part[v] <=> n \in TileRows /\ vector[n] = v
  PROVE  /\ \A v \in Vectors :
              Kept(k_tile + 1, m)[v] = Kept(k_tile, m)[v] + SumFunctionOnSet(tw, part[v])
         /\ SumFunctionOnSet(Kept(k_tile + 1, m), Vectors)
              = SumFunctionOnSet(Kept(k_tile, m), Vectors) + SumFunctionOnSet(tw, TileRows)
<1>1. PICK b \in Nat, T \in Nat \ {0} :
        T = Tile /\ b = k_tile * T /\ (k_tile + 1) * T = b + T
  <2>1. PICK T \in Nat \ {0} : T = Tile
    BY AttentionConstants
  <2>2. k_tile * T \in Nat /\ (k_tile + 1) * T = k_tile * T + T
    OBVIOUS
  <2> QED BY <2>1, <2>2
<1>2. \A n \in TileRows : Position(n) = b + n /\ n \in 0..(T - 1)
  BY <1>1, AttentionConstants DEF Position
<1>3. \A n \in TileRows : score[n] = TileScore(n) /\ vector[n] \in Vectors
  BY DEF TileInLoop
<1>4. ASSUME NEW n \in TileRows, ~Visible(Position(n)) PROVE tw[n] = 0
  BY <1>3, <1>4 DEF TileScore, Weight
<1>5. ASSUME NEW n \in TileRows, Visible(Position(n))
      PROVE  /\ tw[n] = Power[attn.scores[Position(n)] - m + MaxScore] /\ tw[n] \in Nat
             /\ vector[n] = Position(n)
  <2>1. PICK s \in 0..MaxScore : s = attn.scores[Position(n)]
    BY <1>5, PositionFacts
  <2>2. score[n] = s /\ s # NoScore
    BY <1>3, <1>5, <2>1 DEF TileScore, NoScore
  <2>3. tw[n] = Power[s - m + MaxScore]
    BY <2>2 DEF Weight
  <2>4. tw[n] \in Nat
    BY <2>3, WeightFacts
  <2> QED BY <1>5, <2>1, <2>3, <2>4 DEF TileInLoop
<1>6. \A n \in TileRows : tw[n] \in Nat
  BY <1>4, <1>5
<1>7. \A v \in Vectors : IsFiniteSet(part[v])
  BY AttentionConstants, FS_Subset
<1>8. ASSUME NEW v \in Vectors
      PROVE  /\ SumFunctionOnSet(tw, part[v]) \in Nat /\ Kept(k_tile, m)[v] \in Nat
             /\ Kept(k_tile + 1, m)[v] = Kept(k_tile, m)[v] + SumFunctionOnSet(tw, part[v])
  <2>1. v \in Nat
    BY AttentionConstants
  <2>2. Kept(k_tile, m)[v] \in Nat /\ Kept(k_tile + 1, m)[v] \in Nat
    BY KeptFacts
  <2>3. Kept(k_tile, m)[v] =
          IF Visible(v) /\ v < b THEN Power[attn.scores[v] - m + MaxScore] ELSE 0
    BY <1>1 DEF Kept
  <2>4. Kept(k_tile + 1, m)[v] =
          IF Visible(v) /\ v < b + T THEN Power[attn.scores[v] - m + MaxScore] ELSE 0
    BY <1>1 DEF Kept
  <2>5. CASE Visible(v) /\ b <= v /\ v < b + T
    <3>1. PICK n \in TileRows : Position(n) = v
      <4>1. PICK n \in 0..(T - 1) : b + n = v
        <5>1. v - b \in 0..(T - 1) /\ b + (v - b) = v
          BY <2>1, <2>5
        <5> QED BY <5>1
      <4>2. n \in TileRows
        BY <1>1, <4>1, AttentionConstants
      <4> QED BY <1>2, <4>1, <4>2
    <3>2. n \in part[v] /\ tw[n] = Power[attn.scores[v] - m + MaxScore] /\ tw[n] \in Nat
      BY <1>5, <2>5, <3>1
    <3>3. ASSUME NEW j \in part[v] \ {n} PROVE tw[j] = 0
      <4>1. j \in TileRows /\ vector[j] = v /\ j # n
        BY <3>3
      <4>2. Position(j) # v
        BY <1>2, <3>1, <4>1
      <4> QED BY <1>4, <1>5, <4>1, <4>2
    <3>4. SumFunctionOnSet(tw, part[v]) = tw[n]
      BY <1>7, <3>2, <3>3, SumOfOne
    <3>5. ~(v < b)
      BY <2>1, <2>5
    <3> QED BY <2>2, <2>3, <2>4, <2>5, <3>2, <3>4, <3>5
  <2>6. CASE ~(Visible(v) /\ b <= v /\ v < b + T)
    <3>1. ASSUME NEW j \in part[v] PROVE tw[j] = 0
      <4>1. j \in TileRows /\ vector[j] = v
        BY <3>1
      <4>2. ~Visible(Position(j))
        <5> SUFFICES ASSUME Visible(Position(j)) PROVE FALSE
          OBVIOUS
        <5>1. Visible(v) /\ v = b + j /\ j \in 0..(T - 1)
          BY <1>2, <1>5, <4>1
        <5> QED BY <2>6, <5>1
      <4> QED BY <1>4, <4>1, <4>2
    <3>2. SumFunctionOnSet(tw, part[v]) = 0
      BY <1>7, <3>1, SumOfZeros
    <3>3. Visible(v) => (v < b <=> v < b + T)
      BY <2>1, <2>6
    <3> QED BY <2>2, <2>3, <2>4, <3>2, <3>3
  <2> QED BY <2>5, <2>6
<1>9. PICK sums : sums = [v \in Vectors |-> SumFunctionOnSet(tw, part[v])]
  OBVIOUS
<1>10. PICK V, R : V = Vectors /\ R = TileRows
  OBVIOUS
<1>11. SumFunctionOnSet(sums, V) = SumFunctionOnSet(tw, R)
  <2>1. /\ IsFiniteSet(V) /\ \A w, u \in V : w # u => part[w] \cap part[u] = {}
        /\ \A w \in V : /\ IsFiniteSet(part[w]) /\ \A x \in part[w] : tw[x] \in Nat
                        /\ sums[w] = SumFunctionOnSet(tw, part[w])
    BY <1>6, <1>7, <1>9, <1>10, AttentionConstants
  <2>2. \A x : x \in R <=> \E w \in V : x \in part[w]
    BY <1>3, <1>10
  <2> QED BY ONLY <2>1, <2>2, SumOfParts, SMTT(30)
<1>12. PICK old, new : old = Kept(k_tile, m) /\ new = Kept(k_tile + 1, m)
  OBVIOUS
<1>13. \A v \in V : old[v] \in Nat /\ sums[v] \in Nat /\ new[v] = old[v] + sums[v]
  BY <1>8, <1>9, <1>10, <1>12
<1>14. SumFunctionOnSet(new, V) = SumFunctionOnSet(old, V) + SumFunctionOnSet(sums, V)
  BY <1>10, <1>13, AttentionConstants, SumOfSums
<1> QED BY <1>8, <1>10, <1>11, <1>12, <1>14

-----------------------------------------------------------------------------
(* The accumulator holds the weights of the tiles so far under the running *)
(* maximum, and the denominator is the sum of what the accumulator holds.  *)
AttentionRuns ==
  /\ AttentionGiven
  /\ k_tile \in Nat /\ (k_tile = 0 \/ k_tile <= MaxKTiles)
  /\ m_prev \in 0..MaxScore \/ (k_tile = 0 /\ m_prev = NoScore)
  /\ o_acc = Kept(k_tile, m_prev)
  /\ l_prev = SumFunctionOnSet(o_acc, Vectors)
  /\ written # {} => k_tile = MaxKTiles

AttnInv ==
  \/ /\ attn = NoAttention /\ k_tile = 0 /\ m_prev = NoScore /\ l_prev = 0
     /\ o_acc = [v \in Vectors |-> 0] /\ written = {}
  \/ AttentionRuns

(* The running values under the maximum of the next tile: exact, as the    *)
(* weights are multiples of the factor.                                    *)
LEMMA RescaledFacts ==
  ASSUME AttentionRuns, ~MaskedScores, NEW m \in 0..MaxScore, m_prev <= m
  PROVE  /\ \A v \in Vectors : Rescaled(o_acc[v], m) = Kept(k_tile, m)[v]
         /\ Rescaled(l_prev, m) = SumFunctionOnSet(Kept(k_tile, m), Vectors)
<1>1. k_tile \in Nat /\ AttentionGiven
  BY TilesOfRow DEF AttentionRuns
<1>2. PICK V : V = Vectors
  OBVIOUS
<1>3. PICK new : new = Kept(k_tile, m)
  OBVIOUS
<1>4. \A v \in V : new[v] \in Nat
  BY <1>1, <1>2, <1>3, KeptFacts
<1>5. IsFiniteSet(V)
  BY <1>2, AttentionConstants
<1>6. CASE m_prev = NoScore
  <2>1. \A v \in V : new[v] = 0
    <3>1. k_tile = 0
      BY <1>6 DEF AttentionRuns, NoScore
    <3>2. \A v \in V : ~(v < k_tile * Tile)
      BY <1>2, <3>1, AttentionConstants
    <3> QED BY <1>2, <1>3, <3>2 DEF Kept
  <2>2. SumFunctionOnSet(new, V) = 0
    BY <1>5, <2>1, SumOfZeros
  <2> QED BY <1>2, <1>3, <1>6, <2>1, <2>2 DEF Rescaled
<1>7. CASE m_prev # NoScore
  <2>1. m_prev \in 0..m
    BY <1>7 DEF AttentionRuns
  <2>2. PICK f \in Nat \ {0} : f = Power[m - m_prev]
    BY <1>1, <2>1, KeptFacts
  <2>3. PICK old : old = o_acc
    OBVIOUS
  <2>4. \A v \in V : old[v] = new[v] * f
    BY <1>1, <1>2, <1>3, <2>1, <2>2, <2>3, KeptFacts DEF AttentionRuns
  <2>5. ASSUME NEW a \in Nat PROVE (a * f) \div f = a
    <3>1. 0 \in 0..(f - 1)
      OBVIOUS
    <3>2. (a * f + 0) \div f = a
      BY <3>1, Division
    <3>3. a * f + 0 = a * f
      OBVIOUS
    <3> QED BY <3>2, <3>3
  <2>6. \A x : Rescaled(x, m) = x \div f
    BY <1>7, <2>2 DEF Rescaled
  <2>7. \A v \in V : Rescaled(old[v], m) = new[v]
    BY <1>4, <2>4, <2>5, <2>6
  <2>8. PICK l \in Nat, s \in Nat :
          l = SumFunctionOnSet(old, V) /\ s = SumFunctionOnSet(new, V)
    <3>1. \A v \in V : old[v] \in Nat
      BY <1>4, <2>4
    <3> QED BY <1>4, <1>5, <3>1, SumIsNat
  <2>9. l * 1 = s * f
    <3>1. \A v \in V : old[v] \in Nat /\ new[v] \in Nat /\ old[v] * 1 = new[v] * f
      BY <1>4, <2>4
    <3> QED BY <1>5, <2>8, <3>1, SumScaled
  <2>10. Rescaled(l, m) = s
    <3>1. l = s * f
      BY <2>9
    <3> QED BY <2>5, <2>6, <3>1
  <2>11. l_prev = l
    BY <1>2, <2>3, <2>8 DEF AttentionRuns
  <2> QED BY <1>2, <1>3, <2>3, <2>7, <2>8, <2>10, <2>11
<1> QED BY <1>6, <1>7

LEMMA UpdateRuns ==
  ASSUME AttentionRuns, ~MaskedScores, k_tile < MaxKTiles, attn' = attn, written' = written,
         written = {},
         NEW score, NEW vector, NEW tile_max, TileInLoop(score, vector, tile_max),
         Update(score, vector, tile_max)
  PROVE  AttentionRuns'
<1>1. k_tile \in Nat /\ MaxKTiles \in Nat /\ AttentionGiven
  BY TilesOfRow DEF AttentionRuns
<1>2. PICK m : m = Max({m_prev, tile_max})
  OBVIOUS
<1>3. m \in 0..MaxScore /\ m_prev <= m
  <2>1. PICK S : S = {m_prev, tile_max}
    OBVIOUS
  <2>2. tile_max \in 0..MaxScore /\ m_prev \in NoScore..MaxScore
    BY AttentionConstants DEF AttentionRuns, TileInLoop, NoScore
  <2>3. S \subseteq NoScore..MaxScore /\ tile_max \in S /\ m_prev \in S /\ tile_max >= 0
    BY <2>1, <2>2 DEF NoScore
  <2>4. Max(S) \in 0..MaxScore /\ \A y \in S : y <= Max(S)
    BY <2>3, GreatestScore
  <2> QED BY <1>2, <2>1, <2>3, <2>4
<1>4. PICK tw : tw = [n \in TileRows |-> Weight(score[n], m)]
  OBVIOUS
<1>5. PICK part : part = [v \in Vectors |-> {n \in TileRows : vector[n] = v}]
  OBVIOUS
<1>6. ASSUME NEW U, U \subseteq TileRows
      PROVE  MapThenSumSet(LAMBDA n : Weight(score[n], m), U) = SumFunctionOnSet(tw, U)
  <2> DEFINE f(n) == Weight(score[n], m)
             Folds(it) == it = [s \in SUBSET U |->
               IF s = {} THEN 0 ELSE f(Chosen(s)) + it[s \ {Chosen(s)}]]
  <2>1. MapThenSumSet(LAMBDA n : Weight(score[n], m), U) = (CHOOSE it : Folds(it))[U]
    BY DEF MapThenSumSet, MapThenFoldSet, Chosen
  <2>2. \A c \in U : tw[c] = f(c)
    BY <1>4, <1>6
  <2>3. ASSUME NEW it PROVE Folds(it) <=> Adds(it, tw, U)
    <3>1. \A s \in SUBSET U : s = {} \/ tw[Chosen(s)] = f(Chosen(s))
      BY <2>2, ChosenIsIn
    <3> HIDE DEF f
    <3> QED BY <3>1 DEF Adds, Added
  <2>4. PICK it : it = CHOOSE i : Folds(i)
    OBVIOUS
  <2>5. IsFiniteSet(U)
    BY <1>6, AttentionConstants, FS_Subset
  <2>6. Adds(it, tw, U)
    <3>1. \E i : Folds(i)
      BY <2>3, <2>5, AdderExists
    <3> HIDE DEF Folds
    <3> QED BY <2>3, <2>4, <3>1
  <2> HIDE DEF Folds
  <2> QED BY <2>1, <2>4, <2>5, <2>6, AddingIsSum
<1>7. /\ m_prev' = m /\ k_tile' = k_tile + 1
      /\ l_prev' = Rescaled(l_prev, m)
           + MapThenSumSet(LAMBDA n : Weight(score[n], m), TileRows)
      /\ o_acc' = [v \in Vectors |-> Rescaled(o_acc[v], m)
           + MapThenSumSet(LAMBDA n : Weight(score[n], m), {n \in TileRows : vector[n] = v})]
  BY <1>2 DEF Update
<1>8. /\ \A v \in Vectors :
            Kept(k_tile + 1, m)[v] = Kept(k_tile, m)[v] + SumFunctionOnSet(tw, part[v])
      /\ SumFunctionOnSet(Kept(k_tile + 1, m), Vectors)
           = SumFunctionOnSet(Kept(k_tile, m), Vectors) + SumFunctionOnSet(tw, TileRows)
  <2>1. \A n \in TileRows : tw[n] = Weight(score[n], m)
    BY <1>4
  <2>2. \A v \in Vectors : \A n : n \in part[v] <=> n \in TileRows /\ vector[n] = v
    BY <1>5
  <2>3. m \in 0..MaxScore
    BY <1>3
  <2> QED BY <1>1, <2>1, <2>2, <2>3, TileSums
<1>9. l_prev' = SumFunctionOnSet(Kept(k_tile + 1, m), Vectors)
  <2>1. l_prev' = SumFunctionOnSet(Kept(k_tile, m), Vectors) + SumFunctionOnSet(tw, TileRows)
    BY <1>3, <1>6, <1>7, RescaledFacts
  <2> QED BY <1>8, <2>1
<1>10. o_acc' = Kept(k_tile + 1, m)
  <2>1. ASSUME NEW v \in Vectors
        PROVE  Rescaled(o_acc[v], m) + MapThenSumSet(LAMBDA n : Weight(score[n], m),
                 {n \in TileRows : vector[n] = v}) = Kept(k_tile + 1, m)[v]
    <3>1. PICK U : U = {n \in TileRows : vector[n] = v}
      OBVIOUS
    <3>2. MapThenSumSet(LAMBDA n : Weight(score[n], m), U) = SumFunctionOnSet(tw, part[v])
      BY <1>5, <1>6, <3>1
    <3>3. Kept(k_tile + 1, m)[v] = Kept(k_tile, m)[v] + SumFunctionOnSet(tw, part[v])
      BY <1>8
    <3>4. Rescaled(o_acc[v], m) = Kept(k_tile, m)[v]
      BY <1>3, RescaledFacts
    <3> QED BY <3>1, <3>2, <3>3, <3>4
  <2>2. Kept(k_tile + 1, m) = [v \in Vectors |-> Kept(k_tile + 1, m)[v]]
    BY DEF Kept
  <2> QED BY <1>7, <2>1, <2>2
<1>11. AttentionGiven' /\ MaxKTiles' = MaxKTiles
  BY <1>1 DEF AttentionGiven, Supported, MaxKTiles, TilesFor
<1>12. k_tile' \in Nat /\ k_tile' <= MaxKTiles
  BY <1>1, <1>7
<1>13. Kept(k_tile, m_prev)' = o_acc'
  <2>1. Kept(k_tile, m_prev)' = Kept(k_tile + 1, m)
    BY <1>7 DEF Kept, Visible
  <2> QED BY <1>10, <2>1
<1>14. (l_prev = SumFunctionOnSet(o_acc, Vectors))'
  BY <1>9, <1>10
<1> QED BY <1>3, <1>7, <1>11, <1>12, <1>13, <1>14 DEF AttentionRuns

-----------------------------------------------------------------------------
LEMMA NotLaunched == ASSUME AttentionRuns PROVE attn # NoAttention
BY AttentionConstants DEF AttentionRuns, AttentionGiven, NoAttention

LEMMA LaunchRuns ==
  ASSUME AttnInv, NEW kernel, NEW seq_len \in 1..MaxLen, NEW causal \in BOOLEAN,
         NEW row \in 0..(seq_len - 1), NEW scores \in [0..(seq_len - 1) -> 0..MaxScore],
         LaunchAttention(kernel, seq_len, causal, row, scores), ~MaskedScores
  PROVE  AttentionRuns'
<1>1. /\ attn = NoAttention /\ k_tile = 0 /\ m_prev = NoScore /\ l_prev = 0
      /\ o_acc = [v \in Vectors |-> 0] /\ written = {}
  BY NotLaunched DEF AttnInv, LaunchAttention
<1>2. /\ k_tile' = 0 /\ m_prev' = NoScore /\ l_prev' = 0
      /\ o_acc' = [v \in Vectors |-> 0] /\ written' = {}
  BY <1>1 DEF LaunchAttention
<1>3. PICK new : new = [kernel |-> kernel, seq_len |-> seq_len, is_causal |-> causal,
                        row |-> row, scores |-> scores]
  OBVIOUS
<1>4. /\ new.kernel = kernel /\ new.seq_len = seq_len /\ new.is_causal = causal
      /\ new.row = row /\ new.scores = scores
  BY <1>3
<1>5. attn' = new /\ Supported(kernel, seq_len, causal, row)
  BY <1>3 DEF LaunchAttention
<1>6. AttentionGiven'
  BY <1>4, <1>5 DEF AttentionGiven, Supported
<1>7. Kept(k_tile, m_prev)' = o_acc'
  <2>1. \A v \in Vectors : ~(v < 0 * Tile)
    BY AttentionConstants
  <2> QED BY <1>2, <2>1 DEF Kept
<1>8. (l_prev = SumFunctionOnSet(o_acc, Vectors))'
  <2>1. PICK zeros : zeros = [v \in Vectors |-> 0]
    OBVIOUS
  <2>2. SumFunctionOnSet(zeros, Vectors) = 0
    BY <2>1, AttentionConstants, SumOfZeros
  <2> QED BY <1>2, <2>1, <2>2
<1> QED BY <1>2, <1>6, <1>7, <1>8 DEF AttentionRuns

LEMMA AttnStepInv ==
  ASSUME AttnInv, [AttnNext]_attnVars, ~MaskedScores, ~StrayRows
  PROVE  AttnInv'
<1>1. ASSUME NEW seq_len \in 1..MaxLen, NEW causal \in BOOLEAN,
             NEW row \in 0..(seq_len - 1), NEW scores \in [0..(seq_len - 1) -> 0..MaxScore],
             \/ LaunchCuda(seq_len, causal, row, scores)
             \/ LaunchTriton(seq_len, causal, row, scores)
      PROVE  AttentionRuns'
  BY <1>1, LaunchRuns DEF LaunchCuda, LaunchTriton
<1>2. ASSUME attn # NoAttention, Looping
      PROVE  AttentionRuns /\ AttentionGiven /\ k_tile \in Nat /\ k_tile < MaxKTiles /\ written = {}
  <2>1. AttentionRuns
    BY <1>2 DEF AttnInv
  <2>2. MaxKTiles \in Nat
    BY <2>1, TilesOfRow DEF AttentionRuns
  <2> QED BY <1>2, <2>1, <2>2 DEF AttentionRuns, Looping
<1>3. ASSUME CudaTile PROVE AttentionRuns'
  <2>1. /\ AttentionRuns /\ AttentionGiven /\ k_tile \in Nat /\ k_tile < MaxKTiles
        /\ written = {}
    BY <1>2, <1>3 DEF CudaTile, Looping
  <2>2. PICK loaded :
          /\ \A n \in TileRows : loaded[n] \in LoadedByCuda(n)
          /\ Update([n \in TileRows |-> CudaScore(n)], loaded, CudaMax)
    BY <1>3 DEF CudaTile
  <2>3. attn.kernel = "cuda" /\ attn' = attn /\ written' = written
    BY <1>3 DEF CudaTile
  <2>4. PICK score : score = [n \in TileRows |-> CudaScore(n)]
    OBVIOUS
  <2>5. TileInLoop(score, loaded, CudaMax)
    BY <2>1, <2>2, <2>3, <2>4, CudaTileInLoop
  <2>6. Update(score, loaded, CudaMax)
    BY <2>2, <2>4
  <2> QED BY <2>1, <2>3, <2>5, <2>6, UpdateRuns
<1>4. ASSUME TritonTile PROVE AttentionRuns'
  <2>1. /\ AttentionRuns /\ AttentionGiven /\ k_tile \in Nat /\ k_tile < MaxKTiles
        /\ written = {}
    BY <1>2, <1>4 DEF TritonTile, Looping
  <2>2. attn' = attn /\ written' = written
    BY <1>4 DEF TritonTile
  <2>3. PICK score : score = [n \in TileRows |-> TritonScore(n)]
    OBVIOUS
  <2>4. PICK loaded : loaded = [n \in TileRows |-> LoadedByTriton(n)]
    OBVIOUS
  <2>5. TileInLoop(score, loaded, TritonMax)
    BY <2>1, <2>3, <2>4, TritonTileInLoop
  <2>6. Update(score, loaded, TritonMax)
    BY <1>4, <2>3, <2>4 DEF TritonTile
  <2> QED BY <2>1, <2>2, <2>5, <2>6, UpdateRuns
<1>5. ASSUME NEW columns, Store(columns), attn # NoAttention PROVE AttentionRuns'
  <2>1. AttentionRuns
    BY <1>5 DEF AttnInv
  <2>2. MaxKTiles \in Nat
    BY <2>1, TilesOfRow DEF AttentionRuns
  <2>3. /\ attn' = attn /\ k_tile' = k_tile /\ m_prev' = m_prev /\ l_prev' = l_prev
        /\ o_acc' = o_acc
    BY <1>5 DEF Store
  <2>4. k_tile = MaxKTiles
    <3>1. k_tile \in Nat /\ (k_tile = 0 \/ k_tile <= MaxKTiles) /\ ~(k_tile < MaxKTiles)
      BY <1>5, <2>1 DEF AttentionRuns, Store, Looping
    <3> QED BY <2>2, <3>1
  <2> QED BY <2>1, <2>3, <2>4 DEF AttentionRuns, AttentionGiven, Supported, MaxKTiles,
          TilesFor, Kept, Visible
<1>6. ASSUME UNCHANGED attnVars PROVE AttnInv'
  BY <1>6 DEF attnVars, AttnInv, AttentionRuns, AttentionGiven, Supported, MaxKTiles,
     TilesFor, Kept, Visible, NoAttention
<1> QED BY <1>1, <1>3, <1>4, <1>5, <1>6 DEF AttnNext, AttnInv, CudaStore, TritonStore

(* What is stored at the end, against the softmax of the row at once. *)
LEMMA StoredIsSoftmax ==
  ASSUME AttentionRuns, ~MaskedScores, written # {}
  PROVE  RowIsSoftmax
<1> DEFINE exponential(n) == IF Visible(n) THEN Power[attn.scores[n]] ELSE 0
<1>1. /\ AttentionGiven /\ k_tile = MaxKTiles /\ k_tile \in Nat
      /\ o_acc = Kept(k_tile, m_prev) /\ l_prev = SumFunctionOnSet(o_acc, Vectors)
  BY DEF AttentionRuns
<1>2. \A v \in Vectors : Visible(v) => v < k_tile * Tile
  BY <1>1, TilesOfRow, AttentionConstants
<1>3. Visible(0) /\ 0 \in Vectors
  BY AttentionConstants DEF AttentionRuns, AttentionGiven, Visible
<1>4. m_prev \in 0..MaxScore
  <2>1. 0 < k_tile * Tile
    BY <1>2, <1>3
  <2>2. k_tile # 0
    <3>1. 0 * Tile = 0
      BY AttentionConstants
    <3> QED BY <2>1, <3>1
  <2> QED BY <2>2 DEF AttentionRuns
<1>5. PICK e : e = [v \in Vectors |-> exponential(v)]
  OBVIOUS
<1>6. PICK a \in Nat \ {0}, b \in Nat \ {0} : a = Power[m_prev] /\ b = Power[MaxScore]
  <2>1. MaxScore \in 0..MaxScore
    BY AttentionConstants
  <2>2. Power[m_prev] \in Nat \ {0} /\ Power[MaxScore] \in Nat \ {0}
    BY <1>4, <2>1, WeightFacts
  <2> QED BY <2>2
<1>7. PICK o : o = o_acc
  OBVIOUS
<1>8. ASSUME NEW v \in Vectors
      PROVE  /\ e[v] \in Nat /\ o[v] \in Nat /\ o[v] * a = e[v] * b
             /\ Visible(v) => o[v] \in Nat \ {0}
             /\ ~Visible(v) => e[v] = 0 /\ o[v] = 0
  <2>1. CASE Visible(v)
    <3>1. PICK s \in 0..MaxScore : s = attn.scores[v]
      <4>1. v \in 0..(attn.seq_len - 1)
        BY <1>1, <2>1, AttentionConstants DEF AttentionGiven, Visible
      <4> QED BY <1>1, <4>1 DEF AttentionGiven
    <3>2. o[v] = Power[s - m_prev + MaxScore] /\ e[v] = Power[s]
      BY <1>1, <1>2, <1>5, <1>7, <2>1, <3>1 DEF Kept
    <3> QED BY <1>4, <1>6, <2>1, <3>2, WeightFacts
  <2>2. CASE ~Visible(v)
    <3>1. o[v] = 0 /\ e[v] = 0
      BY <1>1, <1>5, <1>7, <2>2 DEF Kept
    <3> QED BY <2>2, <3>1
  <2> QED BY <2>1, <2>2
<1>9. ~Visible(Stray)
  BY <1>1, AttentionConstants DEF AttentionGiven, Visible, Stray
<1>10. /\ IsFiniteSet(Keys) /\ Keys \subseteq Vectors /\ Stray \in Vectors
       /\ Vectors = Keys \cup {Stray} /\ Stray \notin Keys
  <2>1. Keys \subseteq Vectors /\ Stray \in Vectors /\ Vectors = Keys \cup {Stray}
    BY DEF Vectors
  <2>2. Stray \notin Keys
    BY AttentionConstants DEF Stray, Keys
  <2> QED BY <2>1, <2>2, AttentionConstants, FS_Subset
<1>11. PICK keys : keys = Keys
  OBVIOUS
<1>12. PICK l \in Nat, total \in Nat :
         l = SumFunctionOnSet(o, keys) /\ total = SumFunctionOnSet(e, keys)
  <2>1. IsFiniteSet(keys) /\ (\A v \in keys : o[v] \in Nat) /\ (\A v \in keys : e[v] \in Nat)
    BY <1>8, <1>10, <1>11
  <2> QED BY <2>1, SumIsNat
<1>13. l_prev = l
  <2>1. \A v \in keys \cup {Stray} : o[v] \in Nat
    BY <1>8, <1>10, <1>11
  <2>2. SumFunctionOnSet(o, keys \cup {Stray}) = l + o[Stray]
    BY <1>10, <1>11, <1>12, <2>1, SumWith
  <2>3. o[Stray] = 0
    BY <1>8, <1>9, <1>10
  <2> QED BY <1>1, <1>7, <1>10, <1>11, <2>2, <2>3
<1>14. l * a = total * b
  <2>1. IsFiniteSet(keys) /\ \A v \in keys : o[v] \in Nat /\ e[v] \in Nat /\ o[v] * a = e[v] * b
    BY <1>8, <1>10, <1>11
  <2> QED BY <1>12, <2>1, SumScaled
<1>15. l > 0
  <2>1. 0 \in keys
    BY <1>11, AttentionConstants DEF Keys
  <2>2. o[0] \in Nat \ {0}
    BY <1>3, <1>8
  <2>3. l = o[0] + SumFunctionOnSet(o, keys \ {0})
    <3>1. IsFiniteSet(keys) /\ \A v \in keys : o[v] \in Nat
      BY <1>8, <1>10, <1>11
    <3> QED BY <1>12, <2>1, <3>1, SumWithout
  <2>4. SumFunctionOnSet(o, keys \ {0}) \in Nat
    <3>1. IsFiniteSet(keys \ {0}) /\ \A v \in keys \ {0} : o[v] \in Nat
      BY <1>8, <1>10, <1>11, FS_Subset
    <3> QED BY <3>1, SumIsNat
  <2> QED BY <2>2, <2>3, <2>4
<1>16. MapThenSumSet(exponential, Keys) = total
  <2> DEFINE Folds(it) == it = [s \in SUBSET keys |->
               IF s = {} THEN 0 ELSE exponential(Chosen(s)) + it[s \ {Chosen(s)}]]
  <2>1. MapThenSumSet(exponential, Keys) = (CHOOSE it : Folds(it))[keys]
    BY <1>11 DEF MapThenSumSet, MapThenFoldSet, Chosen
  <2>2. \A c \in keys : e[c] = exponential(c)
    BY <1>5, <1>10, <1>11
  <2>3. ASSUME NEW it PROVE Folds(it) <=> Adds(it, e, keys)
    <3>1. \A s \in SUBSET keys : s = {} \/ e[Chosen(s)] = exponential(Chosen(s))
      BY <2>2, ChosenIsIn
    <3> HIDE DEF exponential
    <3> QED BY <3>1 DEF Adds, Added
  <2>4. PICK it : it = CHOOSE i : Folds(i)
    OBVIOUS
  <2>5. Adds(it, e, keys)
    <3>1. \E i : Folds(i)
      BY <1>10, <1>11, <2>3, AdderExists
    <3> HIDE DEF Folds
    <3> QED BY <2>3, <2>4, <3>1
  <2> HIDE DEF Folds
  <2> QED BY <1>10, <1>11, <1>12, <2>1, <2>4, <2>5, AddingIsSum
<1>17. ASSUME NEW n \in Keys PROVE o_acc[n] * total = exponential(n) * l_prev
  <2>1. PICK x \in Nat, y \in Nat : x = o[n] /\ y = e[n] /\ x * a = y * b
    BY <1>8, <1>10
  <2>2. (x * total) * (a * b) = (y * l) * (a * b)
    <3>1. (x * total) * (a * b) = (x * a) * (total * b)
      OBVIOUS
    <3>2. (y * l) * (a * b) = (y * b) * (l * a)
      OBVIOUS
    <3> QED BY <1>14, <2>1, <3>1, <3>2
  <2>3. x * total = y * l
    <3>1. a * b \in Nat \ {0} /\ x * total \in Nat /\ y * l \in Nat
      OBVIOUS
    <3>2. x * total <= y * l <=> (x * total) * (a * b) <= (y * l) * (a * b)
      BY <3>1, FactorKeepsOrder
    <3>3. y * l <= x * total <=> (y * l) * (a * b) <= (x * total) * (a * b)
      BY <3>1, FactorKeepsOrder
    <3>4. PICK p \in Nat, q \in Nat : p = x * total /\ q = y * l
      BY <3>1
    <3>5. (p <= q <=> p * (a * b) <= q * (a * b)) /\ (q <= p <=> q * (a * b) <= p * (a * b))
          /\ p * (a * b) = q * (a * b) /\ p * (a * b) \in Nat
      BY <2>2, <3>1, <3>2, <3>3, <3>4
    <3>6. p <= q /\ q <= p
      BY <3>5
    <3> QED BY <3>4, <3>6
  <2>4. y = exponential(n)
    BY <1>5, <1>10, <2>1
  <2> QED BY <1>7, <1>13, <2>1, <2>3, <2>4
<1>18. o_acc[Stray] = 0
  BY <1>7, <1>8, <1>9, <1>10
<1>19. l_prev > 0
  BY <1>13, <1>15
<1> QED BY <1>16, <1>17, <1>18, <1>19 DEF RowIsSoftmax

(* RowIsSoftmax (flash_attn_v2_ampere_kernel, _flash_attn_v2_fwd_kernel):  *)
(* where no key of a tile is masked and no row of keys strays into the     *)
(* tile of V, both kernels end with the softmax of the row, for any size   *)
(* of the tiles, length and scores and whichever order the maxima come in: *)
(* after each tile the accumulator holds the weights under the running     *)
(* maximum, and the factor expf(m_prev - m_curr) rescales all of them      *)
(* alike.                                                                  *)
THEOREM TilesMakeSoftmax ==
  ASSUME ~MaskedScores, ~StrayRows
  PROVE  AttnSpec => []RowIsSoftmax
<1>1. AttnInit => AttnInv
  BY DEF AttnInit, AttnInv
<1>2. AttnInv => RowIsSoftmax
  <2>1. CASE written = {}
    BY <2>1 DEF RowIsSoftmax
  <2>2. CASE written # {}
    BY <2>2, StoredIsSoftmax DEF AttnInv
  <2> QED BY <2>1, <2>2
<1>3. AttnInv /\ [AttnNext]_attnVars => AttnInv'
  BY AttnStepInv
<1> QED BY <1>1, <1>2, <1>3, PTL DEF AttnSpec

-----------------------------------------------------------------------------
(***************************************************************************)
(* Speculative decoding in C++, for any vocabulary, models, number of      *)
(* draft tokens and draws from 1 on.                                       *)
(***************************************************************************)
LEMMA CumulativeIsSum ==
  ASSUME NEW w, NEW t
  PROVE  Cumulative(w, t) = SumFunctionOnSet(w, 0..t)
BY DEF Cumulative, MapThenSumSet, SumFunctionOnSet, FoldFunctionOnSet, MapThenFoldSet

LEMMA TokenFacts ==
  /\ VocabSize \in Nat \ {0} /\ K \in Nat \ {0} /\ D \in Nat \ {0}
  /\ Eos \in Tokens /\ Prompt \in Tokens /\ Prompt # Eos
  /\ 0 \in Tokens /\ VocabSize - 1 \in Tokens /\ Tokens \subseteq Nat
  /\ \A n \in Nat : IsFiniteSet(0..n)
  /\ IsFiniteSet(Tokens)
<1>1. /\ VocabSize \in Nat \ {0} /\ K \in Nat \ {0} /\ D \in Nat \ {0}
      /\ Eos \in Tokens /\ Prompt \in Tokens /\ Prompt # Eos
  BY DecodingAssumption, VerificationAssumption
<1>2. 0 \in Tokens /\ VocabSize - 1 \in Tokens /\ Tokens \subseteq Nat
  BY <1>1 DEF Tokens
<1>3. \A n \in Nat : IsFiniteSet(0..n)
  BY FS_Interval
<1>4. VocabSize - 1 \in Nat
  BY <1>1
<1> QED BY <1>1, <1>2, <1>3, <1>4 DEF Tokens

(* Cumulative weights grow token by token, up to a positive total.         *)
LEMMA CumulativeFacts ==
  ASSUME NEW w \in Weights, NEW u \in Tokens, w[u] > 0
  PROVE  /\ \A t \in Tokens : Cumulative(w, t) \in Nat
         /\ Cumulative(w, 0) = w[0]
         /\ \A t \in Tokens : t > 0 => Cumulative(w, t) = Cumulative(w, t - 1) + w[t]
         /\ Cumulative(w, VocabSize - 1) > 0
<1>1. \A x \in Tokens : w[x] \in Nat
  BY DEF Weights
<1>2. \A t \in Tokens : 0..t \subseteq Tokens /\ t \in Nat
  BY TokenFacts DEF Tokens
<1>3. ASSUME NEW t \in Tokens PROVE Cumulative(w, t) \in Nat
  <2>1. IsFiniteSet(0..t) /\ \A x \in 0..t : w[x] \in Nat
    BY <1>1, <1>2, TokenFacts
  <2> QED BY <2>1, SumIsNat, CumulativeIsSum
<1>4. ASSUME NEW t \in Tokens, t > 0
      PROVE  Cumulative(w, t) = Cumulative(w, t - 1) + w[t]
  <2>1. t - 1 \in Nat /\ 0..t = (0..(t - 1)) \cup {t} /\ t \notin 0..(t - 1)
    BY <1>2, <1>4
  <2>2. IsFiniteSet(0..(t - 1)) /\ \A x \in (0..(t - 1)) \cup {t} : w[x] \in Nat
    BY <1>1, <1>2, <2>1, TokenFacts
  <2>3. SumFunctionOnSet(w, (0..(t - 1)) \cup {t}) = SumFunctionOnSet(w, 0..(t - 1)) + w[t]
    BY <2>1, <2>2, SumWith
  <2> QED BY <2>1, <2>3, CumulativeIsSum
<1>5. \A x : SumFunctionOnSet(w, {x}) = SumFunctionOnSet(w, {} \cup {x})
  BY {} \cup {} = {}
<1>6. \A x \in Tokens : SumFunctionOnSet(w, {x}) = w[x]
  <2> SUFFICES ASSUME NEW x \in Tokens PROVE SumFunctionOnSet(w, {x}) = w[x]
    OBVIOUS
  <2>1. IsFiniteSet({}) /\ x \notin {} /\ \A y \in {} \cup {x} : w[y] \in Nat
    BY <1>1, FS_EmptySet
  <2>2. SumFunctionOnSet(w, {} \cup {x}) = SumFunctionOnSet(w, {}) + w[x]
    BY ONLY <2>1, SumWith
  <2>3. SumFunctionOnSet(w, {}) = 0
    BY SumOfNothing
  <2>4. {} \cup {x} = {x}
    OBVIOUS
  <2> QED BY <1>1, <2>2, <2>3, <2>4
<1>7. Cumulative(w, 0) = w[0]
  <2>1. 0..0 = {0}
    OBVIOUS
  <2> QED BY <1>6, <2>1, CumulativeIsSum, TokenFacts
<1>8. Cumulative(w, VocabSize - 1) > 0
  <2>1. {u} \subseteq Tokens /\ IsFiniteSet(Tokens)
    BY TokenFacts
  <2>2. SumFunctionOnSet(w, {u}) <= SumFunctionOnSet(w, Tokens)
    BY <1>1, <2>1, SumOfPart
  <2>3. SumFunctionOnSet(w, Tokens) = Cumulative(w, VocabSize - 1)
    BY CumulativeIsSum DEF Tokens
  <2>4. Cumulative(w, VocabSize - 1) \in Nat /\ w[u] \in Nat
    BY <1>1, <1>3, TokenFacts
  <2> QED BY <1>6, <2>2, <2>3, <2>4
<1> QED BY <1>3, <1>4, <1>7, <1>8

(* sample_from_distribution, with a draw above 0, never returns a token of *)
(* weight 0.                                                               *)
LEMMA SampleIsPositive ==
  ASSUME NEW w \in Weights, NEW u \in Tokens, w[u] > 0, NEW r \in 1..D
  PROVE  Sample(w, r) \in Tokens /\ w[Sample(w, r)] > 0
<1> DEFINE C(t) == Cumulative(w, t)
<1>1. PICK total \in Nat : total = C(VocabSize - 1) /\ total > 0
  BY CumulativeFacts, TokenFacts
<1> DEFINE reached == {t \in Tokens : r * total <= D * C(t)}
<1>2. D \in Nat /\ D > 0 /\ r \in Nat /\ r > 0 /\ r <= D
  BY TokenFacts
<1>3. VocabSize - 1 \in reached
  <2>1. PICK e \in Nat : D = r + e
    <3>1. D - r \in Nat /\ D = r + (D - r)
      BY <1>2
    <3> QED BY <3>1
  <2>2. (r + e) * total = r * total + e * total
    BY <1>1, <1>2
  <2>3. r * total \in Nat /\ e * total \in Nat
    BY <1>1, <1>2
  <2>4. r * total <= D * total
    BY <2>1, <2>2, <2>3
  <2> QED BY <1>1, <2>4, TokenFacts
<1>4. PICK t \in reached : (\A y \in reached : t <= y) /\ Min(reached) = t
  <2>1. reached \in SUBSET Nat /\ reached # {}
    BY <1>3, TokenFacts
  <2> HIDE DEF reached
  <2>2. PICK t \in reached : \A y \in reached : t <= y
    BY <2>1, LeastNumber
  <2>3. \A x \in reached : (\A y \in reached : x <= y) => x = t
    BY <2>1, <2>2
  <2> QED BY <2>2, <2>3 DEF Min
<1>5. Sample(w, r) = t
  <2>1. Sample(w, r) = IF reached = {} THEN VocabSize - 1 ELSE Min(reached)
    BY <1>1 DEF Sample
  <2> HIDE DEF reached
  <2> QED BY <1>3, <1>4, <2>1
<1>6. t \in Tokens /\ t \in Nat /\ w[t] \in Nat /\ r * total <= D * C(t)
  BY <1>4, TokenFacts DEF Weights
<1>7. r * total > 0
  BY <1>1, <1>2
<1>8. CASE t = 0
  <2>1. C(t) = w[t]
    BY <1>8, CumulativeFacts
  <2> HIDE DEF C
  <2>2. w[t] = 0 => D * w[t] = 0
    BY <1>2, <1>6
  <2>3. r * total \in Nat
    BY <1>1, <1>2
  <2>4. w[t] # 0
    BY <1>6, <1>7, <2>1, <2>2, <2>3
  <2> QED BY <1>5, <1>6, <2>4
<1>9. CASE t > 0
  <2>1. t - 1 \in Tokens
    BY <1>6, <1>9, TokenFacts DEF Tokens
  <2>2. ~(t <= t - 1)
    BY <1>6
  <2>3. ~(r * total <= D * C(t - 1))
    BY <1>4, <2>1, <2>2
  <2>4. C(t) = C(t - 1) + w[t]
    BY <1>6, <1>9, CumulativeFacts
  <2> HIDE DEF C, reached
  <2>5. w[t] = 0 => C(t) = C(t - 1)
    <3>1. C(t - 1) \in Nat
      BY <2>1, CumulativeFacts DEF C
    <3> QED BY <2>4, <3>1
  <2>6. w[t] # 0
    BY ONLY <1>6, <2>3, <2>5
  <2> QED BY <1>5, <1>6, <2>6
<1> QED BY <1>6, <1>8, <1>9

(* max_element exists. *)
LEMMA ArgmaxIsToken ==
  ASSUME NEW w \in Weights
  PROVE  Argmax(w) \in Tokens /\ \A u \in Tokens : w[u] <= w[Argmax(w)]
<1>1. \A x \in Tokens : w[x] \in Nat
  BY DEF Weights
<1>2. PICK s \in Nat : \A t \in Tokens : w[t] <= s
  <2>1. SumFunctionOnSet(w, Tokens) \in Nat
    BY <1>1, SumIsNat, TokenFacts
  <2>2. ASSUME NEW t \in Tokens PROVE w[t] <= SumFunctionOnSet(w, Tokens)
    <3>1. SumFunctionOnSet(w, Tokens) = w[t] + SumFunctionOnSet(w, Tokens \ {t})
      <4>1. IsFiniteSet(Tokens) /\ t \in Tokens
        BY TokenFacts
      <4> QED BY ONLY <1>1, <4>1, SumWithout
    <3>2. IsFiniteSet(Tokens \ {t}) /\ \A x \in Tokens \ {t} : w[x] \in Nat
      <4>1. IsFiniteSet(Tokens) /\ Tokens \ {t} \subseteq Tokens
        BY TokenFacts
      <4> QED BY <1>1, <4>1, FS_Subset
    <3>3. SumFunctionOnSet(w, Tokens \ {t}) \in Nat
      BY ONLY <3>2, SumIsNat
    <3>4. w[t] \in Nat
      BY <1>1
    <3> QED BY ONLY <3>1, <3>3, <3>4
  <2> QED BY <2>1, <2>2
<1> DEFINE Gaps == {s - w[t] : t \in Tokens}
<1>3. PICK g \in Gaps : \A h \in Gaps : g <= h
  <2>1. Gaps \in SUBSET Nat /\ Gaps # {}
    BY <1>1, <1>2, TokenFacts
  <2> HIDE DEF Gaps
  <2> QED BY <2>1, LeastNumber
<1>4. PICK b \in Tokens : g = s - w[b]
  BY <1>3
<1>5. \A u \in Tokens : w[u] <= w[b]
  <2> SUFFICES ASSUME NEW u \in Tokens PROVE w[u] <= w[b]
    OBVIOUS
  <2>1. s - w[b] <= s - w[u]
    BY <1>3, <1>4
  <2> QED BY <1>1, <2>1
<1> DEFINE Best == {t \in Tokens : w[t] = w[b]}
<1>6. PICK t \in Best : \A u \in Best : t <= u
  <2>1. Best \in SUBSET Nat /\ Best # {}
    BY TokenFacts
  <2> HIDE DEF Best
  <2> QED BY <2>1, LeastNumber
<1>7. \A u \in Tokens : w[u] <= w[t] /\ (w[u] = w[t] => t <= u)
  BY <1>5, <1>6
<1> QED BY <1>6, <1>7 DEF Argmax

-----------------------------------------------------------------------------
(* Between the calls nothing is accepted; during one the accepted tokens   *)
(* are the first drafted ones, none of them the end of sequence while the  *)
(* loop goes on, and the draft model gave every drafted token some weight. *)
VTypes ==
  /\ target \in Models /\ draft \in Models /\ greedy \in BOOLEAN
  /\ text \in Seq(Tokens) /\ Len(text) > 0
  /\ phase \in {"idle", "verify", "verified"}
  /\ draft_tokens \in {<<>>} \cup [1..K -> Tokens]
  /\ accepted \in Seq(Tokens) /\ final_token \in Tokens

Drafted ==
  /\ phase = "idle" => accepted = <<>>
  /\ phase # "idle" =>
       /\ draft_tokens \in [1..K -> Tokens] /\ Last(text) # Eos
       /\ \A i \in 1..K : draft[Before(i)][draft_tokens[i]] > 0
       /\ Len(accepted) <= K
       /\ \A i \in 1..Len(accepted) : accepted[i] = draft_tokens[i]
  /\ phase = "verify" => \A i \in 1..Len(accepted) : accepted[i] # Eos

VInv == VTypes /\ Drafted

LEMMA ModelFacts ==
  ASSUME NEW m \in Models, NEW t \in Tokens
  PROVE  m[t] \in Weights /\ \E u \in Tokens : m[t][u] > 0
BY DecodingAssumption

(* The token before the one in question ends what was put out so far, and  *)
(* is not the end of sequence.                                             *)
LEMMA BeforeIsLast ==
  ASSUME VInv, phase = "verify"
  PROVE  /\ At \in 1..(K + 1) /\ Len(accepted) \in Nat /\ At = Len(accepted) + 1
         /\ Before(At) \in Tokens /\ Before(At) # Eos
         /\ At > 1 => Before(At) = Last(accepted)
         /\ Last(text \o accepted) = Before(At)
         /\ text \o accepted \in Seq(Tokens)
<1>1. PICK n \in Nat : n = Len(accepted) /\ n <= K /\ At = n + 1
  BY DEF VInv, VTypes, Drafted, At
<1>2. PICK m \in Nat : m = Len(text) /\ m > 0
  BY DEF VInv, VTypes
<1>3. /\ text \in Seq(Tokens) /\ accepted \in Seq(Tokens)
      /\ text[m] \in Tokens /\ text[m] # Eos
      /\ \A i \in 1..n : accepted[i] = draft_tokens[i] /\ accepted[i] # Eos
  BY <1>1, <1>2 DEF VInv, VTypes, Drafted, Last
<1>4. Before(At) = IF n = 0 THEN text[m] ELSE accepted[n]
  <2>1. n # 0 => n \in 1..n /\ n + 1 # 1 /\ (n + 1) - 1 = n
    BY <1>1
  <2> QED BY <1>1, <1>2, <1>3, <2>1 DEF Before, Last
<1>5. text \o accepted \in Seq(Tokens) /\ Len(text \o accepted) = m + n
  BY <1>1, <1>2, <1>3
<1>6. (text \o accepted)[m + n] = IF n = 0 THEN text[m] ELSE accepted[n]
  <2>1. CASE n = 0
    <3>1. m + n = m /\ m \in 1..m
      BY <1>2, <2>1
    <3> QED BY <1>1, <1>2, <1>3, <2>1, <3>1
  <2>2. CASE n # 0
    <3>1. m + n \in 1..(m + n) /\ ~(m + n <= m) /\ (m + n) - m = n
      BY <1>1, <1>2, <2>2
    <3> QED BY <1>1, <1>2, <1>3, <2>2, <3>1
  <2> QED BY <2>1, <2>2
<1>7. n # 0 => accepted[n] \in Tokens /\ accepted[n] # Eos
  BY <1>1, <1>3
<1>8. At \in 1..(K + 1)
  BY <1>1, TokenFacts
<1>9. Before(At) \in Tokens /\ Before(At) # Eos
  BY <1>3, <1>4, <1>7
<1>10. At > 1 => Before(At) = Last(accepted)
  <2>1. At > 1 => n # 0
    BY <1>1
  <2> QED BY <1>1, <1>4, <2>1 DEF Last
<1>11. Last(text \o accepted) = Before(At)
  BY <1>4, <1>5, <1>6 DEF Last
<1> QED BY <1>1, <1>5, <1>8, <1>9, <1>10, <1>11

LEMMA AdjustedIsWeights ==
  ASSUME NEW p \in Weights, NEW q \in Weights, \E u \in Tokens : p[u] > 0
  PROVE  /\ Adjusted(p, q) \in Weights
         /\ \E u \in Tokens : Adjusted(p, q)[u] > 0
         /\ \A u \in Tokens : Adjusted(p, q)[u] > 0 => p[u] > 0
<1>1. \A t \in Tokens : p[t] \in Nat /\ q[t] \in Nat
  BY DEF Weights
<1> DEFINE more == [t \in Tokens |-> IF p[t] > q[t] THEN p[t] - q[t] ELSE 0]
<1>2. more \in Weights
  BY <1>1 DEF Weights
<1>3. \A t \in Tokens : more[t] > 0 => p[t] > 0
  BY <1>1
<1>4. Adjusted(p, q) = IF Support(more) = {} THEN p ELSE more
  BY DEF Adjusted
<1> HIDE DEF more
<1>5. CASE Support(more) = {}
  BY <1>4, <1>5
<1>6. CASE Support(more) # {}
  BY <1>2, <1>3, <1>4, <1>6 DEF Support
<1> QED BY <1>5, <1>6

(* What an iteration that does not accept, or the bonus, returns.          *)
LEMMA ReturnedIsAllowed ==
  ASSUME NEW m \in Models, NEW d \in Models, NEW b \in Tokens, NEW s \in Draws, 0 \notin Draws
  PROVE  /\ Sample(Adjusted(m[b], d[b]), s) \in Support(m[b])
         /\ Sample(m[b], s) \in Support(m[b])
         /\ Argmax(m[b]) \in Tokens
<1>1. s \in 1..D
  <2>1. s \in 0..D /\ s # 0 /\ D \in Nat
    BY VerificationAssumption
  <2> QED BY <2>1
<1>2. m[b] \in Weights /\ d[b] \in Weights /\ \E u \in Tokens : m[b][u] > 0
  BY ModelFacts
<1>3. Sample(m[b], s) \in Tokens /\ m[b][Sample(m[b], s)] > 0
  BY <1>1, <1>2, SampleIsPositive
<1>4. PICK a \in Weights : /\ a = Adjusted(m[b], d[b])
                           /\ \E u \in Tokens : a[u] > 0
                           /\ \A u \in Tokens : a[u] > 0 => m[b][u] > 0
  BY <1>2, AdjustedIsWeights
<1>5. Sample(a, s) \in Tokens /\ a[Sample(a, s)] > 0
  BY <1>1, <1>4, SampleIsPositive
<1>6. Argmax(m[b]) \in Tokens
  BY <1>2, ArgmaxIsToken
<1> QED BY <1>3, <1>4, <1>5, <1>6 DEF Support

(* A token that is accepted has some weight in the target.                 *)
LEMMA AcceptedIsAllowed ==
  ASSUME NEW p \in Weights, NEW q \in Weights, NEW c \in Tokens, q[c] > 0,
         NEW r \in Draws, 0 \notin Draws, Accepts(p, q, c, r)
  PROVE  c \in Support(p)
<1>1. r \in Nat /\ r > 0 /\ D \in Nat
  BY VerificationAssumption
<1>2. PICK x \in Nat, y \in Nat : x = p[c] /\ y = q[c] /\ y > 0
  BY DEF Weights
<1>3. r * y <= D * x
  BY <1>2 DEF Accepts
<1>4. r * y > 0
  BY <1>1, <1>2
<1>5. x = 0 => D * x = 0
  BY <1>1
<1>6. x # 0
  BY <1>1, <1>2, <1>3, <1>4, <1>5
<1> QED BY <1>2, <1>6 DEF Support

LEMMA VInvInit ==
  ASSUME Init
  PROVE  VInv /\ text \o Output = <<Prompt>>
<1>1. <<Prompt>> \in Seq(Tokens) /\ Len(<<Prompt>>) = 1 /\ <<>> \in Seq(Tokens)
  BY TokenFacts
<1>2. VTypes
  BY <1>1, TokenFacts DEF Init, DecodingInit, VTypes
<1>3. Drafted
  BY DEF Init, Drafted
<1>4. Output = <<>>
  BY DEF Init, Output
<1> QED BY <1>1, <1>2, <1>3, <1>4 DEF VInv, Init, DecodingInit

(* A token that is put out, accepted or returned, is one the target model  *)
(* allows after what was put out before.                                   *)
AllowedNow == Allowed(target[Before(At)])

StepForms ==
  \/ Propose
  \/ Commit
  \/ phase = "verify" /\ At \in 1..K /\ draft_tokens[At] \in AllowedNow /\ Accept
  \/ phase = "verify" /\ \E t \in AllowedNow : Return(t)

LEMMA StepHasForm ==
  ASSUME VInv, Next, 0 \notin Draws
  PROVE  StepForms
<1>1. CASE Propose
  BY <1>1 DEF StepForms
<1>2. CASE Commit
  BY <1>2 DEF StepForms
<1>3. ASSUME phase = "verify"
      PROVE  /\ Before(At) \in Tokens /\ target \in Models /\ draft \in Models
             /\ At \in 1..(K + 1)
             /\ target[Before(At)] \in Weights /\ draft[Before(At)] \in Weights
             /\ draft_tokens \in [1..K -> Tokens]
             /\ \A i \in 1..K : draft[Before(i)][draft_tokens[i]] > 0
  <2>1. Before(At) \in Tokens /\ At \in 1..(K + 1)
    BY <1>3, BeforeIsLast
  <2>2. target \in Models /\ draft \in Models
    BY DEF VInv, VTypes
  <2>3. target[Before(At)] \in Weights /\ draft[Before(At)] \in Weights
    BY <2>1, <2>2, ModelFacts
  <2>4. /\ draft_tokens \in [1..K -> Tokens]
        /\ \A i \in 1..K : draft[Before(i)][draft_tokens[i]] > 0
    BY <1>3 DEF VInv, Drafted
  <2> QED BY <2>1, <2>2, <2>3, <2>4
<1>4. ASSUME NEW r \in Draws, Verify(r) PROVE StepForms
  <2>1. phase = "verify" /\ ~greedy /\ At \in 1..K
    <3>1. phase = "verify" /\ ~greedy /\ At <= K
      BY <1>4 DEF Verify, Verifying
    <3>2. At \in 1..(K + 1) /\ K \in Nat
      BY <1>3, <3>1, TokenFacts
    <3> QED BY <3>1, <3>2
  <2>2. AllowedNow = Support(target[Before(At)])
    BY <2>1 DEF AllowedNow, Allowed
  <2>3. CASE /\ Accepts(target[Before(At)], draft[Before(At)], draft_tokens[At], r)
             /\ Accept
    <3>1. draft_tokens[At] \in Tokens /\ draft[Before(At)][draft_tokens[At]] > 0
      BY <1>3, <2>1
    <3>2. draft_tokens[At] \in Support(target[Before(At)])
      BY <1>3, <2>1, <2>3, <3>1, AcceptedIsAllowed
    <3> QED BY <2>1, <2>2, <2>3, <3>2 DEF StepForms
  <2>4. CASE \E s \in Draws :
               Return(Sample(Adjusted(target[Before(At)], draft[Before(At)]), s))
    BY <1>3, <2>1, <2>2, <2>4, ReturnedIsAllowed DEF StepForms
  <2> QED BY <1>4, <2>3, <2>4 DEF Verify
<1>5. ASSUME VerifyGreedy PROVE StepForms
  <2>1. phase = "verify" /\ greedy /\ At \in 1..K
    <3>1. phase = "verify" /\ greedy /\ At <= K
      BY <1>5 DEF VerifyGreedy, Verifying
    <3>2. At \in 1..(K + 1) /\ K \in Nat
      BY <1>3, <3>1, TokenFacts
    <3> QED BY <3>1, <3>2
  <2>2. AllowedNow = {Argmax(target[Before(At)])}
    BY <2>1 DEF AllowedNow, Allowed
  <2> QED BY <1>5, <2>1, <2>2 DEF VerifyGreedy, StepForms
<1>6. phase = "verify" /\ At = K + 1 => LastDrafted = Before(At)
  <2>1. K + 1 # 1 /\ (K + 1) - 1 = K
    BY TokenFacts
  <2> QED BY <2>1 DEF LastDrafted, Before
<1>7. ASSUME NEW s \in Draws, Bonus(s) PROVE StepForms
  <2>1. phase = "verify" /\ ~greedy /\ At = K + 1 /\ Return(Sample(target[LastDrafted], s))
    BY <1>7 DEF Bonus
  <2>2. AllowedNow = Support(target[Before(At)])
    BY <2>1 DEF AllowedNow, Allowed
  <2>3. Sample(target[Before(At)], s) \in AllowedNow
    BY <1>3, <2>1, <2>2, ReturnedIsAllowed
  <2> QED BY <1>6, <2>1, <2>3 DEF StepForms
<1>8. ASSUME BonusGreedy PROVE StepForms
  <2>1. phase = "verify" /\ greedy /\ At = K + 1 /\ Return(Argmax(target[LastDrafted]))
    BY <1>8 DEF BonusGreedy
  <2>2. AllowedNow = {Argmax(target[Before(At)])}
    BY <2>1 DEF AllowedNow, Allowed
  <2> QED BY <1>6, <2>1, <2>2 DEF StepForms
<1> QED BY <1>1, <1>2, <1>4, <1>5, <1>7, <1>8 DEF Next

LEMMA AllowedIsToken ==
  ASSUME VInv, phase = "verify", NEW t \in AllowedNow
  PROVE  t \in Tokens
<1>1. Before(At) \in Tokens /\ target \in Models
  BY BeforeIsLast DEF VInv, VTypes
<1>2. target[Before(At)] \in Weights
  BY <1>1, ModelFacts
<1>3. Argmax(target[Before(At)]) \in Tokens
  BY <1>2, ArgmaxIsToken
<1> QED BY <1>3 DEF AllowedNow, Allowed, Support

LEMMA OutputFacts ==
  ASSUME VInv
  PROVE  /\ phase # "verified" => Output = accepted
         /\ Output \in Seq(Tokens) /\ text \o Output \in Seq(Tokens)
<1>1. accepted \in Seq(Tokens) /\ text \in Seq(Tokens) /\ <<final_token>> \in Seq(Tokens)
  BY DEF VInv, VTypes
<1>2. accepted \o <<>> = accepted
  BY <1>1
<1>3. Output \in Seq(Tokens)
  BY <1>1 DEF Output
<1> QED BY <1>1, <1>2, <1>3 DEF Output

LEMMA ProposeFits ==
  ASSUME VInv, Propose
  PROVE  VInv' /\ (text \o Output)' = text \o Output
<1>1. PICK d \in [1..K -> Tokens] :
        /\ \A i \in 1..K : draft[IF i = 1 THEN Last(text) ELSE d[i - 1]][d[i]] > 0
        /\ draft_tokens' = d
  BY DEF Propose
<1>2. /\ phase = "idle" /\ phase' = "verify" /\ accepted = <<>> /\ accepted' = <<>>
      /\ Last(text) # Eos /\ text' = text /\ draft' = draft /\ target' = target
      /\ greedy' = greedy /\ final_token' = final_token
  BY DEF Propose, VInv, Drafted
<1>3. VTypes'
  BY <1>1, <1>2 DEF VInv, VTypes
<1>4. Len(accepted') = 0 /\ K \in Nat
  BY <1>2, TokenFacts
<1>5. \A i \in 1..K : draft'[Before(i)'][draft_tokens'[i]] > 0
  BY <1>1, <1>2 DEF Before
<1>6. Drafted'
  BY <1>1, <1>2, <1>4, <1>5 DEF Drafted
<1>7. VInv'
  BY <1>3, <1>6 DEF VInv
<1>8. Output = <<>> /\ Output' = <<>>
  BY <1>2 DEF Output
<1> QED BY <1>2, <1>7, <1>8

LEMMA CommitFits ==
  ASSUME VInv, Commit
  PROVE  VInv' /\ (text \o Output)' = text \o Output
<1>1. /\ phase = "verified" /\ phase' = "idle" /\ accepted' = <<>> /\ draft_tokens' = <<>>
      /\ final_token' = Eos /\ text' = text \o Output /\ draft' = draft
      /\ target' = target /\ greedy' = greedy
  BY DEF Commit
<1>2. text \o Output \in Seq(Tokens) /\ Output \in Seq(Tokens)
  BY OutputFacts
<1>3. Len(text \o Output) > 0
  <2>1. text \in Seq(Tokens) /\ Len(text) > 0
    BY DEF VInv, VTypes
  <2> QED BY <1>2, <2>1
<1>4. VTypes'
  BY <1>1, <1>2, <1>3, TokenFacts DEF VInv, VTypes
<1>5. Drafted'
  BY <1>1 DEF Drafted
<1>6. VInv'
  BY <1>4, <1>5 DEF VInv
<1>7. Output' = <<>>
  BY <1>1 DEF Output
<1>8. (text \o Output) \o <<>> = text \o Output
  BY <1>2
<1> QED BY <1>1, <1>6, <1>7, <1>8

LEMMA AcceptFits ==
  ASSUME VInv, phase = "verify", At \in 1..K, Accept
  PROVE  VInv' /\ (text \o Output)' = Append(text \o Output, draft_tokens[At])
<1>1. /\ accepted \in Seq(Tokens) /\ text \in Seq(Tokens)
      /\ draft_tokens \in [1..K -> Tokens] /\ Last(text) # Eos
      /\ \A i \in 1..K : draft[Before(i)][draft_tokens[i]] > 0
      /\ \A i \in 1..Len(accepted) : accepted[i] = draft_tokens[i] /\ accepted[i] # Eos
  BY DEF VInv, VTypes, Drafted
<1>2. PICK n \in Nat : n = Len(accepted) /\ At = n + 1 /\ n + 1 <= K
  BY BeforeIsLast
<1>3. PICK t \in Tokens : t = draft_tokens[At]
  BY <1>1
<1>4. /\ accepted' = Append(accepted, t) /\ text' = text /\ draft' = draft
      /\ target' = target /\ greedy' = greedy /\ draft_tokens' = draft_tokens
      /\ phase' = IF t = Eos THEN "verified" ELSE "verify"
      /\ final_token' = IF t = Eos THEN Eos ELSE final_token
  BY <1>3 DEF Accept
<1>5. /\ Append(accepted, t) \in Seq(Tokens) /\ Len(Append(accepted, t)) = n + 1
      /\ Append(accepted, t)[n + 1] = t
      /\ \A i \in 1..n : Append(accepted, t)[i] = accepted[i]
  BY <1>1, <1>2, <1>3
<1>6. \A i \in 1..(n + 1) : i \in 1..n \/ i = n + 1
  BY <1>2
<1>7. VTypes'
  BY <1>1, <1>4, <1>5, TokenFacts DEF VInv, VTypes
<1>8. \A i \in 1..K : draft'[Before(i)'][draft_tokens'[i]] > 0
  BY <1>1, <1>4 DEF Before
<1>9. \A i \in 1..(n + 1) : Append(accepted, t)[i] = draft_tokens[i]
  BY <1>1, <1>2, <1>3, <1>5, <1>6
<1>10. t # Eos => \A i \in 1..(n + 1) : Append(accepted, t)[i] # Eos
  BY <1>1, <1>2, <1>5, <1>6
<1>11. Drafted'
  <2>1. phase' # "idle"
    BY <1>4
  <2>2. /\ draft_tokens' \in [1..K -> Tokens] /\ Last(text') # Eos
        /\ Len(accepted') <= K
    BY <1>1, <1>2, <1>4, <1>5
  <2>3. \A i \in 1..Len(accepted') : accepted'[i] = draft_tokens'[i]
    BY <1>4, <1>5, <1>9
  <2>4. phase' = "verify" => \A i \in 1..Len(accepted') : accepted'[i] # Eos
    BY <1>4, <1>5, <1>10
  <2> QED BY <1>8, <2>1, <2>2, <2>3, <2>4 DEF Drafted
<1>12. VInv'
  BY <1>7, <1>11 DEF VInv
<1>13. Output = accepted
  BY OutputFacts
<1>14. Output' = Append(accepted, t)
  BY <1>4, <1>5 DEF Output, Last
<1>15. text \o Append(accepted, t) = Append(text \o accepted, t)
  BY <1>1, <1>3, AppendProperties, ConcatProperties, ConcatAssociative
<1> QED BY <1>3, <1>4, <1>12, <1>13, <1>14, <1>15

LEMMA ReturnFits ==
  ASSUME VInv, phase = "verify", NEW t \in Tokens, Return(t)
  PROVE  VInv' /\ (text \o Output)' = Append(text \o Output, t)
<1>1. /\ phase' = "verified" /\ final_token' = t /\ accepted' = accepted /\ text' = text
      /\ draft' = draft /\ target' = target /\ greedy' = greedy
      /\ draft_tokens' = draft_tokens
  BY DEF Return
<1>2. VTypes'
  BY <1>1 DEF VInv, VTypes
<1>3. Drafted'
  BY <1>1 DEF VInv, Drafted, Before
<1>4. VInv'
  BY <1>2, <1>3 DEF VInv
<1>5. accepted \in Seq(Tokens) /\ text \in Seq(Tokens)
  BY DEF VInv, VTypes
<1>6. accepted = <<>> \/ Last(accepted) # Eos
  <2>1. \A i \in 1..Len(accepted) : accepted[i] # Eos
    BY DEF VInv, Drafted
  <2>2. accepted # <<>> => Len(accepted) \in 1..Len(accepted)
    BY <1>5
  <2> QED BY <2>1, <2>2 DEF Last
<1>7. Output = accepted
  BY OutputFacts
<1>8. Output' = accepted \o <<t>>
  BY <1>1, <1>6 DEF Output
<1>9. text \o (accepted \o <<t>>) = Append(text \o accepted, t)
  BY <1>5, AppendProperties, ConcatProperties, ConcatAssociative
<1> QED BY <1>1, <1>4, <1>7, <1>8, <1>9

LEMMA VStutter ==
  ASSUME VInv, UNCHANGED vars
  PROVE  VInv' /\ (text \o Output)' = text \o Output
<1>1. /\ target' = target /\ greedy' = greedy /\ text' = text /\ draft' = draft
      /\ phase' = phase /\ draft_tokens' = draft_tokens /\ accepted' = accepted
      /\ final_token' = final_token
  BY DEF vars
<1>2. VInv'
  BY <1>1 DEF VInv, VTypes, Drafted, Before
<1>3. Output' = Output
  BY <1>1 DEF Output
<1> QED BY <1>1, <1>2, <1>3

(* One step puts out nothing, or one token that the target model allows.   *)
LEMMA VStep ==
  ASSUME VInv, [Next]_vars, 0 \notin Draws
  PROVE  /\ VInv'
         /\ target' = target /\ greedy' = greedy
         /\ \/ (text \o Output)' = text \o Output
            \/ /\ Last(text \o Output) # Eos
               /\ \E t \in Allowed(target[Last(text \o Output)]) :
                    (text \o Output)' = Append(text \o Output, t)
<1>1. CASE UNCHANGED vars
  BY <1>1, VStutter DEF vars
<1>2. CASE Propose
  BY <1>2, ProposeFits DEF Propose
<1>3. CASE Commit
  BY <1>3, CommitFits DEF Commit
<1>4. ASSUME phase = "verify"
      PROVE  Last(text \o Output) # Eos /\ AllowedNow = Allowed(target[Last(text \o Output)])
  <2>1. Output = accepted
    BY <1>4, OutputFacts
  <2>2. Last(text \o accepted) = Before(At) /\ Before(At) # Eos
    BY <1>4, BeforeIsLast
  <2> QED BY <2>1, <2>2 DEF AllowedNow
<1>5. CASE phase = "verify" /\ At \in 1..K /\ draft_tokens[At] \in AllowedNow /\ Accept
  <2>1. VInv' /\ (text \o Output)' = Append(text \o Output, draft_tokens[At])
    BY <1>5, AcceptFits
  <2>2. target' = target /\ greedy' = greedy
    BY <1>5 DEF Accept
  <2> QED BY <1>4, <1>5, <2>1, <2>2
<1>6. CASE phase = "verify" /\ \E t \in AllowedNow : Return(t)
  <2>1. PICK t \in AllowedNow : Return(t)
    BY <1>6
  <2>2. t \in Tokens
    BY <1>6, AllowedIsToken
  <2>3. VInv' /\ (text \o Output)' = Append(text \o Output, t)
    BY <1>6, <2>1, <2>2, ReturnFits
  <2>4. target' = target /\ greedy' = greedy
    BY <2>1 DEF Return
  <2> QED BY <1>4, <1>6, <2>1, <2>3, <2>4
<1>7. Next => StepForms
  BY StepHasForm
<1> QED BY <1>1, <1>2, <1>3, <1>5, <1>6, <1>7 DEF StepForms

LEMMA VInvariant ==
  ASSUME 0 \notin Draws
  PROVE  Spec => []VInv
<1>1. Init => VInv
  BY VInvInit
<1>2. VInv /\ [Next]_vars => VInv'
  BY VStep
<1> QED BY <1>1, <1>2, PTL DEF Spec

(* The variables keep their types, and a result never has more accepted    *)
(* tokens than were drafted nor other ones (verify_candidates).            *)
THEOREM VerificationTypesHold ==
  ASSUME 0 \notin Draws
  PROVE  Spec => []TypeOK
<1>1. VInv => IsPrefix(accepted, draft_tokens)
  <2> SUFFICES ASSUME VInv PROVE IsPrefix(accepted, draft_tokens)
    OBVIOUS
  <2>1. CASE phase = "idle"
    <3>1. accepted = <<>> /\ K \in Nat
      BY <2>1, TokenFacts DEF VInv, Drafted
    <3>2. draft_tokens \in Seq(Tokens)
      <4>1. draft_tokens = <<>> \/ draft_tokens \in [1..K -> Tokens]
        BY DEF VInv, VTypes
      <4>2. \A f \in [1..K -> Tokens] : f \in Seq(Tokens)
        BY <3>1
      <4>3. <<>> \in Seq(Tokens)
        OBVIOUS
      <4> QED BY ONLY <4>1, <4>2, <4>3
    <3> QED BY <3>1, <3>2 DEF IsPrefix
  <2>2. CASE phase # "idle"
    <3>1. PICK n \in Nat : n = Len(accepted) /\ n <= K
      BY <2>2, TokenFacts DEF VInv, VTypes, Drafted
    <3>2. draft_tokens \in Seq(Tokens) /\ Len(draft_tokens) = K
      BY <2>2, TokenFacts DEF VInv, Drafted
    <3>3. accepted \in Seq(Tokens) /\ \A i \in 1..n : accepted[i] = draft_tokens[i]
      BY <2>2, <3>1 DEF VInv, VTypes, Drafted
    <3>4. SubSeq(accepted, 1, n) = SubSeq(draft_tokens, 1, n)
      BY <3>1, <3>2, <3>3, TokenFacts
    <3> QED BY <3>1, <3>2, <3>3, <3>4 DEF IsPrefix
  <2> QED BY <2>1, <2>2
<1>2. VInv => TypeOK
  BY <1>1 DEF VInv, VTypes, TypeOK
<1> QED BY <1>1, <1>2, VInvariant, PTL

(* verify_candidates and verify_candidates_greedy decode token by token as *)
(* the target model alone: whatever the draft model proposes, every        *)
(* accepted, corrected and bonus token is one that the target gives some   *)
(* probability after the text before it (its most probable one, greedily), *)
(* and nothing follows an end of sequence.  Draws of exactly 0 are left    *)
(* out: with one, a token of probability 0 is accepted or sampled.         *)
THEOREM DecodesAsTargetAlone ==
  ASSUME 0 \notin Draws
  PROVE  Spec => DecodesAsTarget
<1>1. Init => VInv /\ Target!DecodingInit
  BY VInvInit DEF Init, DecodingInit, Target!DecodingInit
<1>2. Spec => []VInv
  BY VInvariant
<1>3. VInv /\ [Next]_vars => [Target!Decode]_<<target, greedy, text \o Output>>
  <2> SUFFICES ASSUME VInv, [Next]_vars
               PROVE  [Target!Decode]_<<target, greedy, text \o Output>>
    OBVIOUS
  <2>1. \A w : Target!Allowed(w) = Allowed(w)
    BY DEF Target!Allowed, Target!Argmax, Target!Support, Target!Tokens,
           Allowed, Argmax, Support, Tokens
  <2>2. \A s : Target!Last(s) = Last(s)
    BY DEF Target!Last, Last
  <2> QED BY <2>1, <2>2, VStep DEF Target!Decode
<1> QED BY <1>1, <1>2, <1>3, PTL DEF Spec, DecodesAsTarget, Target!DecodingSpec

-----------------------------------------------------------------------------
(***************************************************************************)
(* Speculative decoding in Python, for any batch, models and number of     *)
(* draft tokens.                                                           *)
(***************************************************************************)
STypes ==
  /\ target_runner \in Runners /\ draft_runner \in Runners
  /\ step_phase \in {"draft", "verify", "bonus", "return"}
  /\ num_accepted \in Nat /\ rejected \in BOOLEAN
  /\ total_draft_tokens \in Nat /\ total_accepted_tokens \in Nat
  /\ input_ids \in [Rows -> Seq(Vocabulary)]
  /\ draft_tokens_list \in [Rows -> Seq(Vocabulary)]
  /\ accepted_tokens_list \in [Rows -> Seq(Vocabulary)]
  /\ \A b \in Rows : Len(input_ids[b]) > 0 /\ Len(accepted_tokens_list[b]) = num_accepted
  /\ \A b, c \in Rows : Len(input_ids[b]) = Len(input_ids[c])

(* What each part of step() leaves for the next one.                       *)
SPhases ==
  /\ step_phase = "draft" => num_accepted = 0 /\ ~rejected
  /\ step_phase # "draft" => \A b \in Rows : Len(draft_tokens_list[b]) = k
  /\ step_phase = "verify" => num_accepted < k /\ ~rejected
  /\ step_phase = "bonus" => num_accepted = k
  /\ num_accepted <= k + 1
  /\ step_phase \in {"verify", "bonus"} /\ ~rejected =>
       \A b \in Rows : \A j \in 1..num_accepted :
         accepted_tokens_list[b][j] = draft_tokens_list[b][j]

(* A token of the result follows the one before it, by the target model.   *)
InResult(b, j) ==
  target_runner[IF j = 1 THEN Last(input_ids[b]) ELSE accepted_tokens_list[b][j - 1]]
               [accepted_tokens_list[b][j]] > 0

SChecked ==
  \A b \in Rows : \A j \in 1..num_accepted : j <= k \/ ~rejected => InResult(b, j)

SInv == STypes /\ SPhases /\ SChecked

LEMMA RunnerFacts ==
  /\ k \in Nat \ {0} /\ FirstToken \in Vocabulary
  /\ \A m \in Runners : \A s, t \in Vocabulary : m[s] \in [Vocabulary -> Nat] /\ m[s][t] \in Nat
<1>1. k \in Nat \ {0} /\ FirstToken \in Vocabulary
  BY StepAssumption
<1>2. Runners \subseteq [Vocabulary -> [Vocabulary -> Nat]]
  BY StepAssumption
<1> QED BY <1>1, <1>2

LEMMA SInit ==
  ASSUME StepInit
  PROVE  SInv
<1>1. <<FirstToken>> \in Seq(Vocabulary) /\ <<>> \in Seq(Vocabulary) /\ Len(<<FirstToken>>) = 1
  BY RunnerFacts
<1>2. STypes
  <2>1. PICK s \in Seq(Vocabulary) : s = <<FirstToken>> /\ Len(s) = 1
    BY <1>1
  <2>2. input_ids = [b \in Rows |-> s]
    BY <2>1 DEF StepInit
  <2>3. /\ \A b \in Rows : input_ids[b] = s
        /\ input_ids \in [Rows -> Seq(Vocabulary)]
    BY <2>1, <2>2
  <2>4. /\ \A b \in Rows : Len(input_ids[b]) > 0
        /\ \A b, c \in Rows : Len(input_ids[b]) = Len(input_ids[c])
    <3>1. Len(s) = 1
      BY <2>1
    <3>2. \A b \in Rows : Len(input_ids[b]) = 1
      BY <2>3, <3>1
    <3> QED BY <3>2
  <2>5. /\ draft_tokens_list \in [Rows -> Seq(Vocabulary)]
        /\ accepted_tokens_list \in [Rows -> Seq(Vocabulary)]
        /\ \A b \in Rows : Len(accepted_tokens_list[b]) = 0
    BY <1>1 DEF StepInit
  <2> QED BY <2>3, <2>4, <2>5 DEF StepInit, STypes
<1>3. SPhases
  BY RunnerFacts DEF StepInit, SPhases
<1>4. SChecked
  BY DEF StepInit, SChecked
<1> QED BY <1>2, <1>3, <1>4 DEF SInv

LEMMA SDraftToken ==
  ASSUME SInv, DraftToken
  PROVE  SInv'
<1>1. PICK c \in [Rows -> Vocabulary] :
        draft_tokens_list' = [b \in Rows |-> Append(draft_tokens_list[b], c[b])]
  BY DEF DraftToken, EachFrom
<1>2. /\ step_phase = "draft" /\ target_runner' = target_runner /\ draft_runner' = draft_runner
      /\ input_ids' = input_ids /\ accepted_tokens_list' = accepted_tokens_list
      /\ num_accepted' = num_accepted /\ rejected' = rejected
      /\ total_draft_tokens' = total_draft_tokens
      /\ total_accepted_tokens' = total_accepted_tokens
      /\ step_phase' \in {"draft", "verify"}
      /\ step_phase' = "verify" => \A b \in Rows : Len(draft_tokens_list'[b]) = k
  BY DEF DraftToken, models, totals
<1>3. draft_tokens_list' \in [Rows -> Seq(Vocabulary)]
  BY <1>1 DEF SInv, STypes
<1>4. STypes'
  BY <1>2, <1>3 DEF SInv, STypes
<1>5. num_accepted = 0 /\ ~rejected /\ k > 0
  BY <1>2, RunnerFacts DEF SInv, SPhases
<1>6. SPhases'
  BY <1>2, <1>5 DEF SInv, SPhases
<1>7. SChecked'
  BY <1>2, <1>5 DEF SChecked
<1> QED BY <1>4, <1>6, <1>7 DEF SInv

(* Put keeps what was put before, and adds a token to each row.            *)
LEMMA PutFacts ==
  ASSUME STypes, NEW c \in [Rows -> Vocabulary], Put(c)
  PROVE  /\ num_accepted' = num_accepted + 1
         /\ accepted_tokens_list' \in [Rows -> Seq(Vocabulary)]
         /\ \A b \in Rows :
              /\ Len(accepted_tokens_list'[b]) = num_accepted + 1
              /\ accepted_tokens_list'[b][num_accepted + 1] = c[b]
              /\ \A j \in 1..num_accepted :
                   accepted_tokens_list'[b][j] = accepted_tokens_list[b][j]
<1>1. /\ accepted_tokens_list' = [b \in Rows |-> Append(accepted_tokens_list[b], c[b])]
      /\ num_accepted' = num_accepted + 1
  BY DEF Put
<1>2. /\ accepted_tokens_list \in [Rows -> Seq(Vocabulary)] /\ num_accepted \in Nat
      /\ \A b \in Rows : Len(accepted_tokens_list[b]) = num_accepted
  BY DEF STypes
<1>3. ASSUME NEW b \in Rows
      PROVE  /\ Len(accepted_tokens_list'[b]) = num_accepted + 1
             /\ accepted_tokens_list'[b][num_accepted + 1] = c[b]
             /\ \A j \in 1..num_accepted :
                  accepted_tokens_list'[b][j] = accepted_tokens_list[b][j]
  <2>1. PICK s \in Seq(Vocabulary), t \in Vocabulary :
          s = accepted_tokens_list[b] /\ t = c[b] /\ Len(s) = num_accepted
    BY <1>2
  <2>2. accepted_tokens_list'[b] = Append(s, t)
    BY <1>1, <2>1
  <2>3. PICK n \in Nat : n = num_accepted
    BY <1>2
  <2>4. /\ Len(Append(s, t)) = n + 1 /\ Append(s, t)[n + 1] = t
        /\ \A j \in 1..n : Append(s, t)[j] = s[j]
    BY <2>1, <2>3
  <2> QED BY <2>1, <2>2, <2>3, <2>4
<1> QED BY <1>1, <1>2, <1>3

LastPut(b) ==
  IF num_accepted = 0 THEN Last(input_ids[b]) ELSE accepted_tokens_list[b][num_accepted]

LEMMA PutChecked ==
  ASSUME STypes, NEW c \in [Rows -> Vocabulary], Put(c),
         target_runner' = target_runner, input_ids' = input_ids, NEW b \in Rows
  PROVE  /\ \A j \in 1..num_accepted : InResult(b, j)' <=> InResult(b, j)
         /\ \A j : j = num_accepted + 1 =>
              (InResult(b, j)' <=> target_runner[LastPut(b)][c[b]] > 0)
<1>1. PICK n \in Nat : n = num_accepted
  BY DEF STypes
<1>2. PICK new : /\ new = accepted_tokens_list'[b] /\ new[n + 1] = c[b]
                 /\ \A j \in 1..n : new[j] = accepted_tokens_list[b][j]
  BY <1>1, PutFacts
<1>3. ASSUME NEW j \in 1..n PROVE InResult(b, j)' <=> InResult(b, j)
  <2>1. j = 1 \/ j - 1 \in 1..n
    BY <1>1
  <2>2. /\ new[j] = accepted_tokens_list[b][j]
        /\ j # 1 => new[j - 1] = accepted_tokens_list[b][j - 1]
    BY <1>2, <2>1
  <2> QED BY <1>2, <2>2 DEF InResult
<1>4. InResult(b, n + 1)' <=> target_runner[LastPut(b)][c[b]] > 0
  <2>1. n = 0 => n + 1 = 1
    BY <1>1
  <2>2. n # 0 => n + 1 # 1 /\ (n + 1) - 1 = n /\ new[n] = accepted_tokens_list[b][n]
    BY <1>1, <1>2
  <2>3. CASE n = 0
    BY <1>1, <1>2, <2>1, <2>3 DEF InResult, LastPut
  <2>4. CASE n # 0
    BY <1>1, <1>2, <2>2, <2>4 DEF InResult, LastPut
  <2> QED BY <2>3, <2>4
<1> QED BY <1>1, <1>3, <1>4

(* The loop compares the candidate to the token put before it.             *)
LEMMA BeforeIsLastPut ==
  ASSUME SInv, step_phase = "verify", NEW b \in Rows
  PROVE  /\ BeforeCandidate(b) = LastPut(b) /\ BeforeCandidate(b) \in Vocabulary
         /\ draft_tokens_list[b][num_accepted + 1] \in Vocabulary
<1>1. PICK n \in Nat : n = num_accepted /\ n < k /\ n + 1 \in 1..k /\ (n # 0 => n \in 1..k /\ n \in 1..n)
  BY RunnerFacts DEF SInv, STypes, SPhases
<1>2. PICK d \in Seq(Vocabulary) : d = draft_tokens_list[b] /\ Len(d) = k
  BY DEF SInv, STypes, SPhases
<1>3. d[n + 1] \in Vocabulary /\ (n # 0 => d[n] \in Vocabulary)
  BY <1>1, <1>2
<1>4. n # 0 => d[n] = accepted_tokens_list[b][n]
  BY <1>1, <1>2 DEF SInv, SPhases
<1>5. Last(input_ids[b]) \in Vocabulary
  <2>1. input_ids[b] \in Seq(Vocabulary) /\ Len(input_ids[b]) > 0
    BY DEF SInv, STypes
  <2> QED BY <2>1 DEF Last
<1> QED BY <1>1, <1>2, <1>3, <1>4, <1>5 DEF BeforeCandidate, LastPut

LEMMA PutTypes ==
  ASSUME STypes, NEW c \in [Rows -> Vocabulary], Put(c), UNCHANGED models,
         UNCHANGED <<input_ids, draft_tokens_list, totals>>,
         rejected' \in BOOLEAN, step_phase' \in {"draft", "verify", "bonus", "return"}
  PROVE  STypes' /\ target_runner' = target_runner /\ input_ids' = input_ids
<1>1. /\ num_accepted' = num_accepted + 1
      /\ accepted_tokens_list' \in [Rows -> Seq(Vocabulary)]
      /\ \A b \in Rows : Len(accepted_tokens_list'[b]) = num_accepted + 1
  BY PutFacts
<1>2. /\ target_runner' = target_runner /\ draft_runner' = draft_runner
      /\ input_ids' = input_ids /\ draft_tokens_list' = draft_tokens_list
      /\ total_draft_tokens' = total_draft_tokens
      /\ total_accepted_tokens' = total_accepted_tokens
  BY DEF models, totals
<1>3. num_accepted' \in Nat
  BY <1>1 DEF STypes
<1> QED BY <1>1, <1>2, <1>3 DEF STypes

LEMMA SAccept ==
  ASSUME SInv, AcceptCandidate
  PROVE  SInv'
<1> DEFINE c == [b \in Rows |-> draft_tokens_list[b][num_accepted + 1]]
<1>1. /\ step_phase = "verify" /\ AllRows /\ Put(c) /\ UNCHANGED models
      /\ UNCHANGED <<input_ids, draft_tokens_list, totals>> /\ rejected' = rejected
      /\ draft_tokens_list' = draft_tokens_list
      /\ step_phase' = IF num_accepted' = k THEN "bonus" ELSE "verify"
  BY DEF AcceptCandidate
<1>2. c \in [Rows -> Vocabulary]
  BY <1>1, BeforeIsLastPut
<1>3. ~rejected /\ rejected' \in BOOLEAN /\ STypes
  BY <1>1 DEF SInv, STypes, SPhases
<1>4. PICK n \in Nat : n = num_accepted /\ n < k /\ n + 1 <= k /\ num_accepted' = n + 1
  <2>1. num_accepted \in Nat /\ num_accepted < k
    BY <1>1 DEF SInv, STypes, SPhases
  <2> QED BY <1>1, <1>2, <1>3, <2>1, PutFacts, RunnerFacts
<1> HIDE DEF c
<1>5. STypes' /\ target_runner' = target_runner /\ input_ids' = input_ids
  BY <1>1, <1>2, <1>3, PutTypes
<1>6. \A b \in Rows : c[b] = draft_tokens_list[b][n + 1]
  BY <1>4 DEF c
<1>7. ASSUME NEW b \in Rows, NEW j \in 1..(n + 1)
      PROVE  /\ accepted_tokens_list'[b][j] = draft_tokens_list[b][j]
             /\ InResult(b, j)'
  <2>1. CASE j = n + 1
    <3>1. accepted_tokens_list'[b][j] = c[b]
      BY <1>1, <1>2, <1>3, <1>4, <2>1, PutFacts
    <3>2. target_runner[LastPut(b)][c[b]] > 0
      BY <1>1, <1>4, <1>6, BeforeIsLastPut DEF AllRows, CanAccept
    <3> QED BY <1>1, <1>2, <1>3, <1>4, <1>5, <1>6, <2>1, <3>1, <3>2, PutChecked
  <2>2. CASE j # n + 1
    <3>1. j \in 1..n /\ j <= k
      BY <1>4, <2>2, RunnerFacts
    <3>2. accepted_tokens_list'[b][j] = accepted_tokens_list[b][j]
      BY <1>1, <1>2, <1>3, <1>4, <3>1, PutFacts
    <3>3. accepted_tokens_list[b][j] = draft_tokens_list[b][j]
      BY <1>1, <1>3, <1>4, <3>1 DEF SInv, SPhases
    <3>4. InResult(b, j)
      BY <1>4, <3>1 DEF SInv, SChecked
    <3> QED BY <1>1, <1>2, <1>3, <1>4, <1>5, <3>1, <3>2, <3>3, <3>4, PutChecked
  <2> QED BY <2>1, <2>2
<1>8. \A b \in Rows : Len(draft_tokens_list[b]) = k
  BY <1>1 DEF SInv, SPhases
<1>9. SPhases'
  <2>1. k \in Nat
    BY RunnerFacts
  <2> QED BY <1>1, <1>3, <1>4, <1>7, <1>8, <2>1 DEF SPhases
<1>10. SChecked'
  BY <1>4, <1>7 DEF SChecked
<1> QED BY <1>5, <1>9, <1>10 DEF SInv

LEMMA SReject ==
  ASSUME SInv, RejectCandidate
  PROVE  SInv'
<1>1. /\ step_phase = "verify" /\ UNCHANGED models
      /\ UNCHANGED <<input_ids, draft_tokens_list, totals>> /\ rejected' = TRUE
      /\ draft_tokens_list' = draft_tokens_list
      /\ step_phase' = IF num_accepted' = k THEN "bonus" ELSE "return"
  BY DEF RejectCandidate
<1>2. PICK c \in [Rows -> Vocabulary] :
        /\ Put(c)
        /\ \A b \in Rows : c[b] \in Modified(target_runner[BeforeCandidate(b)],
                                            draft_runner[BeforeCandidate(b)])
  BY DEF RejectCandidate, EachFrom
<1>3. ~rejected /\ rejected' \in BOOLEAN /\ STypes
  BY <1>1 DEF SInv, STypes, SPhases
<1>4. PICK n \in Nat : n = num_accepted /\ n < k /\ n + 1 <= k /\ num_accepted' = n + 1
  <2>1. num_accepted \in Nat /\ num_accepted < k
    BY <1>1 DEF SInv, STypes, SPhases
  <2> QED BY <1>1, <1>2, <1>3, <2>1, PutFacts, RunnerFacts
<1>5. STypes' /\ target_runner' = target_runner /\ input_ids' = input_ids
  BY <1>1, <1>2, <1>3, PutTypes
<1>6. ASSUME NEW b \in Rows PROVE target_runner[LastPut(b)][c[b]] > 0
  <2>1. BeforeCandidate(b) = LastPut(b) /\ BeforeCandidate(b) \in Vocabulary
    BY <1>1, BeforeIsLastPut
  <2>2. target_runner \in Runners /\ draft_runner \in Runners
    BY <1>3 DEF STypes
  <2>3. PICK p \in [Vocabulary -> Nat], q \in [Vocabulary -> Nat] :
          p = target_runner[LastPut(b)] /\ q = draft_runner[LastPut(b)]
    BY <2>1, <2>2, RunnerFacts
  <2>4. c[b] \in Modified(p, q)
    BY <1>2, <2>1, <2>3
  <2>5. \A t \in Vocabulary : p[t] > q[t] => p[t] > 0
    BY <2>3
  <2>6. p[c[b]] > 0
    BY <2>3, <2>4, <2>5 DEF Modified, Positive
  <2> QED BY <2>3, <2>6
<1>7. ASSUME NEW b \in Rows, NEW j \in 1..(n + 1) PROVE InResult(b, j)'
  <2>1. CASE j = n + 1
    BY <1>2, <1>3, <1>4, <1>5, <1>6, <2>1, PutChecked
  <2>2. CASE j # n + 1
    <3>1. j \in 1..n /\ j <= k
      BY <1>4, <2>2, RunnerFacts
    <3>2. InResult(b, j)
      BY <1>4, <3>1 DEF SInv, SChecked
    <3> QED BY <1>2, <1>3, <1>4, <1>5, <3>1, <3>2, PutChecked
  <2> QED BY <2>1, <2>2
<1>8. \A b \in Rows : Len(draft_tokens_list[b]) = k
  BY <1>1 DEF SInv, SPhases
<1>9. SPhases'
  <2>1. k \in Nat
    BY RunnerFacts
  <2> QED BY <1>1, <1>4, <1>8, <2>1 DEF SPhases
<1>10. SChecked'
  BY <1>4, <1>7 DEF SChecked
<1> QED BY <1>5, <1>9, <1>10 DEF SInv

LEMMA SBonus ==
  ASSUME SInv, SampleBonus
  PROVE  SInv'
<1>1. /\ step_phase = "bonus" /\ UNCHANGED models
      /\ UNCHANGED <<input_ids, draft_tokens_list, totals>> /\ rejected' = rejected
      /\ draft_tokens_list' = draft_tokens_list /\ step_phase' = "return"
  BY DEF SampleBonus
<1>2. PICK c \in [Rows -> Vocabulary] :
        /\ Put(c)
        /\ \A b \in Rows : c[b] \in Positive(target_runner[draft_tokens_list[b][k]])
  BY DEF SampleBonus, EachFrom
<1>3. num_accepted = k /\ rejected' \in BOOLEAN /\ STypes /\ k \in Nat \ {0}
  BY <1>1, RunnerFacts DEF SInv, STypes, SPhases
<1>4. num_accepted' = k + 1
  BY <1>2, <1>3, PutFacts
<1>5. STypes' /\ target_runner' = target_runner /\ input_ids' = input_ids
  BY <1>1, <1>2, <1>3, PutTypes
<1>6. ASSUME ~rejected, NEW b \in Rows PROVE target_runner[LastPut(b)][c[b]] > 0
  <2>1. accepted_tokens_list[b][k] = draft_tokens_list[b][k]
    <3>1. k \in 1..num_accepted
      BY <1>3
    <3> QED BY <1>1, <1>6, <3>1 DEF SInv, SPhases
  <2>2. LastPut(b) = draft_tokens_list[b][k]
    BY <1>3, <2>1 DEF LastPut
  <2> QED BY <1>2, <2>2 DEF Positive
<1>7. ASSUME NEW b \in Rows, NEW j \in 1..(k + 1), j <= k \/ ~rejected PROVE InResult(b, j)'
  <2>1. CASE j = k + 1
    <3>1. ~rejected
      BY <1>3, <1>7, <2>1
    <3> QED BY <1>2, <1>3, <1>5, <1>6, <2>1, <3>1, PutChecked
  <2>2. CASE j # k + 1
    <3>1. j \in 1..num_accepted /\ j <= k
      BY <1>3, <2>2
    <3>2. InResult(b, j)
      BY <3>1 DEF SInv, SChecked
    <3> QED BY <1>2, <1>3, <1>5, <3>1, <3>2, PutChecked
  <2> QED BY <2>1, <2>2
<1>8. SPhases'
  <2>1. \A b \in Rows : Len(draft_tokens_list[b]) = k
    BY <1>1 DEF SInv, SPhases
  <2> QED BY <1>1, <1>3, <1>4, <2>1 DEF SPhases
<1>9. SChecked'
  BY <1>1, <1>4, <1>7 DEF SChecked
<1> QED BY <1>5, <1>8, <1>9 DEF SInv

LEMMA SFinish ==
  ASSUME SInv, Finish
  PROVE  SInv'
<1>1. /\ target_runner' = target_runner /\ draft_runner' = draft_runner
      /\ input_ids' = [b \in Rows |-> input_ids[b] \o accepted_tokens_list[b]]
      /\ draft_tokens_list' = [b \in Rows |-> <<>>]
      /\ accepted_tokens_list' = [b \in Rows |-> <<>>]
      /\ num_accepted' = 0 /\ rejected' = FALSE /\ step_phase' = "draft"
      /\ total_draft_tokens' = total_draft_tokens + k
      /\ total_accepted_tokens' = total_accepted_tokens + num_accepted
  BY DEF Finish, models
<1>2. STypes /\ k \in Nat
  BY RunnerFacts DEF SInv
<1>3. ASSUME NEW b \in Rows
      PROVE  /\ input_ids'[b] \in Seq(Vocabulary)
             /\ Len(input_ids'[b]) = Len(input_ids[b]) + num_accepted
             /\ Len(input_ids'[b]) > 0
  <2>1. PICK s \in Seq(Vocabulary), t \in Seq(Vocabulary) :
          /\ s = input_ids[b] /\ t = accepted_tokens_list[b]
          /\ Len(s) > 0 /\ Len(t) = num_accepted
    BY <1>2 DEF STypes
  <2>2. input_ids'[b] = s \o t
    BY <1>1, <2>1
  <2>3. s \o t \in Seq(Vocabulary) /\ Len(s \o t) = Len(s) + Len(t)
    BY ConcatProperties
  <2>4. Len(s) + Len(t) > 0
    <3>1. Len(s) \in Nat /\ Len(t) \in Nat /\ Len(s) > 0
      BY <2>1
    <3> QED BY <3>1
  <2> QED BY <2>1, <2>2, <2>3, <2>4
<1>4. input_ids' \in [Rows -> Seq(Vocabulary)]
  BY <1>1, <1>3
<1>5. \A b, c \in Rows : Len(input_ids'[b]) = Len(input_ids'[c])
  BY <1>2, <1>3 DEF STypes
<1>6. /\ draft_tokens_list' \in [Rows -> Seq(Vocabulary)]
      /\ accepted_tokens_list' \in [Rows -> Seq(Vocabulary)]
      /\ \A b \in Rows : Len(accepted_tokens_list'[b]) = 0
  BY <1>1
<1>7. total_draft_tokens' \in Nat /\ total_accepted_tokens' \in Nat
  BY <1>1, <1>2 DEF STypes
<1>8. STypes'
  BY <1>1, <1>2, <1>3, <1>4, <1>5, <1>6, <1>7 DEF STypes
<1>9. SPhases'
  BY <1>1, <1>2 DEF SPhases
<1>10. SChecked'
  BY <1>1 DEF SChecked
<1> QED BY <1>8, <1>9, <1>10 DEF SInv

LEMMA SStutter ==
  ASSUME SInv, UNCHANGED stepVars
  PROVE  SInv'
<1>1. STypes'
  BY DEF SInv, STypes, stepVars, models, totals
<1>2. SPhases'
  BY DEF SInv, SPhases, stepVars, models, totals
<1>3. SChecked'
  BY DEF SInv, SChecked, InResult, stepVars, models, totals
<1> QED BY <1>1, <1>2, <1>3 DEF SInv

THEOREM StepInvariant ==
  StepSpec => []SInv
<1>1. StepInit => SInv
  BY SInit
<1>2. SInv /\ [StepNext]_stepVars => SInv'
  BY SDraftToken, SAccept, SReject, SBonus, SFinish, SStutter DEF StepNext
<1> QED BY <1>1, <1>2, PTL DEF StepSpec

THEOREM StepTypesHold ==
  StepSpec => []StepTypeOK
<1>1. SInv => StepTypeOK
  <2> SUFFICES ASSUME SInv PROVE StepTypeOK
    OBVIOUS
  <2>1. num_accepted \in 0..(k + 1)
    BY RunnerFacts DEF SInv, STypes, SPhases
  <2> QED BY <2>1 DEF SInv, STypes, StepTypeOK
<1> QED BY <1>1, StepInvariant, PTL

(* The elements of two sequences one after the other.                      *)
LEMMA ElementsJoined ==
  ASSUME NEW S, NEW s \in Seq(S), NEW t \in Seq(S), NEW m \in Nat, NEW n \in Nat,
         m = Len(s), n = Len(t)
  PROVE  /\ \A i \in 1..m : (s \o t)[i] = s[i]
         /\ \A i \in 1..n : (s \o t)[m + i] = t[i]
<1>1. \A i \in 1..(m + n) : (s \o t)[i] = IF i <= m THEN s[i] ELSE t[i - m]
  BY ConcatProperties
<1>2. \A i \in 1..m : i \in 1..(m + n) /\ i <= m
  OBVIOUS
<1>3. \A i \in 1..n : m + i \in 1..(m + n) /\ ~(m + i <= m) /\ (m + i) - m = i
  OBVIOUS
<1> QED BY ONLY <1>1, <1>2, <1>3

(* In every row of the batch, the tokens that the loop accepts or replaces *)
(* and, without a rejection, the bonus token, are tokens that the target   *)
(* model can put after those before them.                                  *)
THEOREM CheckedTokensFollowTarget ==
  StepSpec => []CheckedTokensFollow
<1>1. SInv => CheckedTokensFollow
  <2> SUFFICES ASSUME SInv, NEW b \in Rows, NEW j \in 1..num_accepted, j <= k \/ ~rejected
               PROVE  Follows(b, j)
    BY DEF CheckedTokensFollow
  <2>1. InResult(b, j)
    BY DEF SInv, SChecked
  <2>2. PICK s \in Seq(Vocabulary), t \in Seq(Vocabulary), m \in Nat, n \in Nat :
          /\ s = input_ids[b] /\ t = accepted_tokens_list[b]
          /\ Len(s) = m /\ m > 0 /\ Len(t) = n /\ n = num_accepted /\ j \in 1..n
    BY DEF SInv, STypes
  <2>3. /\ \A i \in 1..m : (s \o t)[i] = s[i]
        /\ \A i \in 1..n : (s \o t)[m + i] = t[i]
    <3>1. m = Len(s) /\ n = Len(t)
      BY <2>2
    <3>2. s \in Seq(Vocabulary) /\ t \in Seq(Vocabulary) /\ m \in Nat /\ n \in Nat
      OBVIOUS
    <3> QED BY ONLY <3>1, <3>2, ElementsJoined
  <2>4. (s \o t)[(m + j) - 1] = IF j = 1 THEN s[m] ELSE t[j - 1]
    <3>1. CASE j = 1
      <4>1. (m + j) - 1 = m /\ m \in 1..m
        BY <2>2, <3>1
      <4> QED BY <2>3, <3>1, <4>1
    <3>2. CASE j # 1
      <4>1. (m + j) - 1 = m + (j - 1) /\ j - 1 \in 1..n
        BY <2>2, <3>2
      <4> QED BY <2>3, <3>2, <4>1
    <3> QED BY <3>1, <3>2
  <2> QED BY <2>1, <2>2, <2>3, <2>4 DEF Follows, InResult, Last
<1> QED BY <1>1, StepInvariant, PTL
=============================================================================
