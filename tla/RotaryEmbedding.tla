-------------------------- MODULE RotaryEmbedding --------------------------
(***************************************************************************)
(* fused_rope_triton (csrc/kernels/triton/fused_rope_triton.py): rotary    *)
(* position embedding of queries and keys, in place.  One program per      *)
(* token, head and tensor loads two halves of a vector and stores them     *)
(* rotated; programs run in any order and interleaved.                     *)
(*                                                                         *)
(* Memory is flat and addressed through the strides of the tensors, which  *)
(* may be views.  Cosines and sines are integers that tell positions and   *)
(* dimensions apart; rounding is left out.                                 *)
(***************************************************************************)
EXTENDS Integers, FiniteSets, FiniteSetsExt

CONSTANTS
  RopeLaunches  \* batch, seq_len, heads of "q" and "k", head_dim, strides

ASSUME RopeAssumption ==
  \A c \in RopeLaunches :
    /\ {c.batch, c.seq_len, c.head_dim, c.heads["q"], c.heads["k"]} \subseteq Nat \ {0}
    /\ c.head_dim > 1
    /\ \A t \in {"q", "k"} : c.strides[t] \in [{"b", "s", "h", "d"} -> Nat]

VARIABLES
  rope,      \* the launch, or NoRope
  memory,    \* of the two tensors
  given,     \* history: their memory before
  programs   \* (token, head, tensor) -> where it is and what it loaded

ropeVars == <<rope, memory, given, programs>>

NoRope == <<>>

RopeInit == rope = NoRope /\ memory = <<>> /\ given = <<>> /\ programs = <<>>

-----------------------------------------------------------------------------
(* The launcher. *)
HALF_DIM == rope.head_dim \div 2

(* (block_dim lanes all work) *)
Unmasked(d) == d >= 0

Mask(d) == d < HALF_DIM

PowerOfTwo(n) == CHOOSE p \in {2 ^ i : i \in 0..n} : p >= n /\ p < 2 * n

Lanes == {d \in 0..(PowerOfTwo(HALF_DIM) - 1) : Mask(d)}

Tokens(c) == 0..(c.batch * c.seq_len - 1)

MaxHeads(c) == Max({c.heads["q"], c.heads["k"]})

Address(c, t, b, s, h, d) ==
  LET stride == c.strides[t] IN
  b * stride.b + s * stride.s + h * stride.h + d * stride.d

(* The memory of a tensor, with some cells of its neighbour behind it. *)
Extent(c, t) ==
  0..(Address(c, t, c.batch - 1, c.seq_len - 1, c.heads[t] - 1, c.head_dim - 1) + c.head_dim)

LaunchRope(c) ==
  /\ rope = NoRope
  /\ rope' = c
  /\ given' = [t \in {"q", "k"} |-> [a \in Extent(c, t) |-> a + 1]]
  /\ memory' = given'
  /\ programs' = [p \in Tokens(c) \X (0..(MaxHeads(c) - 1)) \X {"q", "k"} |->
       [pc |-> "start", x |-> <<>>]]

-----------------------------------------------------------------------------
(* The kernel.  Of a program p: *)
BatchId(p) == p[1] \div rope.seq_len
SeqId(p) == p[1] % rope.seq_len
Tensor(p) == p[3]

cos(s, d) == 2 + 3 * s + d
sin(s, d) == 1 + 5 * s + 2 * d

FirstPtr(p, d) == Address(rope, Tensor(p), BatchId(p), SeqId(p), p[2], d)
SecondPtr(p, d) == FirstPtr(p, d + HALF_DIM)

HeadExists(p) == p[2] < rope.heads[Tensor(p)]

Load(p) ==
  LET cells == memory[Tensor(p)] IN
  /\ programs[p].pc = "start" /\ HeadExists(p)
  /\ programs' = [programs EXCEPT ![p] =
       [pc |-> "store", x |-> [d \in Lanes |-> [first |-> cells[FirstPtr(p, d)],
                                               second |-> cells[SecondPtr(p, d)]]]]]
  /\ UNCHANGED <<rope, memory, given>>

(* A program of a head the tensor does not have. *)
Skip(p) ==
  /\ programs[p].pc = "start" /\ ~HeadExists(p)
  /\ programs' = [programs EXCEPT ![p].pc = "done"]
  /\ UNCHANGED <<rope, memory, given>>

RotatedFirst(x, s, d) == x.first * cos(s, d) - x.second * sin(s, d)
RotatedSecond(x, s, d) == x.first * sin(s, d) + x.second * cos(s, d)

(* Every lane d stores what[d] at where[d]. *)
Put(cells, where, what) ==
  [a \in DOMAIN cells |->
     IF \E d \in Lanes : where[d] = a
     THEN what[CHOOSE d \in Lanes : where[d] = a] ELSE cells[a]]

(* The two stores, one after the other. *)
StoreHalves(p) ==
  LET x == programs[p].x
      first == [d \in Lanes |-> FirstPtr(p, d)]
      second == [d \in Lanes |-> SecondPtr(p, d)]
      new_first == [d \in Lanes |-> RotatedFirst(x[d], SeqId(p), d)]
      new_second == [d \in Lanes |-> RotatedSecond(x[d], SeqId(p), d)]
  IN
  /\ programs[p].pc = "store"
  /\ memory' = [memory EXCEPT ![Tensor(p)] =
       Put(Put(@, first, new_first), second, new_second)]
  /\ programs' = [programs EXCEPT ![p] = [pc |-> "done", x |-> <<>>]]
  /\ UNCHANGED <<rope, given>>

RopeNext ==
  \/ \E c \in RopeLaunches : LaunchRope(c)
  \/ \E p \in DOMAIN programs : Load(p) \/ Skip(p) \/ StoreHalves(p)

RopeSpec == RopeInit /\ [][RopeNext]_ropeVars

-----------------------------------------------------------------------------
RopeTypeOK ==
  /\ rope # NoRope => rope \in RopeLaunches
  /\ \A p \in DOMAIN programs :
       /\ programs[p].pc \in {"start", "store", "done"}
       /\ programs[p].pc = "store" => DOMAIN programs[p].x = Lanes
  /\ \A t \in DOMAIN memory : DOMAIN memory[t] = DOMAIN given[t]

(* fused_rope_triton "applies Rotary Position Embedding (RoPE) in-place"   *)
(* (fused_rope_triton.py:106): when the grid is done every pair of         *)
(* elements of every query and key head was turned once, by the angle of   *)
(* its own position and dimension, and all other memory is as it was,      *)
(* whatever the order of the programs, the numbers of heads and the        *)
(* strides.  Needs strides under which elements do not overlap.            *)
RotatedOnce ==
  (rope # NoRope /\ \A p \in DOMAIN programs : programs[p].pc = "done") =>
    \A t \in {"q", "k"} :
      LET At(e, d) == Address(rope, t, e[1], e[2], e[3], d)
          Heads == (0..(rope.batch - 1)) \X (0..(rope.seq_len - 1)) \X (0..(rope.heads[t] - 1))
          Turned == {At(e, d) : e \in Heads, d \in 0..(2 * HALF_DIM - 1)}
      IN
      /\ \A e \in Heads : \A d \in 0..(HALF_DIM - 1) :
           LET x == [first |-> given[t][At(e, d)],
                     second |-> given[t][At(e, d + HALF_DIM)]]
           IN /\ memory[t][At(e, d)] = RotatedFirst(x, e[2], d)
              /\ memory[t][At(e, d + HALF_DIM)] = RotatedSecond(x, e[2], d)
      /\ \A a \in DOMAIN memory[t] \ Turned : memory[t][a] = given[t][a]
=============================================================================
