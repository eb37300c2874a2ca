---------------------------- MODULE SumTheorems ----------------------------
(***************************************************************************)
(* Facts about SumFunctionOnSet of the community module Functions, which   *)
(* the specifications add bytes up with: adding an index adds its value,   *)
(* whatever order the fold takes the indices in, and the sum of a set is   *)
(* that of its parts.  The fold is a recursive function, so the facts are  *)
(* proved from a least counterexample, counted by its indices.  The same   *)
(* holds of the product of numbers that are not 0, which is not 0.         *)
(***************************************************************************)
EXTENDS Integers, Functions, FiniteSetTheorems, WellFoundedInduction, TLAPS

(* OpToRel with the order on numbers as a set, which the library's facts   *)
(* on well-founded relations take.                                         *)
NatLess == OpToRel(<, Nat)

LEMMA NatLessIsWellFounded == IsWellFoundedOn(NatLess, Nat)
BY NatLessThanWellFounded DEF NatLess

LEMMA NatLessIsLess ==
  ASSUME NEW a \in Nat, NEW b \in Nat
  PROVE  <<a, b>> \in NatLess <=> a < b
BY DEF NatLess, OpToRel

(* A set of numbers that is not empty has a least one. *)
LEMMA LeastNumber ==
  ASSUME NEW S \in SUBSET Nat, S # {}
  PROVE  \E m \in S : \A k \in S : m <= k
<1>1. PICK m \in S : \A k \in S : ~(<<k, m>> \in NatLess)
  BY WFMin, NatLessIsWellFounded
<1>2. ASSUME NEW k \in S PROVE m <= k
  <2>1. k \in Nat /\ m \in Nat /\ ~(k < m)
    BY <1>1, NatLessIsLess
  <2> QED BY <2>1
<1> QED BY <1>2

(* A set of finite sets that is not empty has a smallest one. *)
LEMMA SmallestSet ==
  ASSUME NEW Q, Q # {}, \A s \in Q : IsFiniteSet(s)
  PROVE  \E m \in Q : \A s \in Q : Cardinality(m) <= Cardinality(s)
<1> DEFINE N == {Cardinality(s) : s \in Q}
<1>1. N \in SUBSET Nat /\ N # {}
  BY FS_CardinalityType
<1>2. PICK n \in N : \A k \in N : n <= k
  <2> HIDE DEF N
  <2> QED BY <1>1, LeastNumber
<1> QED BY <1>2

(* What is left of a finite set is smaller. *)
LEMMA Rest ==
  ASSUME NEW s, IsFiniteSet(s), NEW x \in s
  PROVE  /\ IsFiniteSet(s \ {x}) /\ Cardinality(s \ {x}) \in Nat
         /\ Cardinality(s) = Cardinality(s \ {x}) + 1
<1>1. IsFiniteSet(s \ {x}) /\ Cardinality(s \ {x}) = Cardinality(s) - 1
  BY FS_RemoveElement
<1>2. Cardinality(s) \in Nat /\ Cardinality(s \ {x}) \in Nat
  BY <1>1, FS_CardinalityType
<1> QED BY <1>1, <1>2

-----------------------------------------------------------------------------
(* The fold: the index it takes, and the function it recurs with.          *)
Chosen(s) == CHOOSE x \in s : TRUE

Added(it, v, s) == IF s = {} THEN 0 ELSE v[Chosen(s)] + it[s \ {Chosen(s)}]

Adds(it, v, U) == it = [s \in SUBSET U |-> Added(it, v, s)]

AddsSmall(it, v, U, n) ==
  /\ DOMAIN it = {s \in SUBSET U : Cardinality(s) <= n}
  /\ \A s \in DOMAIN it : it[s] = Added(it, v, s)

Adder(v, U) == CHOOSE it : Adds(it, v, U)

LEMMA ChosenIsIn == \A s : s # {} => Chosen(s) \in s
BY DEF Chosen

LEMMA SumIsAdded ==
  ASSUME NEW v, NEW U
  PROVE  SumFunctionOnSet(v, U) = Adder(v, U)[U]
BY DEF SumFunctionOnSet, FoldFunctionOnSet, MapThenFoldSet, Adder, Adds, Added,
       Chosen

(* Up to every size there is a function that adds as the fold does. *)
LEMMA AddsUpTo ==
  ASSUME NEW v, NEW U, IsFiniteSet(U), NEW n \in Nat
  PROVE  \E it : AddsSmall(it, v, U, n)
<1> DEFINE Upto(k) == {s \in SUBSET U : Cardinality(s) <= k}
           Good(k) == \E it : /\ DOMAIN it = Upto(k)
                              /\ \A s \in Upto(k) : it[s] = Added(it, v, s)
           K == {k \in Nat : ~Good(k)}
<1>0. \A s \in SUBSET U : IsFiniteSet(s) /\ Cardinality(s) \in Nat
  BY FS_Subset, FS_CardinalityType
<1>1. Good(0)
  <2> DEFINE it == [s \in Upto(0) |-> 0]
  <2>1. \A s \in Upto(0) : s = {}
    BY <1>0, FS_EmptySet
  <2>2. \A s \in Upto(0) : it[s] = Added(it, v, s)
    BY <2>1 DEF Added
  <2> QED BY <2>2
<1>2. ASSUME NEW k \in Nat, Good(k) PROVE Good(k + 1)
  <2>1. PICK g : DOMAIN g = Upto(k) /\ \A s \in Upto(k) : g[s] = Added(g, v, s)
    BY <1>2
  <2> DEFINE it == [s \in Upto(k + 1) |-> Added(g, v, s)]
  <2>2. \A s \in Upto(k) : s \in Upto(k + 1) /\ it[s] = g[s]
    BY <1>0, <2>1
  <2>3. ASSUME NEW s \in Upto(k + 1) PROVE it[s] = Added(it, v, s)
    <3>1. CASE s = {}
      BY <3>1 DEF Added
    <3>2. CASE s # {}
      <4>1. Chosen(s) \in s /\ s \in SUBSET U /\ Cardinality(s) <= k + 1
        BY <3>2, ChosenIsIn
      <4>2. s \ {Chosen(s)} \in Upto(k)
        <5>1. /\ Cardinality(s) = Cardinality(s \ {Chosen(s)}) + 1
              /\ Cardinality(s \ {Chosen(s)}) \in Nat
          BY <1>0, <4>1, Rest
        <5>2. Cardinality(s \ {Chosen(s)}) <= k
          BY <4>1, <5>1
        <5> QED BY <4>1, <5>2
      <4>3. it[s \ {Chosen(s)}] = g[s \ {Chosen(s)}]
        BY <2>2, <4>2
      <4>4. it[s] = Added(g, v, s)
        OBVIOUS
      <4> HIDE DEF it
      <4> QED BY <4>3, <4>4 DEF Added
    <3> QED BY <3>1, <3>2
  <2>4. DOMAIN it = Upto(k + 1)
    OBVIOUS
  <2> HIDE DEF it
  <2> QED BY <2>3, <2>4
<1> HIDE DEF Good
<1>3. K = {}
  <2> SUFFICES ASSUME K # {} PROVE FALSE
    OBVIOUS
  <2>1. PICK m \in K : \A k \in K : m <= k
    <3>1. K \in SUBSET Nat
      OBVIOUS
    <3> HIDE DEF K
    <3> QED BY <3>1, LeastNumber
  <2>2. m \in Nat /\ m # 0 /\ ~Good(m)
    BY <1>1, <2>1
  <2>3. m - 1 \in Nat /\ m - 1 \notin K
    BY <2>1, <2>2
  <2>4. Good(m - 1)
    BY <2>3
  <2>5. Good(m - 1 + 1)
    BY <1>2, <2>3, <2>4
  <2> QED BY <2>2, <2>5
<1>4. Good(n)
  BY <1>3
<1>5. PICK it : DOMAIN it = Upto(n) /\ \A s \in Upto(n) : it[s] = Added(it, v, s)
  BY <1>4 DEF Good
<1>6. AddsSmall(it, v, U, n)
  BY <1>5 DEF AddsSmall
<1> QED BY <1>6

(* The function of the fold exists, and adds. *)
LEMMA AdderAdds ==
  ASSUME NEW v, NEW U, IsFiniteSet(U)
  PROVE  \A s \in SUBSET U : Adder(v, U)[s] = Added(Adder(v, U), v, s)
<1>1. PICK n \in Nat : n = Cardinality(U)
  BY FS_CardinalityType
<1>2. PICK it : AddsSmall(it, v, U, n)
  BY AddsUpTo
<1>3. {s \in SUBSET U : Cardinality(s) <= n} = SUBSET U
  BY <1>1, FS_Subset
<1> DEFINE all == [s \in SUBSET U |-> it[s]]
<1>4. ASSUME NEW s \in SUBSET U PROVE all[s] = Added(all, v, s)
  <2>1. all[s] = it[s] /\ it[s] = Added(it, v, s)
    BY <1>2, <1>3 DEF AddsSmall
  <2>2. all[s \ {Chosen(s)}] = it[s \ {Chosen(s)}]
    OBVIOUS
  <2> HIDE DEF all
  <2> QED BY <2>1, <2>2 DEF Added
<1>5. all = [s \in SUBSET U |-> Added(all, v, s)]
  <2>1. all = [s \in SUBSET U |-> all[s]]
    OBVIOUS
  <2> HIDE DEF all
  <2> QED BY <1>4, <2>1
<1> HIDE DEF all
<1>6. Adds(Adder(v, U), v, U)
  BY <1>5 DEF Adds, Adder
<1> HIDE DEF Adds
<1>7. Adder(v, U) = [s \in SUBSET U |-> Added(Adder(v, U), v, s)]
  BY <1>6 DEF Adds
<1> QED BY <1>7

(* It adds the same whatever the set it is made for. *)
LEMMA AddersAgree ==
  ASSUME NEW v, NEW U, IsFiniteSet(U), NEW A \in SUBSET U
  PROVE  Adder(v, A)[A] = Adder(v, U)[A]
<1> DEFINE Q == {s \in SUBSET A : Adder(v, A)[s] # Adder(v, U)[s]}
<1>0. IsFiniteSet(A) /\ \A s \in SUBSET A : IsFiniteSet(s)
  BY FS_Subset
<1> SUFFICES ASSUME Q # {} PROVE FALSE
  OBVIOUS
<1>1. PICK m \in Q : \A s \in Q : Cardinality(m) <= Cardinality(s)
  <2>1. \A s \in Q : IsFiniteSet(s)
    BY <1>0
  <2> HIDE DEF Q
  <2> QED BY <2>1, SmallestSet
<1>2. m \in SUBSET A /\ m \in SUBSET U /\ Adder(v, A)[m] # Adder(v, U)[m]
  BY <1>1
<1>3. /\ Adder(v, A)[m] = Added(Adder(v, A), v, m)
      /\ Adder(v, U)[m] = Added(Adder(v, U), v, m)
  BY <1>0, <1>2, AdderAdds
<1>4. m # {}
  BY <1>2, <1>3 DEF Added
<1>5. Chosen(m) \in m
  BY <1>4, ChosenIsIn
<1>6. m \ {Chosen(m)} \in SUBSET A /\ m \ {Chosen(m)} \notin Q
  <2>1. /\ Cardinality(m \ {Chosen(m)}) \in Nat
        /\ Cardinality(m) = Cardinality(m \ {Chosen(m)}) + 1
    BY <1>0, <1>2, <1>5, Rest
  <2>2. ~(Cardinality(m) <= Cardinality(m \ {Chosen(m)}))
    BY <2>1
  <2> QED BY <1>1, <1>2, <2>2
<1>7. Adder(v, A)[m \ {Chosen(m)}] = Adder(v, U)[m \ {Chosen(m)}]
  BY <1>6
<1> QED BY <1>2, <1>3, <1>7 DEF Added

-----------------------------------------------------------------------------
(* What the fold takes first it adds to the sum of the rest. *)
LEMMA SumTakes ==
  ASSUME NEW v, NEW S, IsFiniteSet(S), S # {}
  PROVE  /\ Chosen(S) \in S
         /\ SumFunctionOnSet(v, S) =
              v[Chosen(S)] + SumFunctionOnSet(v, S \ {Chosen(S)})
<1>1. Adder(v, S)[S] = Added(Adder(v, S), v, S)
  BY AdderAdds
<1>2. Adder(v, S)[S \ {Chosen(S)}] = Adder(v, S \ {Chosen(S)})[S \ {Chosen(S)}]
  BY AddersAgree
<1> QED BY <1>1, <1>2, SumIsAdded, ChosenIsIn DEF Added

(* Nothing sums up to 0. *)
LEMMA SumOfNothing ==
  ASSUME NEW v
  PROVE  SumFunctionOnSet(v, {}) = 0
<1>1. Adder(v, {})[{}] = Added(Adder(v, {}), v, {})
  BY AdderAdds, FS_EmptySet
<1> QED BY <1>1, SumIsAdded DEF Added

(* A sum of numbers is a number. *)
LEMMA SumIsNat ==
  ASSUME NEW v, NEW S, IsFiniteSet(S), \A x \in S : v[x] \in Nat
  PROVE  SumFunctionOnSet(v, S) \in Nat
<1> DEFINE Q == {s \in SUBSET S : SumFunctionOnSet(v, s) \notin Nat}
<1>0. \A s \in SUBSET S : IsFiniteSet(s)
  BY FS_Subset
<1> SUFFICES ASSUME Q # {} PROVE FALSE
  OBVIOUS
<1>1. PICK m \in Q : \A s \in Q : Cardinality(m) <= Cardinality(s)
  <2>1. \A s \in Q : IsFiniteSet(s)
    BY <1>0
  <2> HIDE DEF Q
  <2> QED BY <2>1, SmallestSet
<1>2. m \in SUBSET S /\ SumFunctionOnSet(v, m) \notin Nat /\ m # {}
  BY <1>1, SumOfNothing
<1>3. /\ Chosen(m) \in m
      /\ SumFunctionOnSet(v, m) =
           v[Chosen(m)] + SumFunctionOnSet(v, m \ {Chosen(m)})
  BY <1>0, <1>2, SumTakes
<1>4. m \ {Chosen(m)} \in SUBSET S /\ m \ {Chosen(m)} \notin Q
  <2>1. /\ Cardinality(m \ {Chosen(m)}) \in Nat
        /\ Cardinality(m) = Cardinality(m \ {Chosen(m)}) + 1
    BY <1>0, <1>2, <1>3, Rest
  <2>2. ~(Cardinality(m) <= Cardinality(m \ {Chosen(m)}))
    BY <2>1
  <2> QED BY <1>1, <1>2, <2>2
<1>5. SumFunctionOnSet(v, m \ {Chosen(m)}) \in Nat /\ v[Chosen(m)] \in Nat
  BY <1>2, <1>3, <1>4
<1> QED BY <1>2, <1>3, <1>5

(* Taking any index out takes its value off the sum. *)
LEMMA SumWithout ==
  ASSUME NEW v, NEW S, IsFiniteSet(S), \A x \in S : v[x] \in Nat, NEW p \in S
  PROVE  SumFunctionOnSet(v, S) = v[p] + SumFunctionOnSet(v, S \ {p})
<1> DEFINE Sum(s) == SumFunctionOnSet(v, s)
           Fails(s) == \E x \in s : Sum(s) # v[x] + Sum(s \ {x})
           Q == {s \in SUBSET S : Fails(s)}
<1>0. \A s \in SUBSET S : IsFiniteSet(s) /\ Sum(s) \in Nat
  BY FS_Subset, SumIsNat
<1> SUFFICES ASSUME Q # {} PROVE FALSE
  OBVIOUS
<1>1. PICK m \in Q : \A s \in Q : Cardinality(m) <= Cardinality(s)
  <2>1. \A s \in Q : IsFiniteSet(s)
    BY <1>0
  <2> HIDE DEF Q
  <2> QED BY <2>1, SmallestSet
<1>2. m \in SUBSET S
  BY <1>1
<1>3. PICK x \in m : Sum(m) # v[x] + Sum(m \ {x})
  BY <1>1
<1>4. PICK y \in m : Sum(m) = v[y] + Sum(m \ {y})
  BY <1>0, <1>2, <1>3, SumTakes
<1>5. x # y
  BY <1>3, <1>4
<1>6. ASSUME NEW z \in m PROVE ~Fails(m \ {z})
  <2>1. /\ Cardinality(m \ {z}) \in Nat
        /\ Cardinality(m) = Cardinality(m \ {z}) + 1
    BY <1>0, <1>2, Rest
  <2>2. ~(Cardinality(m) <= Cardinality(m \ {z}))
    BY <2>1
  <2>3. m \ {z} \in SUBSET S /\ m \ {z} \notin Q
    BY <1>1, <1>2, <2>2
  <2> QED BY <2>3
<1>7. Sum(m \ {y}) = v[x] + Sum((m \ {y}) \ {x})
  BY <1>5, <1>6
<1>8. Sum(m \ {x}) = v[y] + Sum((m \ {x}) \ {y})
  BY <1>5, <1>6
<1>9. (m \ {y}) \ {x} = (m \ {x}) \ {y} /\ (m \ {y}) \ {x} \in SUBSET S
  BY <1>2
<1>10. v[x] \in Nat /\ v[y] \in Nat /\ Sum((m \ {y}) \ {x}) \in Nat
  BY <1>0, <1>2, <1>9
<1> HIDE DEF Sum
<1>11. PICK a \in Nat, b \in Nat, r \in Nat :
         v[x] = a /\ v[y] = b /\ Sum((m \ {y}) \ {x}) = r
  BY <1>10
<1>12. Sum(m) = b + (a + r) /\ Sum(m \ {x}) = b + r
  BY <1>4, <1>7, <1>8, <1>9, <1>11
<1>13. Sum(m) = v[x] + Sum(m \ {x})
  BY <1>11, <1>12
<1> QED BY <1>3, <1>13

(* Adding an index adds its value. *)
LEMMA SumWith ==
  ASSUME NEW v, NEW S, IsFiniteSet(S), NEW p, p \notin S,
         \A x \in S \cup {p} : v[x] \in Nat
  PROVE  SumFunctionOnSet(v, S \cup {p}) = SumFunctionOnSet(v, S) + v[p]
<1>1. IsFiniteSet(S \cup {p})
  BY FS_AddElement
<1>2. SumFunctionOnSet(v, S \cup {p}) =
        v[p] + SumFunctionOnSet(v, (S \cup {p}) \ {p})
  BY <1>1, SumWithout
<1>3. (S \cup {p}) \ {p} = S
  OBVIOUS
<1>4. SumFunctionOnSet(v, S) \in Nat /\ v[p] \in Nat
  BY SumIsNat
<1> QED BY <1>2, <1>3, <1>4

(* The sum looks at the values of its indices only. *)
LEMMA SumOfSame ==
  ASSUME NEW v, NEW w, NEW S, IsFiniteSet(S), \A x \in S : v[x] = w[x]
  PROVE  SumFunctionOnSet(v, S) = SumFunctionOnSet(w, S)
<1> DEFINE Q == {s \in SUBSET S : SumFunctionOnSet(v, s) # SumFunctionOnSet(w, s)}
<1>0. \A s \in SUBSET S : IsFiniteSet(s)
  BY FS_Subset
<1> SUFFICES ASSUME Q # {} PROVE FALSE
  OBVIOUS
<1>1. PICK m \in Q : \A s \in Q : Cardinality(m) <= Cardinality(s)
  <2>1. \A s \in Q : IsFiniteSet(s)
    BY <1>0
  <2> HIDE DEF Q
  <2> QED BY <2>1, SmallestSet
<1>2. m \in SUBSET S /\ SumFunctionOnSet(v, m) # SumFunctionOnSet(w, m) /\ m # {}
  BY <1>1, SumOfNothing
<1>3. /\ Chosen(m) \in m
      /\ SumFunctionOnSet(v, m) =
           v[Chosen(m)] + SumFunctionOnSet(v, m \ {Chosen(m)})
      /\ SumFunctionOnSet(w, m) =
           w[Chosen(m)] + SumFunctionOnSet(w, m \ {Chosen(m)})
  BY <1>0, <1>2, SumTakes
<1>4. m \ {Chosen(m)} \in SUBSET S /\ m \ {Chosen(m)} \notin Q
  <2>1. /\ Cardinality(m \ {Chosen(m)}) \in Nat
        /\ Cardinality(m) = Cardinality(m \ {Chosen(m)}) + 1
    BY <1>0, <1>2, <1>3, Rest
  <2>2. ~(Cardinality(m) <= Cardinality(m \ {Chosen(m)}))
    BY <2>1
  <2> QED BY <1>1, <1>2, <2>2
<1>5. v[Chosen(m)] = w[Chosen(m)]
  BY <1>2, <1>3
<1> QED BY <1>2, <1>3, <1>4, <1>5

(* Part of the indices adds up to no more than all of them. *)
LEMMA SumOfPart ==
  ASSUME NEW v, NEW S, IsFiniteSet(S), \A x \in S : v[x] \in Nat,
         NEW T \in SUBSET S
  PROVE  SumFunctionOnSet(v, T) <= SumFunctionOnSet(v, S)
<1> DEFINE Sum(s) == SumFunctionOnSet(v, s)
           Q == {s \in SUBSET S : T \subseteq s /\ ~(Sum(T) <= Sum(s))}
<1>0. \A s \in SUBSET S : IsFiniteSet(s) /\ Sum(s) \in Nat
  BY FS_Subset, SumIsNat
<1> SUFFICES ASSUME Q # {} PROVE FALSE
  BY <1>0
<1>1. PICK m \in Q : \A s \in Q : Cardinality(m) <= Cardinality(s)
  <2>1. \A s \in Q : IsFiniteSet(s)
    BY <1>0
  <2> HIDE DEF Q
  <2> QED BY <2>1, SmallestSet
<1>2. PICK x \in m : x \notin T
  <2>1. m # T /\ T \subseteq m
    BY <1>0, <1>1
  <2> QED BY <2>1
<1>3. m \in SUBSET S /\ IsFiniteSet(m) /\ m \ {x} \in SUBSET S /\ T \subseteq m \ {x}
  BY <1>0, <1>1, <1>2
<1>4. Cardinality(m \ {x}) = Cardinality(m) - 1 /\ Cardinality(m) \in Nat
  BY <1>2, <1>3, FS_RemoveElement, FS_CardinalityType
<1>5. m \ {x} \notin Q
  <2> HIDE DEF Q
  <2> QED BY <1>1, <1>4
<1>6. Sum(T) <= Sum(m \ {x})
  BY <1>3, <1>5
<1>7. Sum(m) = v[x] + Sum(m \ {x})
  BY <1>2, <1>3, SumWithout
<1>8. v[x] \in Nat /\ Sum(T) \in Nat /\ Sum(m \ {x}) \in Nat /\ ~(Sum(T) <= Sum(m))
  BY <1>0, <1>1, <1>2, <1>3
<1> HIDE DEF Sum
<1> QED BY <1>6, <1>7, <1>8

(* The sum over two sets, and over many, that have nothing in common.      *)
LEMMA SumOfTwo ==
  ASSUME NEW v, NEW S, NEW T, IsFiniteSet(S), IsFiniteSet(T), S \cap T = {},
         \A x \in S \cup T : v[x] \in Nat
  PROVE  SumFunctionOnSet(v, S \cup T) = SumFunctionOnSet(v, S) + SumFunctionOnSet(v, T)
<1> DEFINE Sum(s) == SumFunctionOnSet(v, s)
           Q == {s \in SUBSET T : Sum(S \cup s) # Sum(S) + Sum(s)}
<1>0. \A s \in SUBSET T : IsFiniteSet(s) /\ IsFiniteSet(S \cup s)
  BY FS_Subset, FS_Union
<1>1. \A s \in SUBSET T : Sum(s) \in Nat /\ Sum(S \cup s) \in Nat /\ Sum(S) \in Nat
  <2>1. ASSUME NEW s \in SUBSET T PROVE Sum(s) \in Nat
    BY <1>0, SumIsNat
  <2>2. ASSUME NEW s \in SUBSET T PROVE Sum(S \cup s) \in Nat
    <3>1. \A x \in S \cup s : v[x] \in Nat
      OBVIOUS
    <3> QED BY <1>0, <3>1, SumIsNat
  <2>3. Sum(S) \in Nat
    BY SumIsNat
  <2> QED BY <2>1, <2>2, <2>3
<1> SUFFICES ASSUME Q # {} PROVE FALSE
  OBVIOUS
<1>2. PICK m \in Q : \A s \in Q : Cardinality(m) <= Cardinality(s)
  <2>1. \A s \in Q : IsFiniteSet(s)
    BY <1>0
  <2> HIDE DEF Q
  <2> QED BY <2>1, SmallestSet
<1>3. m \in SUBSET T /\ IsFiniteSet(m) /\ Sum(S \cup m) # Sum(S) + Sum(m)
  BY <1>0, <1>2
<1>4. m # {}
  <2>1. CASE m = {}
    <3>1. S \cup m = S /\ Sum(m) = 0
      BY <2>1, SumOfNothing
    <3> QED BY <1>1, <1>3, <3>1
  <2> QED BY <2>1
<1>5. PICK x \in m : TRUE
  BY <1>4
<1>6. m \ {x} \in SUBSET T /\ m \ {x} \notin Q
  <2>1. /\ Cardinality(m \ {x}) \in Nat
        /\ Cardinality(m) = Cardinality(m \ {x}) + 1
    BY <1>3, <1>5, Rest
  <2>2. ~(Cardinality(m) <= Cardinality(m \ {x}))
    BY <2>1
  <2> HIDE DEF Q
  <2> QED BY <1>2, <1>3, <2>2
<1>7. Sum(S \cup (m \ {x})) = Sum(S) + Sum(m \ {x})
  BY <1>6
<1>8. Sum(m) = v[x] + Sum(m \ {x})
  BY <1>3, <1>5, SumWithout
<1>9. Sum(S \cup m) = v[x] + Sum(S \cup (m \ {x}))
  <2>1. (S \cup m) \ {x} = S \cup (m \ {x}) /\ x \in S \cup m
    BY <1>3, <1>5
  <2>2. IsFiniteSet(S \cup m) /\ \A y \in S \cup m : v[y] \in Nat
    BY <1>0, <1>3
  <2>3. Sum(S \cup m) = v[x] + Sum((S \cup m) \ {x})
    BY <2>1, <2>2, SumWithout
  <2> QED BY <2>1, <2>3
<1>10. v[x] \in Nat /\ Sum(S) \in Nat /\ Sum(m \ {x}) \in Nat
  BY <1>1, <1>3, <1>5, <1>6
<1> HIDE DEF Sum
<1> QED BY <1>3, <1>7, <1>8, <1>9, <1>10

LEMMA SumOfParts ==
  ASSUME NEW v, NEW W, IsFiniteSet(W), NEW P, NEW sums,
         \A w \in W : /\ IsFiniteSet(P[w]) /\ \A x \in P[w] : v[x] \in Nat
                      /\ sums[w] = SumFunctionOnSet(v, P[w]),
         \A w, u \in W : w # u => P[w] \cap P[u] = {},
         NEW U, \A x : x \in U <=> \E w \in W : x \in P[w]
  PROVE  SumFunctionOnSet(sums, W) = SumFunctionOnSet(v, U)
<1> DEFINE All(s) == UNION {P[w] : w \in s}
           Good(s) == /\ IsFiniteSet(All(s))
                      /\ SumFunctionOnSet(sums, s) = SumFunctionOnSet(v, All(s))
           Q == {s \in SUBSET W : ~Good(s)}
<1>0. \A s \in SUBSET W : IsFiniteSet(s)
  BY FS_Subset
<1>1. \A w \in W : sums[w] \in Nat
  BY SumIsNat
<1> SUFFICES ASSUME Q # {} PROVE FALSE
  <2>1. All(W) = U /\ W \in SUBSET W
    OBVIOUS
  <2>2. Good(W) => SumFunctionOnSet(sums, W) = SumFunctionOnSet(v, U)
    BY <2>1
  <2> HIDE DEF Good, All
  <2> QED BY <2>1, <2>2
<1>2. PICK m \in Q : \A s \in Q : Cardinality(m) <= Cardinality(s)
  <2>1. \A s \in Q : IsFiniteSet(s)
    BY <1>0
  <2> HIDE DEF Q
  <2> QED BY <2>1, SmallestSet
<1>3. m \in SUBSET W /\ IsFiniteSet(m) /\ ~Good(m)
  BY <1>0, <1>2
<1>4. m # {}
  <2>1. CASE m = {}
    <3>1. All(m) = {} /\ IsFiniteSet({})
      BY <2>1, FS_EmptySet
    <3>2. SumFunctionOnSet(sums, m) = 0 /\ SumFunctionOnSet(v, All(m)) = 0
      BY <2>1, <3>1, SumOfNothing
    <3> QED BY <1>3, <3>1, <3>2
  <2> QED BY <2>1
<1>5. PICK x \in m : TRUE
  BY <1>4
<1>6. m \ {x} \in SUBSET W /\ m \ {x} \notin Q
  <2>1. /\ Cardinality(m \ {x}) \in Nat
        /\ Cardinality(m) = Cardinality(m \ {x}) + 1
    BY <1>3, <1>5, Rest
  <2>2. ~(Cardinality(m) <= Cardinality(m \ {x}))
    BY <2>1
  <2> HIDE DEF Q
  <2> QED BY <1>2, <1>3, <2>2
<1>7. Good(m \ {x})
  BY <1>6
<1>8. /\ All(m) = All(m \ {x}) \cup P[x] /\ All(m \ {x}) \cap P[x] = {}
      /\ \A y \in All(m \ {x}) \cup P[x] : v[y] \in Nat
  BY <1>3, <1>5
<1>9. SumFunctionOnSet(sums, m) = sums[x] + SumFunctionOnSet(sums, m \ {x})
  <2>1. \A w \in m : sums[w] \in Nat
    BY <1>1, <1>3
  <2> QED BY <1>3, <1>5, <2>1, SumWithout
<1>10. IsFiniteSet(P[x]) /\ sums[x] = SumFunctionOnSet(v, P[x]) /\ sums[x] \in Nat
  BY <1>1, <1>3, <1>5
<1>11. IsFiniteSet(All(m)) /\ SumFunctionOnSet(v, All(m))
         = SumFunctionOnSet(v, All(m \ {x})) + SumFunctionOnSet(v, P[x])
  <2> HIDE DEF All
  <2>1. IsFiniteSet(All(m \ {x}))
    BY <1>7
  <2>2. PICK A : A = All(m \ {x}) /\ IsFiniteSet(A)
    BY <2>1
  <2>3. PICK B : B = P[x] /\ IsFiniteSet(B)
    BY <1>10
  <2>4. A \cap B = {} /\ (\A y \in A \cup B : v[y] \in Nat) /\ All(m) = A \cup B
    BY <1>8, <2>2, <2>3
  <2>5. SumFunctionOnSet(v, A \cup B) = SumFunctionOnSet(v, A) + SumFunctionOnSet(v, B)
    BY ONLY <2>2, <2>3, <2>4, SumOfTwo
  <2>6. IsFiniteSet(A \cup B)
    BY <2>2, <2>3, FS_Union
  <2> QED BY <2>2, <2>3, <2>4, <2>5, <2>6
<1>12. SumFunctionOnSet(v, All(m \ {x})) \in Nat
  <2> HIDE DEF All
  <2> QED BY <1>7, <1>8, SumIsNat
<1> HIDE DEF All
<1>13. Good(m)
  BY <1>7, <1>9, <1>10, <1>11, <1>12
<1> QED BY <1>3, <1>13

(* Whatever adds as the fold does yields the sum: for folds that are       *)
(* written with an expression in place of a function.                      *)
LEMMA AdderExists ==
  ASSUME NEW v, NEW U, IsFiniteSet(U)
  PROVE  \E it : Adds(it, v, U)
<1> DEFINE all == [s \in SUBSET U |-> Adder(v, U)[s]]
<1>1. ASSUME NEW s \in SUBSET U PROVE all[s] = Added(all, v, s)
  <2>1. all[s] = Added(Adder(v, U), v, s)
    BY AdderAdds
  <2>2. all[s \ {Chosen(s)}] = Adder(v, U)[s \ {Chosen(s)}]
    OBVIOUS
  <2> HIDE DEF all
  <2> QED BY <2>1, <2>2 DEF Added
<1>2. all = [s \in SUBSET U |-> Added(all, v, s)]
  <2>1. all = [s \in SUBSET U |-> all[s]]
    OBVIOUS
  <2> HIDE DEF all
  <2> QED BY <1>1, <2>1
<1> HIDE DEF all
<1> QED BY <1>2 DEF Adds

LEMMA AddingIsSum ==
  ASSUME NEW v, NEW U, IsFiniteSet(U), NEW it, Adds(it, v, U)
  PROVE  it[U] = SumFunctionOnSet(v, U)
<1> DEFINE Q == {s \in SUBSET U : it[s] # Adder(v, U)[s]}
<1>0. \A s \in SUBSET U : IsFiniteSet(s)
  BY FS_Subset
<1>1. Q = {}
  <2> SUFFICES ASSUME Q # {} PROVE FALSE
    OBVIOUS
  <2>1. PICK m \in Q : \A s \in Q : Cardinality(m) <= Cardinality(s)
    <3>1. \A s \in Q : IsFiniteSet(s)
      BY <1>0
    <3> HIDE DEF Q
    <3> QED BY <3>1, SmallestSet
  <2>2. m \in SUBSET U /\ it[m] # Adder(v, U)[m]
    BY <2>1
  <2>3. it[m] = Added(it, v, m) /\ Adder(v, U)[m] = Added(Adder(v, U), v, m)
    BY <2>2, AdderAdds DEF Adds
  <2>4. m # {}
    BY <2>2, <2>3 DEF Added
  <2>5. Chosen(m) \in m
    BY <2>4, ChosenIsIn
  <2>6. m \ {Chosen(m)} \in SUBSET U /\ m \ {Chosen(m)} \notin Q
    <3>1. /\ Cardinality(m \ {Chosen(m)}) \in Nat
          /\ Cardinality(m) = Cardinality(m \ {Chosen(m)}) + 1
      BY <1>0, <2>2, <2>5, Rest
    <3>2. ~(Cardinality(m) <= Cardinality(m \ {Chosen(m)}))
      BY <3>1
    <3> QED BY <2>1, <2>2, <3>2
  <2>7. it[m \ {Chosen(m)}] = Adder(v, U)[m \ {Chosen(m)}]
    BY <2>6
  <2> QED BY <2>2, <2>3, <2>4, <2>7 DEF Added
<1> QED BY <1>1, SumIsAdded

(* Sums that differ by a factor.                                          *)
LEMMA SumScaled ==
  ASSUME NEW v, NEW u, NEW S, IsFiniteSet(S), NEW a \in Nat, NEW b \in Nat,
         \A x \in S : v[x] \in Nat /\ u[x] \in Nat /\ v[x] * a = u[x] * b
  PROVE  SumFunctionOnSet(v, S) * a = SumFunctionOnSet(u, S) * b
<1> DEFINE Vs(s) == SumFunctionOnSet(v, s)
           Us(s) == SumFunctionOnSet(u, s)
           Q == {s \in SUBSET S : Vs(s) * a # Us(s) * b}
<1>0. \A s \in SUBSET S : IsFiniteSet(s)
  BY FS_Subset
<1>1. \A s \in SUBSET S : Vs(s) \in Nat /\ Us(s) \in Nat
  <2> SUFFICES ASSUME NEW s \in SUBSET S PROVE Vs(s) \in Nat /\ Us(s) \in Nat
    OBVIOUS
  <2>1. IsFiniteSet(s) /\ (\A x \in s : v[x] \in Nat) /\ (\A x \in s : u[x] \in Nat)
    BY <1>0
  <2> QED BY <2>1, SumIsNat
<1> SUFFICES ASSUME Q # {} PROVE FALSE
  OBVIOUS
<1>2. PICK m \in Q : \A s \in Q : Cardinality(m) <= Cardinality(s)
  <2>1. \A s \in Q : IsFiniteSet(s)
    BY <1>0
  <2> HIDE DEF Q
  <2> QED BY <2>1, SmallestSet
<1>3. m \in SUBSET S /\ IsFiniteSet(m) /\ Vs(m) * a # Us(m) * b
  BY <1>0, <1>2
<1>4. m # {}
  <2>1. CASE m = {}
    <3>1. Vs(m) = 0 /\ Us(m) = 0
      BY <2>1, SumOfNothing
    <3> QED BY <1>3, <3>1
  <2> QED BY <2>1
<1>5. PICK x \in m : TRUE
  BY <1>4
<1>6. m \ {x} \in SUBSET S /\ m \ {x} \notin Q
  <2>1. /\ Cardinality(m \ {x}) \in Nat
        /\ Cardinality(m) = Cardinality(m \ {x}) + 1
    BY <1>3, <1>5, Rest
  <2>2. ~(Cardinality(m) <= Cardinality(m \ {x}))
    BY <2>1
  <2> HIDE DEF Q
  <2> QED BY <1>2, <1>3, <2>2
<1>7. Vs(m \ {x}) * a = Us(m \ {x}) * b
  BY <1>6
<1>8. Vs(m) = v[x] + Vs(m \ {x}) /\ Us(m) = u[x] + Us(m \ {x})
  BY <1>3, <1>5, SumWithout
<1>9. Vs(m \ {x}) \in Nat /\ Us(m \ {x}) \in Nat /\ v[x] \in Nat /\ u[x] \in Nat
      /\ v[x] * a = u[x] * b
  BY <1>1, <1>3, <1>5, <1>6
<1> HIDE DEF Vs, Us
<1>10. Vs(m) * a = v[x] * a + Vs(m \ {x}) * a /\ Us(m) * b = u[x] * b + Us(m \ {x}) * b
  BY <1>8, <1>9
<1> QED BY <1>3, <1>7, <1>9, <1>10

(* The sum of the sums, and sums with nothing or one term in them.         *)
LEMMA SumOfSums ==
  ASSUME NEW v, NEW u, NEW w, NEW S, IsFiniteSet(S),
         \A x \in S : v[x] \in Nat /\ u[x] \in Nat /\ w[x] = v[x] + u[x]
  PROVE  SumFunctionOnSet(w, S) = SumFunctionOnSet(v, S) + SumFunctionOnSet(u, S)
<1> DEFINE Vs(s) == SumFunctionOnSet(v, s)
           Us(s) == SumFunctionOnSet(u, s)
           Ws(s) == SumFunctionOnSet(w, s)
           Q == {s \in SUBSET S : Ws(s) # Vs(s) + Us(s)}
<1>1. \A s \in SUBSET S : IsFiniteSet(s)
  BY FS_Subset
<1>2. \A s \in SUBSET S : Vs(s) \in Nat /\ Us(s) \in Nat
  <2> SUFFICES ASSUME NEW s \in SUBSET S PROVE Vs(s) \in Nat /\ Us(s) \in Nat
    OBVIOUS
  <2>1. IsFiniteSet(s) /\ (\A x \in s : v[x] \in Nat) /\ (\A x \in s : u[x] \in Nat)
    BY <1>1
  <2> QED BY <2>1, SumIsNat
<1> SUFFICES ASSUME Q # {} PROVE FALSE
  OBVIOUS
<1>3. PICK m \in Q : \A s \in Q : Cardinality(m) <= Cardinality(s)
  <2>1. \A s \in Q : IsFiniteSet(s)
    BY <1>1
  <2> HIDE DEF Q
  <2> QED BY <2>1, SmallestSet
<1>4. m \in SUBSET S /\ IsFiniteSet(m) /\ Ws(m) # Vs(m) + Us(m)
  BY <1>1, <1>3
<1>5. m # {}
  <2>1. CASE m = {}
    <3>1. Vs(m) = 0 /\ Us(m) = 0 /\ Ws(m) = 0
      BY <2>1, SumOfNothing
    <3> QED BY <1>4, <3>1
  <2> QED BY <2>1
<1>6. PICK x \in m : TRUE
  BY <1>5
<1>7. m \ {x} \in SUBSET S /\ m \ {x} \notin Q
  <2>1. /\ Cardinality(m \ {x}) \in Nat
        /\ Cardinality(m) = Cardinality(m \ {x}) + 1
    BY <1>4, <1>6, Rest
  <2>2. ~(Cardinality(m) <= Cardinality(m \ {x}))
    BY <2>1
  <2> HIDE DEF Q
  <2> QED BY <1>3, <1>4, <2>2
<1>8. Ws(m \ {x}) = Vs(m \ {x}) + Us(m \ {x})
  BY <1>7
<1>9. Vs(m) = v[x] + Vs(m \ {x}) /\ Us(m) = u[x] + Us(m \ {x})
  BY <1>4, <1>6, SumWithout
<1>10. Ws(m) = w[x] + Ws(m \ {x})
  <2>1. \A y \in m : w[y] \in Nat
    BY <1>4
  <2> QED BY <1>4, <1>6, <2>1, SumWithout
<1>11. Vs(m \ {x}) \in Nat /\ Us(m \ {x}) \in Nat /\ v[x] \in Nat /\ u[x] \in Nat
       /\ w[x] = v[x] + u[x]
  BY <1>2, <1>4, <1>6, <1>7
<1> HIDE DEF Vs, Us, Ws
<1> QED BY <1>4, <1>8, <1>9, <1>10, <1>11

LEMMA SumOfZeros ==
  ASSUME NEW v, NEW S, IsFiniteSet(S), \A x \in S : v[x] = 0
  PROVE  SumFunctionOnSet(v, S) = 0
<1>1. \A x \in S : v[x] \in Nat /\ v[x] * 0 = v[x] * 1
  OBVIOUS
<1>2. SumFunctionOnSet(v, S) * 0 = SumFunctionOnSet(v, S) * 1
  BY <1>1, SumScaled
<1>3. SumFunctionOnSet(v, S) \in Nat
  BY <1>1, SumIsNat
<1> QED BY <1>2, <1>3

LEMMA SumOfOne ==
  ASSUME NEW v, NEW S, IsFiniteSet(S), NEW c \in S, v[c] \in Nat,
         \A x \in S \ {c} : v[x] = 0
  PROVE  SumFunctionOnSet(v, S) = v[c]
<1>1. \A x \in S : v[x] \in Nat
  OBVIOUS
<1>2. SumFunctionOnSet(v, S) = v[c] + SumFunctionOnSet(v, S \ {c})
  BY <1>1, SumWithout
<1>3. IsFiniteSet(S \ {c})
  BY FS_Subset
<1>4. SumFunctionOnSet(v, S \ {c}) = 0
  BY <1>3, SumOfZeros
<1> QED BY <1>2, <1>4

(* A sum of values that are not greater is not greater, and less if one    *)
(* of them is less.                                                        *)
LEMMA SumOfNotGreater ==
  ASSUME NEW v, NEW w, NEW S, IsFiniteSet(S),
         \A x \in S : v[x] \in Nat /\ w[x] \in Nat /\ w[x] <= v[x]
  PROVE  SumFunctionOnSet(w, S) <= SumFunctionOnSet(v, S)
<1> DEFINE Sum(f, s) == SumFunctionOnSet(f, s)
           Q == {s \in SUBSET S : ~(Sum(w, s) <= Sum(v, s))}
<1>1. \A s \in SUBSET S : IsFiniteSet(s) /\ Sum(v, s) \in Nat /\ Sum(w, s) \in Nat
  BY FS_Subset, SumIsNat
<1> SUFFICES ASSUME Q # {} PROVE FALSE
  OBVIOUS
<1>2. PICK m \in Q : \A s \in Q : Cardinality(m) <= Cardinality(s)
  <2>1. \A s \in Q : IsFiniteSet(s)
    BY <1>1
  <2> HIDE DEF Q
  <2> QED BY <2>1, SmallestSet
<1>3. m \in SUBSET S /\ IsFiniteSet(m) /\ ~(Sum(w, m) <= Sum(v, m))
  BY <1>1, <1>2
<1>4. m # {}
  BY <1>3, SumOfNothing
<1>5. PICK x \in m : TRUE
  BY <1>4
<1>6. /\ Cardinality(m \ {x}) \in Nat /\ Cardinality(m) = Cardinality(m \ {x}) + 1
      /\ m \ {x} \in SUBSET S /\ x \in S
  BY <1>3, Rest
<1>7. m \ {x} \notin Q
  <2> HIDE DEF Q
  <2> SUFFICES ASSUME m \ {x} \in Q PROVE FALSE
    OBVIOUS
  <2>1. Cardinality(m) <= Cardinality(m \ {x})
    BY <1>2
  <2> QED BY <1>6, <2>1
<1>8. Sum(w, m \ {x}) <= Sum(v, m \ {x})
  BY <1>6, <1>7
<1>9. Sum(v, m) = v[x] + Sum(v, m \ {x}) /\ Sum(w, m) = w[x] + Sum(w, m \ {x})
  <2>1. (\A y \in m : v[y] \in Nat) /\ (\A y \in m : w[y] \in Nat)
    BY <1>3
  <2> QED BY <1>3, <2>1, SumWithout
<1>10. /\ Sum(v, m \ {x}) \in Nat /\ Sum(w, m \ {x}) \in Nat
       /\ v[x] \in Nat /\ w[x] \in Nat /\ w[x] <= v[x]
  BY <1>1, <1>6
<1> HIDE DEF Sum
<1> QED BY <1>3, <1>8, <1>9, <1>10

LEMMA SumOfLess ==
  ASSUME NEW v, NEW w, NEW S, IsFiniteSet(S),
         \A x \in S : v[x] \in Nat /\ w[x] \in Nat /\ w[x] <= v[x],
         NEW p \in S, w[p] + 1 <= v[p]
  PROVE  SumFunctionOnSet(w, S) + 1 <= SumFunctionOnSet(v, S)
<1> DEFINE Sum(f, s) == SumFunctionOnSet(f, s)
<1>1. IsFiniteSet(S \ {p}) /\ \A x \in S \ {p} : v[x] \in Nat /\ w[x] \in Nat /\ w[x] <= v[x]
  BY FS_Subset
<1>2. Sum(w, S \ {p}) <= Sum(v, S \ {p})
  BY <1>1, SumOfNotGreater
<1>3. Sum(v, S) = v[p] + Sum(v, S \ {p}) /\ Sum(w, S) = w[p] + Sum(w, S \ {p})
  BY SumWithout
<1>4. Sum(v, S \ {p}) \in Nat /\ Sum(w, S \ {p}) \in Nat
  BY <1>1, SumIsNat
<1>5. v[p] \in Nat /\ w[p] \in Nat
  OBVIOUS
<1>6. Sum(w, S) + 1 <= Sum(v, S)
  <2> HIDE DEF Sum
  <2> QED BY <1>2, <1>3, <1>4, <1>5
<1> QED BY <1>6

-----------------------------------------------------------------------------
(* A product is folded alike.                                              *)
Multiplied(it, v, s) == IF s = {} THEN 1 ELSE v[Chosen(s)] * it[s \ {Chosen(s)}]

Multiplies(it, v) == it = [s \in SUBSET DOMAIN v |-> Multiplied(it, v, s)]

MultipliesSmall(it, v, n) ==
  /\ DOMAIN it = {s \in SUBSET DOMAIN v : Cardinality(s) <= n}
  /\ \A s \in DOMAIN it : it[s] = Multiplied(it, v, s)

Multiplier(v) == CHOOSE it : Multiplies(it, v)

LEMMA ProductIsMultiplied ==
  ASSUME NEW v
  PROVE  FoldFunction( *, 1, v) = Multiplier(v)[DOMAIN v]
BY DEF FoldFunction, FoldFunctionOnSet, MapThenFoldSet, Multiplier, Multiplies,
       Multiplied, Chosen

(* A function that multiplies up to a size goes on to the next.            *)
LEMMA MultipliesOneMore ==
  ASSUME NEW v, IsFiniteSet(DOMAIN v), NEW k \in Nat, NEW g, MultipliesSmall(g, v, k)
  PROVE  \E it : MultipliesSmall(it, v, k + 1)
<1> DEFINE Upto(i) == {s \in SUBSET DOMAIN v : Cardinality(s) <= i}
           it == [s \in Upto(k + 1) |-> Multiplied(g, v, s)]
<1>1. \A s \in SUBSET DOMAIN v : IsFiniteSet(s) /\ Cardinality(s) \in Nat
  BY FS_Subset, FS_CardinalityType
<1>2. DOMAIN g = Upto(k) /\ \A s \in Upto(k) : g[s] = Multiplied(g, v, s)
  BY DEF MultipliesSmall
<1>3. \A s \in Upto(k) : s \in Upto(k + 1) /\ it[s] = g[s]
  BY <1>1, <1>2
<1>4. ASSUME NEW s \in Upto(k + 1) PROVE it[s] = Multiplied(it, v, s)
  <2>1. CASE s = {}
    BY <2>1 DEF Multiplied
  <2>2. CASE s # {}
    <3>1. Chosen(s) \in s /\ s \in SUBSET DOMAIN v /\ Cardinality(s) <= k + 1
      BY <2>2, ChosenIsIn
    <3>2. /\ Cardinality(s) = Cardinality(s \ {Chosen(s)}) + 1
          /\ Cardinality(s \ {Chosen(s)}) \in Nat
      BY <1>1, <3>1, Rest
    <3>3. Cardinality(s \ {Chosen(s)}) <= k
      BY <3>1, <3>2
    <3>4. it[s \ {Chosen(s)}] = g[s \ {Chosen(s)}]
      BY <1>3, <3>1, <3>3
    <3>5. it[s] = Multiplied(g, v, s)
      OBVIOUS
    <3> HIDE DEF it
    <3> QED BY <3>4, <3>5 DEF Multiplied
  <2> QED BY <2>1, <2>2
<1>5. DOMAIN it = Upto(k + 1)
  OBVIOUS
<1> HIDE DEF it
<1>6. MultipliesSmall(it, v, k + 1)
  BY <1>4, <1>5 DEF MultipliesSmall
<1> QED BY <1>6

LEMMA MultipliesUpTo ==
  ASSUME NEW v, IsFiniteSet(DOMAIN v), NEW n \in Nat
  PROVE  \E it : MultipliesSmall(it, v, n)
<1> DEFINE K == {k \in Nat : ~\E it : MultipliesSmall(it, v, k)}
<1>1. \E it : MultipliesSmall(it, v, 0)
  <2> DEFINE it == [s \in {s \in SUBSET DOMAIN v : Cardinality(s) <= 0} |-> 1]
  <2>1. \A s \in DOMAIN it : s = {}
    BY FS_Subset, FS_CardinalityType, FS_EmptySet
  <2>2. \A s \in DOMAIN it : it[s] = Multiplied(it, v, s)
    BY <2>1 DEF Multiplied
  <2>3. MultipliesSmall(it, v, 0)
    BY <2>2 DEF MultipliesSmall
  <2> QED BY <2>3
<1> SUFFICES ASSUME K # {} PROVE FALSE
  OBVIOUS
<1>2. PICK m \in K : \A k \in K : m <= k
  <2>1. K \in SUBSET Nat
    OBVIOUS
  <2> HIDE DEF K
  <2> QED BY <2>1, LeastNumber
<1>3. m \in Nat /\ m # 0 /\ ~\E it : MultipliesSmall(it, v, m)
  BY <1>1, <1>2
<1>4. m - 1 \in Nat /\ m - 1 \notin K /\ (m - 1) + 1 = m
  BY <1>2, <1>3
<1>5. PICK g : MultipliesSmall(g, v, m - 1)
  BY <1>4
<1> QED BY <1>3, <1>4, <1>5, MultipliesOneMore

LEMMA MultiplierMultiplies ==
  ASSUME NEW v, IsFiniteSet(DOMAIN v)
  PROVE  \A s \in SUBSET DOMAIN v : Multiplier(v)[s] = Multiplied(Multiplier(v), v, s)
<1>1. PICK n \in Nat : n = Cardinality(DOMAIN v)
  BY FS_CardinalityType
<1>2. PICK it : MultipliesSmall(it, v, n)
  BY MultipliesUpTo
<1>3. {s \in SUBSET DOMAIN v : Cardinality(s) <= n} = SUBSET DOMAIN v
  BY <1>1, FS_Subset
<1> DEFINE all == [s \in SUBSET DOMAIN v |-> it[s]]
<1>4. ASSUME NEW s \in SUBSET DOMAIN v PROVE all[s] = Multiplied(all, v, s)
  <2>1. all[s] = it[s] /\ it[s] = Multiplied(it, v, s)
    BY <1>2, <1>3 DEF MultipliesSmall
  <2>2. all[s \ {Chosen(s)}] = it[s \ {Chosen(s)}]
    OBVIOUS
  <2> HIDE DEF all
  <2> QED BY <2>1, <2>2 DEF Multiplied
<1>5. all = [s \in SUBSET DOMAIN v |-> Multiplied(all, v, s)]
  <2>1. all = [s \in SUBSET DOMAIN v |-> all[s]]
    OBVIOUS
  <2> HIDE DEF all
  <2> QED BY <1>4, <2>1
<1> HIDE DEF all
<1>6. Multiplies(Multiplier(v), v)
  BY <1>5 DEF Multiplies, Multiplier
<1> HIDE DEF Multiplies
<1>7. Multiplier(v) = [s \in SUBSET DOMAIN v |-> Multiplied(Multiplier(v), v, s)]
  BY <1>6 DEF Multiplies
<1> QED BY <1>7

(* A product of numbers that are not 0 is not 0.                           *)
LEMMA ProductIsNotZero ==
  ASSUME NEW v, IsFiniteSet(DOMAIN v), \A x \in DOMAIN v : v[x] \in Int \ {0}
  PROVE  FoldFunction( *, 1, v) \in Int \ {0}
<1> DEFINE Q == {s \in SUBSET DOMAIN v : Multiplier(v)[s] \notin Int \ {0}}
<1> SUFFICES ASSUME Q # {} PROVE FALSE
  BY ProductIsMultiplied
<1>1. PICK m \in Q : \A s \in Q : Cardinality(m) <= Cardinality(s)
  <2>1. \A s \in Q : IsFiniteSet(s)
    BY FS_Subset
  <2> HIDE DEF Q
  <2> QED BY <2>1, SmallestSet
<1>2. m \in SUBSET DOMAIN v /\ IsFiniteSet(m)
  BY <1>1, FS_Subset
<1>3. Multiplier(v)[m] = Multiplied(Multiplier(v), v, m)
  BY <1>2, MultiplierMultiplies
<1>4. m # {}
  BY <1>1, <1>3 DEF Multiplied
<1>5. PICK x \in m : x = Chosen(m)
  BY <1>4, ChosenIsIn
<1>6. /\ Cardinality(m \ {x}) \in Nat /\ Cardinality(m) = Cardinality(m \ {x}) + 1
      /\ m \ {x} \in SUBSET DOMAIN v
  BY <1>2, Rest
<1>7. Multiplier(v)[m \ {x}] \in Int \ {0} /\ v[x] \in Int \ {0}
  <2>1. Cardinality(m \ {x}) < Cardinality(m)
    BY <1>6
  <2>2. m \ {x} \notin Q
    <3> HIDE DEF Q
    <3> SUFFICES ASSUME m \ {x} \in Q PROVE FALSE
      OBVIOUS
    <3>1. Cardinality(m) <= Cardinality(m \ {x})
      BY <1>1
    <3> QED BY <1>6, <3>1
  <2> QED BY <1>2, <1>6, <2>2
<1>8. \A a, b \in Int \ {0} : a * b \in Int \ {0}
  OBVIOUS
<1>9. Multiplier(v)[m] \in Int \ {0}
  BY <1>3, <1>4, <1>5, <1>7, <1>8 DEF Multiplied
<1> QED BY <1>1, <1>9
=============================================================================
