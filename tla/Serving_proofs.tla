--------------------------- MODULE Serving_proofs ---------------------------
(***************************************************************************)
(* Proofs about Serving for any number of requests, whichever of them      *)
(* stream, any number of permits and any length of the queue: both gates   *)
(* of the server know who is inside, and no request waits beside a permit  *)
(* nobody takes.                                                           *)
(***************************************************************************)
EXTENDS Serving, FiniteSetTheorems, SequenceTheorems, TLAPS

(* The queue of the semaphore holds each waiting request once and nobody   *)
(* else: a permit is handed to somebody who waits for it.                  *)
Distinct(ws) == \A i, j \in 1..Len(ws) : ws[i] = ws[j] => i = j

First(ws, k) == {ws[j] : j \in 1..k}

Members(ws) == {ws[j] : j \in 1..Len(ws)}

Queued ==
  /\ waiters \in Seq(Requests) /\ Distinct(waiters)
  /\ Members(waiters) = In({"queued"})

Types ==
  /\ phase \in [Requests -> Phase]
  /\ active_in_flight_requests \in Nat /\ permits \in Nat

(* The inductive invariant. *)
IInv == Types /\ Queued /\ PermitsConserved /\ InFlightExact /\ NoIdlePermit

-----------------------------------------------------------------------------
(* Sequences and the least of three numbers. *)
LEMMA LeastOfThree ==
  ASSUME NEW a \in Nat, NEW b \in Nat, NEW c \in Nat
  PROVE  LET k == Min({a, b, c}) IN k \in {a, b, c} /\ k <= a /\ k <= b /\ k <= c
<1>1. \E k \in {a, b, c} : \A y \in {a, b, c} : k <= y
  OBVIOUS
<1> QED BY <1>1 DEF Min

(* Removing a member of a queue leaves the others, once each. *)
LEMMA RemovedFromQueue ==
  ASSUME NEW S, NEW ws \in Seq(S), Distinct(ws), NEW r
  PROVE  LET out == RemoveFirst(ws, r)
         IN /\ out \in Seq(S) /\ Distinct(out)
            /\ Members(out) = Members(ws) \ {r}
<1> DEFINE out == RemoveFirst(ws, r)
<1>1. CASE \E i \in 1..Len(ws) : ws[i] = r
  <2>1. PICK k \in 1..Len(ws) : ws[k] = r
    BY <1>1
  <2>2. {i \in 1..Len(ws) : ws[i] = r} = {k}
    BY <2>1 DEF Distinct
  <2>3. Min({k}) = k
    BY DEF Min
  <2>4. out = SubSeq(ws, 1, k - 1) \o SubSeq(ws, k + 1, Len(ws))
    BY <1>1, <2>2, <2>3 DEF RemoveFirst, RemoveAt, SelectInSeq
  <2>5. /\ SubSeq(ws, 1, k - 1) \in Seq(S) /\ Len(SubSeq(ws, 1, k - 1)) = k - 1
        /\ \A i \in 1..(k - 1) : SubSeq(ws, 1, k - 1)[i] = ws[i]
    BY SubSeqProperties
  <2>6. /\ SubSeq(ws, k + 1, Len(ws)) \in Seq(S)
        /\ Len(SubSeq(ws, k + 1, Len(ws))) = Len(ws) - k
        /\ \A i \in 1..(Len(ws) - k) : SubSeq(ws, k + 1, Len(ws))[i] = ws[i + k]
    BY SubSeqProperties
  <2> DEFINE a == SubSeq(ws, 1, k - 1)
             b == SubSeq(ws, k + 1, Len(ws))
  <2> HIDE DEF a, b
  <2>7. /\ out \in Seq(S) /\ Len(out) = Len(ws) - 1
        /\ \A i \in 1..(Len(ws) - 1) : out[i] = IF i < k THEN ws[i] ELSE ws[i + 1]
    <3>1. out = a \o b /\ a \in Seq(S) /\ b \in Seq(S) /\ Len(a) = k - 1
          /\ Len(b) = Len(ws) - k
      BY <2>4, <2>5, <2>6 DEF a, b
    <3>2. out \in Seq(S) /\ Len(out) = Len(ws) - 1
      BY <3>1, ConcatProperties
    <3>3. ASSUME NEW i \in 1..(Len(ws) - 1)
          PROVE  out[i] = IF i < k THEN ws[i] ELSE ws[i + 1]
      <4>1. out[i] = IF i <= k - 1 THEN a[i] ELSE b[i - (k - 1)]
        BY <3>1, ConcatProperties
      <4>2. CASE i < k
        BY <4>1, <4>2, <2>5 DEF a
      <4>3. CASE ~(i < k)
        <5>1. i - (k - 1) \in 1..(Len(ws) - k) /\ (i - (k - 1)) + k = i + 1
          BY <4>3
        <5> QED BY <4>1, <4>3, <5>1, <2>6 DEF b
      <4> QED BY <4>2, <4>3
    <3> QED BY <3>2, <3>3
  <2> HIDE DEF out
  <2>8. Distinct(out)
    BY <2>7 DEF Distinct
  <2>9. ASSUME NEW j \in 1..Len(ws), j # k
        PROVE  \E i \in 1..Len(out) : out[i] = ws[j]
    <3>1. CASE j < k
      BY <2>7, <3>1
    <3>2. CASE j > k
      <4>1. j - 1 \in 1..Len(out) /\ ~(j - 1 < k) /\ (j - 1) + 1 = j
        BY <2>7, <3>2
      <4> QED BY <2>7, <4>1
    <3> QED BY <2>9, <3>1, <3>2
  <2>10. ASSUME NEW i \in 1..Len(out)
         PROVE  \E j \in 1..Len(ws) : j # k /\ out[i] = ws[j]
    <3>1. CASE i < k
      BY <2>7, <3>1
    <3>2. CASE ~(i < k)
      <4>1. i + 1 \in 1..Len(ws) /\ i + 1 # k /\ out[i] = ws[i + 1]
        BY <2>7, <3>2
      <4> QED BY <4>1
    <3> QED BY <3>1, <3>2
  <2>11. \A j \in 1..Len(ws) : j # k => ws[j] # r
    BY <2>1 DEF Distinct
  <2>12. {out[j] : j \in 1..Len(out)} = {ws[j] : j \in 1..Len(ws)} \ {r}
    <3> DEFINE A == {out[j] : j \in 1..Len(out)}
               B == {ws[j] : j \in 1..Len(ws)} \ {r}
    <3>1. ASSUME NEW x \in A PROVE x \in B
      BY <2>10, <2>11
    <3>2. ASSUME NEW x \in B PROVE x \in A
      <4>1. PICK j \in 1..Len(ws) : x = ws[j] /\ j # k
        BY <2>1
      <4> QED BY <4>1, <2>9
    <3> HIDE DEF A, B
    <3>3. A = B
      BY <3>1, <3>2
    <3> QED BY <3>3 DEF A, B
  <2> QED BY <2>7, <2>8, <2>12 DEF out, Members
<1>2. CASE ~\E i \in 1..Len(ws) : ws[i] = r
  <2>1. out = ws
    BY <1>2 DEF RemoveFirst
  <2>2. Members(ws) \ {r} = Members(ws)
    BY <1>2 DEF Members
  <2> HIDE DEF out
  <2> QED BY <2>1, <2>2 DEF out
<1> QED BY <1>1, <1>2

(* The first k of a queue are k. *)
LEMMA FirstOfQueue ==
  ASSUME NEW S, NEW ws \in Seq(S), Distinct(ws), NEW k \in 0..Len(ws)
  PROVE  IsFiniteSet(First(ws, k)) /\ Cardinality(First(ws, k)) = k
<1> DEFINE T == {ws[j] : j \in 1..k}
           f == [j \in 1..k |-> ws[j]]
<1>1. IsFiniteSet(1..k) /\ Cardinality(1..k) = k
  BY FS_Interval
<1>2. f \in Bijection(1..k, T)
  <2>1. f \in [1..k -> T] /\ \A x, y \in 1..k : f[x] = f[y] => x = y
    BY DEF Distinct
  <2>2. \A t \in T : \E x \in 1..k : f[x] = t
    OBVIOUS
  <2> QED BY <2>1, <2>2 DEF Bijection, Injection, Surjection, IsInjective
<1>3. ExistsBijection(1..k, T)
  BY <1>2 DEF ExistsBijection
<1> QED BY <1>1, <1>3, FS_Bijection DEF First

(* The rest of a queue. *)
LEMMA RestOfQueue ==
  ASSUME NEW S, NEW ws \in Seq(S), Distinct(ws), NEW k \in 0..Len(ws)
  PROVE  LET rest == SubSeq(ws, k + 1, Len(ws))
         IN /\ rest \in Seq(S) /\ Distinct(rest) /\ Len(rest) = Len(ws) - k
            /\ Members(rest) = Members(ws) \ First(ws, k)
<1> DEFINE rest == SubSeq(ws, k + 1, Len(ws))
<1>1. /\ rest \in Seq(S) /\ Len(rest) = Len(ws) - k
      /\ \A i \in 1..(Len(ws) - k) : rest[i] = ws[i + k]
  BY SubSeqProperties
<1> HIDE DEF rest
<1>2. Distinct(rest)
  <2> SUFFICES ASSUME NEW i \in 1..Len(rest), NEW j \in 1..Len(rest), rest[i] = rest[j]
               PROVE  i = j
    BY DEF Distinct
  <2>1. /\ i + k \in 1..Len(ws) /\ j + k \in 1..Len(ws)
        /\ rest[i] = ws[i + k] /\ rest[j] = ws[j + k]
    BY <1>1
  <2>2. i + k = j + k
    BY <2>1 DEF Distinct
  <2> QED BY <1>1, <2>2
<1>3. ASSUME NEW i \in 1..Len(rest)
      PROVE  rest[i] \in {ws[j] : j \in 1..Len(ws)} \ {ws[j] : j \in 1..k}
  <2>1. i + k \in 1..Len(ws) /\ rest[i] = ws[i + k] /\ \A j \in 1..k : j # i + k
    BY <1>1
  <2> QED BY <2>1 DEF Distinct
<1>4. ASSUME NEW j \in 1..Len(ws), ws[j] \notin {ws[i] : i \in 1..k}
      PROVE  \E i \in 1..Len(rest) : rest[i] = ws[j]
  <2>1. j - k \in 1..Len(rest) /\ (j - k) + k = j
    BY <1>1, <1>4
  <2> QED BY <1>1, <2>1
<1>5. {rest[j] : j \in 1..Len(rest)}
        = {ws[j] : j \in 1..Len(ws)} \ {ws[j] : j \in 1..k}
  <2> DEFINE A == {rest[j] : j \in 1..Len(rest)}
             B == {ws[j] : j \in 1..Len(ws)} \ {ws[j] : j \in 1..k}
  <2>1. ASSUME NEW x \in A PROVE x \in B
    BY <1>3
  <2>2. ASSUME NEW x \in B PROVE x \in A
    BY <1>4
  <2> HIDE DEF A, B
  <2>3. A = B
    BY <2>1, <2>2
  <2> QED BY <2>3 DEF A, B
<1> QED BY <1>1, <1>2, <1>5 DEF rest, Members, First

-----------------------------------------------------------------------------
(* Counting the requests in some phases while one of them moves on. *)
One(b) == IF b THEN 1 ELSE 0

LEMMA Replaced ==
  ASSUME NEW A, IsFiniteSet(A), NEW r, NEW B, B \ {r} = A \ {r}
  PROVE  /\ IsFiniteSet(B) /\ Cardinality(A) \in Nat /\ Cardinality(B) \in Nat
         /\ Cardinality(B) = Cardinality(A) - One(r \in A) + One(r \in B)
<1> DEFINE C == A \ {r}
<1>1. IsFiniteSet(C) /\ Cardinality(C) = Cardinality(A) - One(r \in A)
  <2>1. IsFiniteSet(C) /\ Cardinality(C)
          = IF r \in A THEN Cardinality(A) - 1 ELSE Cardinality(A)
    BY FS_RemoveElement
  <2>2. Cardinality(A) \in Nat
    BY FS_CardinalityType
  <2> HIDE DEF C
  <2> QED BY <2>1, <2>2 DEF One
<1>2. Cardinality(A) \in Nat /\ Cardinality(C) \in Nat
  BY <1>1, FS_CardinalityType
<1>3. r \notin C
  OBVIOUS
<1>4. CASE r \in B
  <2>1. B = C \cup {r}
    BY <1>4
  <2> HIDE DEF C
  <2>2. IsFiniteSet(B) /\ Cardinality(B) = Cardinality(C) + 1
    BY <1>1, <1>3, <2>1, FS_AddElement
  <2> QED BY <1>1, <1>2, <1>4, <2>2 DEF One
<1>5. CASE r \notin B
  <2>1. B = C
    BY <1>5
  <2> HIDE DEF C
  <2> QED BY <1>1, <1>2, <1>5, <2>1 DEF One
<1> QED BY <1>4, <1>5

LEMMA PhaseSetsFinite ==
  ASSUME NEW P
  PROVE  IsFiniteSet(In(P)) /\ Cardinality(In(P)) \in Nat
<1>1. In(P) \in SUBSET Requests
  BY DEF In
<1> QED BY <1>1, ServingAssumption, FS_Subset, FS_CardinalityType

LEMMA CountMoved ==
  ASSUME Types, NEW r \in Requests, NEW p, Becomes(r, p), NEW P
  PROVE  /\ Cardinality(In(P)') = Cardinality(In(P)) - One(phase[r] \in P) + One(p \in P)
         /\ Cardinality(In(P)) \in Nat /\ Cardinality(In(P)') \in Nat
         /\ phase[r] \in P => Cardinality(In(P)) > 0
<1>1. IsFiniteSet(In(P)) /\ Cardinality(In(P)) \in Nat
  BY PhaseSetsFinite
<1>2. /\ In(P)' \ {r} = In(P) \ {r}
      /\ r \in In(P) <=> phase[r] \in P
      /\ r \in In(P)' <=> p \in P
  BY DEF In, Becomes, Types
<1>3. /\ Cardinality(In(P)') = Cardinality(In(P)) - One(r \in In(P)) + One(r \in In(P)')
      /\ Cardinality(In(P)') \in Nat
  BY <1>1, <1>2, Replaced
<1>4. phase[r] \in P => Cardinality(In(P)) > 0
  BY <1>1, <1>2, FS_EmptySet
<1> QED BY <1>1, <1>2, <1>3, <1>4 DEF One

(* What a step of the semaphore does. *)
LEMMA Woke ==
  ASSUME Types, NEW r \in Requests, NEW p \in Phase \ {"queued"}, NEW n \in Nat,
         NEW ws \in Seq(Requests), Distinct(ws), Members(ws) = In({"queued"}) \ {r},
         NEW most \in Nat, Wake(r, p, n, ws, most)
  PROVE  /\ phase' \in [Requests -> Phase] /\ permits' \in Nat /\ Queued'
         /\ permits' + Cardinality(In(WithPermit)') + Cardinality(In({"lost"})')
              = n + Cardinality(In(WithPermit)) - One(phase[r] \in WithPermit)
                  + Cardinality(In({"lost"})) - One(phase[r] = "lost")
                  + One(p \in WithPermit) + One(p = "lost")
         /\ Cardinality(In(InMiddleware)')
              = Cardinality(In(InMiddleware)) - One(phase[r] \in InMiddleware)
                  + One(p \in InMiddleware)
         /\ most > 0 \/ most = n => NoIdlePermit'
<1> DEFINE k == Min({n, Len(ws), most})
           T == First(ws, k)
           rest == SubSeq(ws, k + 1, Len(ws))
<1>1. Len(ws) \in Nat /\ k \in 0..Len(ws) /\ k <= n /\ k \in {n, Len(ws), most}
  BY LeastOfThree
<1>2. /\ phase' = [s \in Requests |-> IF s = r THEN p
                      ELSE IF s \in T THEN "granted" ELSE phase[s]]
      /\ waiters' = rest /\ permits' = n - k
  BY DEF Wake, First
<1> HIDE DEF k
<1>3. IsFiniteSet(T) /\ Cardinality(T) = k
  BY <1>1, FirstOfQueue
<1>4. T \subseteq In({"queued"}) /\ r \notin T
  <2>1. \A j \in 1..k : j \in 1..Len(ws)
    BY <1>1
  <2>2. T \subseteq Members(ws)
    BY <2>1 DEF First, Members
  <2> QED BY <2>2
<1>5. /\ rest \in Seq(Requests) /\ Distinct(rest) /\ Len(rest) = Len(ws) - k
      /\ Members(rest) = (In({"queued"}) \ {r}) \ T
  BY <1>1, RestOfQueue
<1> HIDE DEF T, rest
<1>6. phase' \in [Requests -> Phase] /\ permits' \in Nat
  BY <1>1, <1>2 DEF Types, Phase
<1>7. Queued'
  <2>1. In({"queued"})' = (In({"queued"}) \ {r}) \ T
    BY <1>2, <1>4, <1>6 DEF In
  <2>2. SUFFICES rest \in Seq(Requests) /\ Distinct(rest)
                 /\ Members(rest) = In({"queued"})'
    BY <1>2 DEF Queued, Distinct, Members
  <2> QED BY <1>5, <2>1
<1>8. ASSUME NEW P, "queued" \in P <=> "granted" \in P
      PROVE  /\ Cardinality(In(P)')
                   = Cardinality(In(P)) - One(phase[r] \in P) + One(p \in P)
             /\ Cardinality(In(P)) \in Nat /\ Cardinality(In(P)') \in Nat
  <2>1. IsFiniteSet(In(P))
    BY PhaseSetsFinite
  <2>2. /\ In(P)' \ {r} = In(P) \ {r}
        /\ r \in In(P) <=> phase[r] \in P
        /\ r \in In(P)' <=> p \in P
    BY <1>2, <1>4, <1>8 DEF In
  <2>3. /\ Cardinality(In(P)') = Cardinality(In(P)) - One(r \in In(P)) + One(r \in In(P)')
        /\ Cardinality(In(P)) \in Nat /\ Cardinality(In(P)') \in Nat
    BY <2>1, <2>2, Replaced
  <2> QED BY <2>2, <2>3 DEF One
<1>9. /\ Cardinality(In(WithPermit)')
           = Cardinality(In(WithPermit)) - One(phase[r] \in WithPermit)
               + One(p \in WithPermit) + k
      /\ Cardinality(In(WithPermit)) \in Nat /\ Cardinality(In(WithPermit)') \in Nat
  <2> DEFINE A == In(WithPermit)
             B == {s \in Requests : IF s = r THEN p \in WithPermit
                                              ELSE phase[s] \in WithPermit}
  <2>1. IsFiniteSet(A)
    BY PhaseSetsFinite
  <2>2. B \ {r} = A \ {r} /\ (r \in A <=> phase[r] \in WithPermit)
        /\ (r \in B <=> p \in WithPermit)
    BY DEF In
  <2>3. In(WithPermit)' = B \cup T /\ B \cap T = {}
    BY <1>2, <1>4 DEF In, WithPermit
  <2> HIDE DEF A, B
  <2>4. /\ IsFiniteSet(B) /\ Cardinality(A) \in Nat /\ Cardinality(B) \in Nat
        /\ Cardinality(B) = Cardinality(A) - One(r \in A) + One(r \in B)
    BY <2>1, <2>2, Replaced
  <2>5. Cardinality(B \cup T) = Cardinality(B) + Cardinality(T)
    <3>1. Cardinality(B \cap T) = 0
      BY <2>3, FS_EmptySet
    <3>2. Cardinality(B \cup T) = Cardinality(B) + Cardinality(T) - Cardinality(B \cap T)
      BY <1>3, <2>4, FS_Union
    <3> QED BY <1>1, <1>3, <2>4, <3>1, <3>2
  <2>6. Cardinality(In(WithPermit)') = Cardinality(B) + k
    BY <1>3, <2>3, <2>5
  <2> QED BY <1>1, <2>2, <2>4, <2>6 DEF A, One
<1>10. permits' + Cardinality(In(WithPermit)') + Cardinality(In({"lost"})')
         = n + Cardinality(In(WithPermit)) - One(phase[r] \in WithPermit)
             + Cardinality(In({"lost"})) - One(phase[r] = "lost")
             + One(p \in WithPermit) + One(p = "lost")
  <2>1. /\ Cardinality(In({"lost"})')
             = Cardinality(In({"lost"})) - One(phase[r] = "lost") + One(p = "lost")
        /\ Cardinality(In({"lost"})) \in Nat /\ Cardinality(In({"lost"})') \in Nat
    BY <1>8 DEF One
  <2> DEFINE a == Cardinality(In(WithPermit))
             aa == Cardinality(In(WithPermit)')
             b == Cardinality(In({"lost"}))
             bb == Cardinality(In({"lost"})')
             o1 == One(phase[r] \in WithPermit)
             o2 == One(phase[r] = "lost")
             o3 == One(p \in WithPermit)
             o4 == One(p = "lost")
  <2>2. o1 \in Nat /\ o2 \in Nat /\ o3 \in Nat /\ o4 \in Nat
    BY DEF One
  <2> HIDE DEF a, aa, b, bb, o1, o2, o3, o4
  <2>3. aa = a - o1 + o3 + k /\ bb = b - o2 + o4 /\ a \in Nat /\ b \in Nat
    BY <1>9, <2>1 DEF a, aa, b, bb, o1, o2, o3, o4
  <2>4. (n - k) + aa + bb = n + a - o1 + b - o2 + o3 + o4
    <3>1. n \in Nat /\ k \in Nat
      BY <1>1
    <3> QED BY <2>2, <2>3, <3>1
  <2> QED BY <1>2, <2>4 DEF a, aa, b, bb, o1, o2, o3, o4
<1>11. ASSUME most > 0 \/ most = n PROVE NoIdlePermit'
  <2> SUFFICES ASSUME permits' > 0, waiters' # <<>>
               PROVE  \E s \in Requests : phase'[s] = "granted"
    BY DEF NoIdlePermit
  <2>1. k > 0
    BY <1>1, <1>2, <1>5, <1>11
  <2>2. ws[1] \in T /\ ws[1] \in Requests
    BY <1>1, <2>1 DEF T, First
  <2> QED BY <1>2, <1>4, <2>2
<1>12. Cardinality(In(InMiddleware)')
         = Cardinality(In(InMiddleware)) - One(phase[r] \in InMiddleware)
             + One(p \in InMiddleware)
  BY <1>8 DEF InMiddleware
<1> QED BY <1>6, <1>7, <1>10, <1>11, <1>12

-----------------------------------------------------------------------------
(* The two kinds of steps: one that passes permits on, and one that leaves *)
(* the semaphore alone. *)
LEMMA WakeKeeps ==
  ASSUME IInv, NEW r \in Requests, NEW p \in Phase \ {"queued"}, NEW n \in Nat,
         NEW ws \in Seq(Requests), Distinct(ws), Members(ws) = In({"queued"}) \ {r},
         NEW most \in Nat, most > 0 \/ most = n, Wake(r, p, n, ws, most),
         n + One(p \in WithPermit) + One(p = "lost")
           = permits + One(phase[r] \in WithPermit) + One(phase[r] = "lost"),
         active_in_flight_requests' = active_in_flight_requests
           - One(phase[r] \in InMiddleware) + One(p \in InMiddleware),
         p \in InMiddleware => phase[r] \in InMiddleware
  PROVE  IInv'
<1> DEFINE a == Cardinality(In(WithPermit))
           b == Cardinality(In({"lost"}))
           c == Cardinality(In(InMiddleware))
           aa == Cardinality(In(WithPermit)')
           bb == Cardinality(In({"lost"})')
           cc == Cardinality(In(InMiddleware)')
           o1 == One(phase[r] \in WithPermit)
           o2 == One(phase[r] = "lost")
           o3 == One(p \in WithPermit)
           o4 == One(p = "lost")
           o5 == One(phase[r] \in InMiddleware)
           o6 == One(p \in InMiddleware)
<1>1. /\ o1 \in Nat /\ o2 \in Nat /\ o3 \in Nat /\ o4 \in Nat /\ o5 \in Nat /\ o6 \in Nat
      /\ o6 <= o5
  BY DEF One
<1>2. a \in Nat /\ b \in Nat /\ c \in Nat
  BY PhaseSetsFinite
<1>3. /\ phase' \in [Requests -> Phase] /\ permits' \in Nat /\ Queued'
      /\ NoIdlePermit'
      /\ permits' + aa + bb = n + a - o1 + b - o2 + o3 + o4
      /\ cc = c - o5 + o6
  BY Woke DEF IInv
<1>4. cc \in Nat
  <2>1. IsFiniteSet(In(InMiddleware)')
    <3>1. In(InMiddleware)' \in SUBSET Requests
      BY DEF In
    <3> QED BY <3>1, ServingAssumption, FS_Subset
  <2> QED BY <2>1, FS_CardinalityType
<1>5. /\ permits + a + b = MAX_CONCURRENT_REQUESTS /\ active_in_flight_requests = c
      /\ active_in_flight_requests <= MAX_CONCURRENT_REQUESTS + MAX_BACKPRESSURE_QUEUE
      /\ permits \in Nat /\ active_in_flight_requests \in Nat
  BY DEF IInv, PermitsConserved, InFlightExact, Types
<1>6. /\ n + o3 + o4 = permits + o1 + o2
      /\ active_in_flight_requests' = active_in_flight_requests - o5 + o6
  OBVIOUS
<1>7. MAX_CONCURRENT_REQUESTS \in Nat /\ MAX_BACKPRESSURE_QUEUE \in Nat
  BY ServingAssumption
<1> HIDE DEF a, b, c, aa, bb, cc, o1, o2, o3, o4, o5, o6
<1>8. permits' + aa + bb = MAX_CONCURRENT_REQUESTS
  BY <1>1, <1>2, <1>3, <1>5, <1>6
<1>9. /\ active_in_flight_requests' = cc /\ active_in_flight_requests' \in Nat
      /\ active_in_flight_requests' <= MAX_CONCURRENT_REQUESTS + MAX_BACKPRESSURE_QUEUE
  BY <1>1, <1>2, <1>3, <1>4, <1>5, <1>6, <1>7
<1>10. PermitsConserved' /\ InFlightExact'
  BY <1>8, <1>9 DEF aa, bb, cc, PermitsConserved, InFlightExact
<1> QED BY <1>3, <1>9, <1>10 DEF IInv, Types

LEMMA SumKept ==
  ASSUME NEW n \in Nat, NEW nn \in Nat, NEW a \in Nat, NEW b \in Nat,
         NEW o1 \in Nat, NEW o2 \in Nat, NEW o3 \in Nat, NEW o4 \in Nat,
         nn + o3 + o4 = n + o1 + o2
  PROVE  nn + (a - o1 + o3) + (b - o2 + o4) = n + a + b
OBVIOUS

Accounted(r, p) ==
  /\ permits' + One(p \in WithPermit) + One(p = "lost")
       = permits + One(phase[r] \in WithPermit) + One(phase[r] = "lost")
  /\ active_in_flight_requests' = active_in_flight_requests
       - One(phase[r] \in InMiddleware) + One(p \in InMiddleware)
  /\ phase[r] \in InMiddleware \/ p \notin InMiddleware \/ ~Saturated

LEMMA MoveKeeps ==
  ASSUME IInv, NEW r \in Requests, NEW p \in Phase, Becomes(r, p),
         Queued', NoIdlePermit', permits' \in Nat,
         Accounted(r, p)
  PROVE  IInv'
<1> DEFINE a == Cardinality(In(WithPermit))
           b == Cardinality(In({"lost"}))
           c == Cardinality(In(InMiddleware))
           aa == Cardinality(In(WithPermit)')
           bb == Cardinality(In({"lost"})')
           cc == Cardinality(In(InMiddleware)')
           o1 == One(phase[r] \in WithPermit)
           o2 == One(phase[r] = "lost")
           o3 == One(p \in WithPermit)
           o4 == One(p = "lost")
           o5 == One(phase[r] \in InMiddleware)
           o6 == One(p \in InMiddleware)
           N == MAX_CONCURRENT_REQUESTS + MAX_BACKPRESSURE_QUEUE
<1>1. /\ o1 \in Nat /\ o2 \in Nat /\ o3 \in Nat /\ o4 \in Nat /\ o5 \in Nat /\ o6 \in Nat
      /\ o6 <= 1 /\ (o6 <= o5 \/ ~(active_in_flight_requests >= N))
  BY DEF One, Saturated, Accounted
<1>2. /\ aa = a - o1 + o3 /\ cc = c - o5 + o6 /\ bb = b - o2 + o4
      /\ a \in Nat /\ b \in Nat /\ c \in Nat /\ aa \in Nat /\ bb \in Nat /\ cc \in Nat
  <2>1. Types
    BY DEF IInv
  <2>2. aa = a - o1 + o3 /\ a \in Nat /\ aa \in Nat
    BY <2>1, CountMoved
  <2>3. cc = c - o5 + o6 /\ c \in Nat /\ cc \in Nat
    BY <2>1, CountMoved
  <2>4. bb = b - o2 + o4 /\ b \in Nat /\ bb \in Nat
    BY <2>1, CountMoved DEF One
  <2> QED BY <2>2, <2>3, <2>4
<1>3. /\ permits + a + b = MAX_CONCURRENT_REQUESTS /\ active_in_flight_requests = c
      /\ active_in_flight_requests <= N
      /\ permits \in Nat /\ active_in_flight_requests \in Nat
  BY DEF IInv, PermitsConserved, InFlightExact, Types
<1>4. /\ permits' + o3 + o4 = permits + o1 + o2
      /\ active_in_flight_requests' = active_in_flight_requests - o5 + o6
  BY DEF Accounted
<1>5. N \in Nat
  BY ServingAssumption
<1>6. phase' \in [Requests -> Phase]
  BY DEF IInv, Types, Becomes
<1> HIDE DEF a, b, c, aa, bb, cc, o1, o2, o3, o4, o5, o6, N
<1>7. permits' + aa + bb = MAX_CONCURRENT_REQUESTS
  <2> DEFINE n == permits
             nn == permits'
  <2>1. n \in Nat /\ nn \in Nat /\ nn + o3 + o4 = n + o1 + o2
    BY <1>3, <1>4
  <2>2. n + a + b = MAX_CONCURRENT_REQUESTS
    BY <1>3
  <2> HIDE DEF n, nn
  <2>3. nn + (a - o1 + o3) + (b - o2 + o4) = n + a + b
    BY <1>1, <1>2, <2>1, SumKept
  <2>4. nn + aa + bb = MAX_CONCURRENT_REQUESTS
    BY <1>2, <2>2, <2>3
  <2> QED BY <2>4 DEF nn
<1>8. /\ active_in_flight_requests' = cc /\ active_in_flight_requests' \in Nat
      /\ active_in_flight_requests' <= N
  BY <1>1, <1>2, <1>3, <1>4, <1>5
<1>9. PermitsConserved' /\ InFlightExact'
  BY <1>7, <1>8 DEF aa, bb, cc, N, PermitsConserved, InFlightExact
<1> QED BY <1>6, <1>8, <1>9 DEF IInv, Types

(* Steps of a request outside of the queue leave the queue as it is. *)
LEMMA QueueUntouched ==
  ASSUME IInv, NEW r \in Requests, NEW p \in Phase, Becomes(r, p),
         phase[r] \notin {"queued", "granted"}, p # "queued", UNCHANGED waiters,
         permits' \in Nat
  PROVE  Queued' /\ (permits' <= permits => NoIdlePermit')
<1>1. In({"queued"})' = In({"queued"})
  BY DEF In, Becomes, IInv, Types
<1>2. Queued'
  <2> SUFFICES waiters \in Seq(Requests) /\ Distinct(waiters)
                 /\ Members(waiters) = In({"queued"})'
    BY DEF Queued, Distinct, Members
  <2> QED BY <1>1 DEF IInv, Queued
<1>3. ASSUME NEW s \in Requests, phase[s] = "granted" PROVE phase'[s] = "granted"
  BY <1>3 DEF Becomes, IInv, Types
<1>4. ASSUME permits' <= permits, permits' > 0, waiters' # <<>>
      PROVE  \E s \in Requests : phase'[s] = "granted"
  <2>1. permits > 0 /\ waiters # <<>>
    BY <1>4 DEF IInv, Types
  <2> QED BY <1>3, <2>1 DEF IInv, NoIdlePermit
<1> QED BY <1>2, <1>4 DEF NoIdlePermit

-----------------------------------------------------------------------------
(* The actions. *)
LEMMA Constants ==
  /\ MAX_CONCURRENT_REQUESTS \in Nat \ {0} /\ MAX_BACKPRESSURE_QUEUE \in Nat
  /\ \A r : Handling(r) \in {"formed", "running"}
BY ServingAssumption DEF Handling

LEMMA GateSteps ==
  ASSUME IInv, NEW r \in Requests,
         \/ Enter(r) \/ Shed(r) \/ Respond(r) \/ StartResponse(r) \/ StartBody(r)
         \/ CancelUnseen(r) \/ CancelReady(r)
  PROVE  IInv'
<1> USE DEF One, WithPermit, InMiddleware, Left
<1>1. permits \in Nat /\ active_in_flight_requests \in Nat
  BY DEF IInv, Types
<1>2. ASSUME UNCHANGED <<permits, waiters>> PROVE permits' \in Nat /\ permits' <= permits
  BY <1>1, <1>2
<1>3. CASE Enter(r)
  <2>1. Queued' /\ NoIdlePermit'
    BY <1>1, <1>2, <1>3, QueueUntouched DEF Enter, Phase
  <2> QED BY <1>1, <1>3, <2>1, MoveKeeps DEF Accounted, Enter, Phase
<1>4. CASE Shed(r)
  <2>1. Queued' /\ NoIdlePermit'
    BY <1>1, <1>2, <1>4, QueueUntouched DEF Shed, Phase
  <2> QED BY <1>1, <1>4, <2>1, MoveKeeps DEF Accounted, Shed, Phase
<1>5. CASE Respond(r)
  <2>1. Queued' /\ NoIdlePermit'
    BY <1>1, <1>2, <1>5, QueueUntouched DEF Respond, Phase
  <2> QED BY <1>1, <1>5, <2>1, MoveKeeps DEF Accounted, Respond, Phase
<1>6. CASE StartResponse(r)
  <2>1. Queued' /\ NoIdlePermit'
    BY <1>1, <1>2, <1>6, QueueUntouched DEF StartResponse, Phase
  <2> QED BY <1>1, <1>6, <2>1, MoveKeeps DEF Accounted, StartResponse, Phase
<1>7. CASE StartBody(r)
  <2>1. Queued' /\ NoIdlePermit'
    BY <1>1, <1>2, <1>7, QueueUntouched DEF StartBody, Phase
  <2> QED BY <1>1, <1>7, <2>1, MoveKeeps DEF Accounted, StartBody, Phase
<1>8. CASE CancelUnseen(r)
  <2>1. Queued' /\ NoIdlePermit'
    BY <1>1, <1>2, <1>8, QueueUntouched DEF CancelUnseen, Phase
  <2> QED BY <1>1, <1>8, <2>1, MoveKeeps DEF Accounted, CancelUnseen, Phase
<1>9. CASE CancelReady(r)
  <2>1. Queued' /\ NoIdlePermit'
    BY <1>1, <1>2, <1>9, QueueUntouched DEF CancelReady, Phase
  <2> QED BY <1>1, <1>9, <2>1, MoveKeeps DEF Accounted, CancelReady, Phase
<1> QED BY <1>3, <1>4, <1>5, <1>6, <1>7, <1>8, <1>9

(* A wait begins. *)
LEMMA AcquireStep ==
  ASSUME IInv, NEW r \in Requests, Acquire(r)
  PROVE  IInv'
<1>1. /\ permits \in Nat /\ permits # 0 /\ phase[r] = "entered"
      /\ active_in_flight_requests \in Nat /\ Becomes(r, Handling(r))
      /\ permits' = permits - 1 /\ UNCHANGED <<active_in_flight_requests, waiters>>
  BY DEF IInv, Types, Acquire, locked
<1>2. /\ Handling(r) \in Phase /\ Handling(r) \in WithPermit
      /\ Handling(r) \in InMiddleware /\ Handling(r) \notin {"queued", "lost"}
  BY Constants DEF Phase, WithPermit, InMiddleware
<1>3. Queued' /\ NoIdlePermit' /\ permits' \in Nat
  BY <1>1, <1>2, QueueUntouched
<1> QED BY <1>1, <1>2, <1>3, MoveKeeps DEF Accounted, One, WithPermit, InMiddleware

LEMMA QueueStep ==
  ASSUME IInv, NEW r \in Requests, Queue(r)
  PROVE  IInv'
<1>1. /\ phase[r] = "entered" /\ Becomes(r, "queued") /\ waiters' = Append(waiters, r)
      /\ permits' = permits /\ active_in_flight_requests' = active_in_flight_requests
      /\ permits \in Nat /\ active_in_flight_requests \in Nat /\ locked
      /\ phase \in [Requests -> Phase]
  BY DEF IInv, Types, Queue
<1>2. /\ waiters \in Seq(Requests) /\ Distinct(waiters)
      /\ Members(waiters) = In({"queued"})
  BY DEF IInv, Queued
<1>3. Queued'
  <2> DEFINE ws == Append(waiters, r)
  <2>1. /\ ws \in Seq(Requests) /\ Len(ws) = Len(waiters) + 1 /\ Len(waiters) \in Nat
        /\ \A j \in 1..Len(ws) : ws[j] = IF j <= Len(waiters) THEN waiters[j] ELSE r
    BY <1>2
  <2>2. \A j \in 1..Len(waiters) : waiters[j] # r
    BY <1>1, <1>2 DEF Members, In
  <2> HIDE DEF ws
  <2>3. Distinct(ws)
    BY <1>2, <2>1, <2>2 DEF Distinct
  <2>4. Members(ws) = Members(waiters) \cup {r}
    <3>1. ASSUME NEW x \in Members(ws) PROVE x \in Members(waiters) \cup {r}
      BY <2>1 DEF Members
    <3>2. ASSUME NEW x \in Members(waiters) \cup {r} PROVE x \in Members(ws)
      <4>1. CASE x = r
        <5>1. Len(ws) \in 1..Len(ws) /\ ws[Len(ws)] = r
          BY <2>1
        <5> QED BY <4>1, <5>1 DEF Members
      <4>2. CASE x \in Members(waiters)
        BY <4>2, <2>1 DEF Members
      <4> QED BY <4>1, <4>2
    <3> QED BY <3>1, <3>2
  <2>5. In({"queued"})' = In({"queued"}) \cup {r}
    BY <1>1 DEF In, Becomes
  <2> SUFFICES ws \in Seq(Requests) /\ Distinct(ws) /\ Members(ws) = In({"queued"})'
    BY <1>1 DEF Queued, Distinct, Members, ws
  <2> QED BY <1>2, <2>1, <2>3, <2>4, <2>5
<1>4. NoIdlePermit'
  <2>1. \A s \in Requests : phase[s] = "granted" => phase'[s] = "granted"
    BY <1>1 DEF Becomes
  <2> QED BY <1>1, <2>1 DEF IInv, NoIdlePermit, locked
<1> QED BY <1>1, <1>3, <1>4, MoveKeeps DEF Accounted, One, WithPermit, InMiddleware, Phase

(* A permit goes back: by hand, or in the finally of the generator. *)
LEMMA ReleaseStep ==
  ASSUME IInv, NEW r \in Requests, NEW p \in {"ready", "done", "gone"}, Release(r, p),
         \/ phase[r] = "running" /\ p = "ready"
         \/ phase[r] = "streaming" /\ p # "ready",
         UNCHANGED active_in_flight_requests
  PROVE  IInv'
<1>1. permits \in Nat /\ active_in_flight_requests \in Nat
  BY DEF IInv, Types
<1>2. /\ waiters \in Seq(Requests) /\ Distinct(waiters)
      /\ Members(waiters) = In({"queued"}) \ {r}
  BY DEF IInv, Queued, In
<1>3. Wake(r, p, permits + 1, waiters, 1)
  BY DEF Release
<1>4. permits + 1 \in Nat /\ p \in Phase \ {"queued"} /\ 1 \in Nat /\ 1 > 0
  BY <1>1 DEF Phase
<1>5. /\ (permits + 1) + One(p \in WithPermit) + One(p = "lost")
           = permits + One(phase[r] \in WithPermit) + One(phase[r] = "lost")
      /\ active_in_flight_requests' = active_in_flight_requests
           - One(phase[r] \in InMiddleware) + One(p \in InMiddleware)
      /\ p \in InMiddleware => phase[r] \in InMiddleware
  BY <1>1 DEF One, WithPermit, InMiddleware
<1> QED BY <1>2, <1>3, <1>4, <1>5, WakeKeeps

(* A wait ends: woken, timed out, or cancelled. *)
LEMMA StopStep ==
  ASSUME IInv, NEW r \in Requests,
         NEW p \in {"formed", "running", "ready", "gone"}, NEW n \in Nat,
         StopWaiting(r, p, n),
         \/ phase[r] = "granted" /\ p \in WithPermit /\ n = permits
         \/ phase[r] \in {"entered", "queued", "granted"} /\ p \notin WithPermit
            /\ n = GivenBack(r),
         active_in_flight_requests' = IF p = "gone" THEN Left ELSE active_in_flight_requests
  PROVE  IInv'
<1> DEFINE ws == RemoveFirst(waiters, r)
<1>1. permits \in Nat /\ active_in_flight_requests \in Nat
  BY DEF IInv, Types
<1>2. ws \in Seq(Requests) /\ Distinct(ws) /\ Members(ws) = In({"queued"}) \ {r}
  BY RemovedFromQueue DEF IInv, Queued
<1>3. Wake(r, p, n, ws, n)
  BY DEF StopWaiting
<1>4. p \in Phase \ {"queued"}
  BY DEF Phase
<1>5. /\ n + One(p \in WithPermit) + One(p = "lost")
           = permits + One(phase[r] \in WithPermit) + One(phase[r] = "lost")
      /\ active_in_flight_requests' = active_in_flight_requests
           - One(phase[r] \in InMiddleware) + One(p \in InMiddleware)
      /\ p \in InMiddleware => phase[r] \in InMiddleware
  BY <1>1 DEF One, WithPermit, InMiddleware, GivenBack, Left
<1> HIDE DEF ws
<1> QED BY <1>2, <1>3, <1>4, <1>5, WakeKeeps

-----------------------------------------------------------------------------
LEMMA InvariantHolds == Spec => []IInv
<1>1. Init => IInv
  <2> SUFFICES ASSUME Init PROVE IInv
    OBVIOUS
  <2>1. /\ In({"queued"}) = {} /\ In(WithPermit) = {} /\ In({"lost"}) = {}
        /\ In(InMiddleware) = {}
    BY DEF Init, In, WithPermit, InMiddleware
  <2>2. Types
    BY Constants DEF Init, Types, Phase
  <2>3. Queued
    BY <2>1 DEF Init, Queued, Distinct, Members
  <2>4. PermitsConserved /\ InFlightExact
    BY <2>1, Constants, FS_EmptySet DEF Init, PermitsConserved, InFlightExact
  <2> QED BY <2>2, <2>3, <2>4 DEF Init, IInv, NoIdlePermit
<1>2. IInv /\ [Next]_vars => IInv'
  <2> SUFFICES ASSUME IInv, [Next]_vars PROVE IInv'
    OBVIOUS
  <2>1. ASSUME NEW r \in Requests,
               \/ Enter(r) \/ Shed(r) \/ Respond(r) \/ StartResponse(r)
               \/ StartBody(r) \/ CancelUnseen(r) \/ CancelReady(r)
        PROVE  IInv'
    BY <2>1, GateSteps
  <2>2. ASSUME NEW r \in Requests, Acquire(r) PROVE IInv'
    BY <2>2, AcquireStep
  <2>3. ASSUME NEW r \in Requests, Queue(r) PROVE IInv'
    BY <2>3, QueueStep
  <2>4. ASSUME NEW r \in Requests, FinishJson(r) PROVE IInv'
    BY <2>4, ReleaseStep DEF FinishJson
  <2>5. ASSUME NEW r \in Requests, EndStream(r) PROVE IInv'
    BY <2>5, ReleaseStep DEF EndStream, Finally
  <2>6. ASSUME NEW r \in Requests, Disconnect(r) PROVE IInv'
    BY <2>6, ReleaseStep DEF Disconnect, Finally
  <2>7. permits \in Nat /\ \A r : GivenBack(r) \in Nat
    BY DEF IInv, Types, GivenBack
  <2>8. ASSUME NEW r \in Requests, Woken(r) PROVE IInv'
    <3>1. Handling(r) \in {"formed", "running"} /\ Handling(r) \in WithPermit
      BY Constants DEF WithPermit
    <3> QED BY <2>7, <2>8, <3>1, StopStep DEF Woken
  <2>9. ASSUME NEW r \in Requests, Timeout(r) PROVE IInv'
    BY <2>7, <2>9, StopStep DEF Timeout, WithPermit
  <2>10. ASSUME NEW r \in Requests, CancelWait(r) PROVE IInv'
    BY <2>7, <2>10, StopStep DEF CancelWait, WithPermit
  <2>11. CASE UNCHANGED vars
    <3>1. /\ phase' = phase /\ permits' = permits /\ waiters' = waiters
          /\ active_in_flight_requests' = active_in_flight_requests
      BY <2>11 DEF vars
    <3> QED BY <3>1 DEF IInv, Types, Queued, Distinct, Members, In, PermitsConserved,
                        InFlightExact, NoIdlePermit
  <2> QED BY <2>1, <2>2, <2>3, <2>4, <2>5, <2>6, <2>8, <2>9, <2>10, <2>11
          DEF Next, Handle, Cancelled
<1> QED BY <1>1, <1>2, PTL DEF Spec

(* No path through the handler gives a permit back twice or keeps it, the  *)
(* race of a timeout with a grant included, and the middleware counts      *)
(* exactly the requests inside of it and lets no more in than it may, for  *)
(* any number of requests and permits.                                     *)
THEOREM AdmissionExact == Spec => []AdmissionConserved
<1>1. IInv => AdmissionConserved
  BY DEF IInv, AdmissionConserved
<1> QED BY <1>1, InvariantHolds, PTL

(* A permit is never free while somebody waits, unless a request that was  *)
(* granted one has still to run and will wake the next. *)
THEOREM PermitsPassedOn == Spec => []NoIdlePermit
<1>1. IInv => NoIdlePermit
  BY DEF IInv
<1> QED BY <1>1, InvariantHolds, PTL

(* The variables have their types, and the queue of the semaphore has each *)
(* waiting request once. *)
THEOREM ServingTypes == Spec => []TypeOK
<1>1. IInv => TypeOK
  <2> SUFFICES ASSUME IInv PROVE TypeOK
    OBVIOUS
  <2>1. permits \in 0..MAX_CONCURRENT_REQUESTS
    <3>1. Cardinality(In(WithPermit)) \in Nat /\ Cardinality(In({"lost"})) \in Nat
      BY PhaseSetsFinite
    <3> QED BY <3>1, Constants DEF IInv, Types, PermitsConserved
  <2>2. waiters \in Seq(Requests) /\ Distinct(waiters) /\ Len(waiters) \in Nat
        /\ DOMAIN waiters = 1..Len(waiters)
    BY DEF IInv, Queued
  <2>3. {waiters[j] : j \in DOMAIN waiters} = In({"queued"})
    BY <2>2 DEF IInv, Queued, Members
  <2>4. Cardinality(In({"queued"})) = Len(waiters)
    <3>1. Len(waiters) \in 0..Len(waiters)
      BY <2>2
    <3>2. Cardinality(First(waiters, Len(waiters))) = Len(waiters)
      BY <2>2, <3>1, FirstOfQueue
    <3>3. First(waiters, Len(waiters)) = In({"queued"})
      BY DEF IInv, Queued, Members, First
    <3> QED BY <3>2, <3>3
  <2> QED BY <2>1, <2>2, <2>3, <2>4 DEF IInv, Types, TypeOK
<1> QED BY <1>1, InvariantHolds, PTL

=============================================================================
