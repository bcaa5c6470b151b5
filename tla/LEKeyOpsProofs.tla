--------------------------- MODULE LEKeyOpsProofs ---------------------------
(* What the operations on the vector of LE keys return and preserve. *)
EXTENDS LEKeyOps, FiniteSetTheorems, SequenceTheorems, TLAPS

-----------------------------------------------------------------------------
(***************************************************************************)
(* Induction, as far as it is needed: there is a least number in a set.    *)
(***************************************************************************)

\* Every nonempty set of natural numbers has a least element.
LEMMA LeastExists ==
  ASSUME NEW S \in SUBSET Nat, S # {}
  PROVE  \E m \in S : \A n \in S : m <= n
<1>1. IsWellFoundedOn(OpToRel(<, Nat), Nat)
  BY NatLessThanWellFounded
<1>2. PICK m \in S : \A n \in S : <<n, m>> \notin OpToRel(<, Nat)
  BY <1>1, WFMin
<1>3. \A n \in S : ~(n < m)
  BY <1>2 DEF OpToRel
<1> QED
  BY <1>3

\* Every nonempty set of positions has a last one.
LEMMA GreatestExists ==
  ASSUME NEW N \in Nat, NEW S \in SUBSET (1 .. N), S # {}
  PROVE  \E m \in S : \A n \in S : n <= m
<1> DEFINE T == {k \in Nat : \E n \in S : k = N - n}
<1>1. \A n \in S : N - n \in T
  OBVIOUS
<1>2. PICK k \in T : \A l \in T : k <= l
  BY <1>1, LeastExists
<1>3. PICK m \in S : k = N - m
  BY <1>2
<1>4. \A n \in S : N - m <= N - n
  BY <1>1, <1>2, <1>3
<1> QED
  BY <1>4

\* The first n positions are finite in number, and n.
LEMMA CountUpTo ==
  ASSUME NEW n \in Nat
  PROVE  IsFiniteSet(1 .. n) /\ Cardinality(1 .. n) = n
  BY FS_Interval

-----------------------------------------------------------------------------
(***************************************************************************)
(* Selection.                                                              *)
(***************************************************************************)

Increasing(n, P) ==
  {f \in [1 .. n -> P] : \A i, j \in 1 .. n : i < j => f[i] < f[j]}

\* The positions of a finite set can be enumerated from the first to the last:
\* by induction on their number, the least one in front of the others.
LEMMA IncreasingExists ==
  ASSUME NEW P \in SUBSET Nat, IsFiniteSet(P)
  PROVE  Increasing(Cardinality(P), P) # {}
<1> DEFINE Fails(Q) == IsFiniteSet(Q) /\ Increasing(Cardinality(Q), Q) = {}
           T == {n \in Nat : \E Q \in SUBSET Nat : Fails(Q) /\ Cardinality(Q) = n}
<1>1. SUFFICES ASSUME T # {} PROVE FALSE
  <2>1. Cardinality(P) \in Nat
    BY FS_CardinalityType
  <2> QED
    BY <2>1
<1>2. PICK n \in T : \A k \in T : n <= k
  BY <1>1, LeastExists
<1>3. PICK Q \in SUBSET Nat : Fails(Q) /\ Cardinality(Q) = n
  BY <1>2
<1>4. n \in Nat /\ IsFiniteSet(Q) /\ Increasing(n, Q) = {}
  BY <1>3
<1> HIDE DEF Fails
<1>5. CASE n = 0
  <2>1. [k \in 1 .. 0 |-> 0] \in Increasing(n, Q)
    BY <1>5 DEF Increasing
  <2> QED
    BY <1>4, <2>1
<1>6. CASE n # 0
  <2>1. Q # {}
    BY <1>3, <1>6, FS_EmptySet
  <2>2. PICK m \in Q : \A k \in Q : m <= k
    BY <2>1, LeastExists
  <2>3. IsFiniteSet(Q \ {m}) /\ Cardinality(Q \ {m}) = n - 1
    BY <1>3, <1>4, FS_RemoveElement
  <2>4. ~Fails(Q \ {m})
    <3>1. n - 1 \in Nat /\ ~(n <= n - 1)
      BY <1>4, <1>6
    <3>2. n - 1 \notin T
      BY <1>2, <3>1
    <3> QED
      BY <2>3, <3>1, <3>2
  <2>5. PICK g \in Increasing(n - 1, Q \ {m}) : TRUE
    BY <2>3, <2>4 DEF Fails
  <2>6. /\ g \in [1 .. n - 1 -> Q \ {m}]
        /\ \A i, j \in 1 .. n - 1 : i < j => g[i] < g[j]
    BY <2>5 DEF Increasing
  <2> DEFINE f == [k \in 1 .. n |-> IF k = 1 THEN m ELSE g[k - 1]]
  <2>7. ASSUME NEW k \in 1 .. n, k # 1
        PROVE  k - 1 \in 1 .. n - 1 /\ f[k] = g[k - 1] /\ f[k] \in Q /\ m < f[k]
    <3>1. k - 1 \in 1 .. n - 1 /\ f[k] = g[k - 1]
      BY <1>4, <2>7
    <3>2. g[k - 1] \in Q \ {m}
      BY <2>6, <3>1
    <3>3. m < g[k - 1]
      <4>1. m <= g[k - 1] /\ m # g[k - 1] /\ m \in Nat /\ g[k - 1] \in Nat
        BY <2>2, <3>2
      <4> QED
        BY <4>1
    <3> QED
      BY <3>1, <3>2, <3>3
  <2>8. f \in [1 .. n -> Q]
    BY <2>7
  <2>9. ASSUME NEW i \in 1 .. n, NEW j \in 1 .. n, i < j PROVE f[i] < f[j]
    <3>1. j # 1
      BY <2>9
    <3>2. CASE i = 1
      BY <2>7, <3>1, <3>2
    <3>3. CASE i # 1
      <4>1. /\ i - 1 \in 1 .. n - 1 /\ f[i] = g[i - 1]
            /\ j - 1 \in 1 .. n - 1 /\ f[j] = g[j - 1]
        BY <2>7, <3>1, <3>3
      <4>2. i - 1 < j - 1
        BY <2>9
      <4> QED
        BY <2>6, <4>1, <4>2
    <3> QED
      BY <3>2, <3>3
  <2> HIDE DEF f
  <2>10. f \in Increasing(n, Q)
    BY <2>8, <2>9 DEF Increasing
  <2> QED
    BY <1>4, <2>10
<1> QED
  BY <1>5, <1>6

\* The k-th element of the selection is the f[k]-th of the vector, in its order.
Picks(f, s, P) ==
  /\ f \in [1 .. Cardinality(P) -> P]
  /\ \A k \in 1 .. Cardinality(P) : Selected(s, P)[k] = s[f[k]]
  /\ \A i, j \in 1 .. Cardinality(P) : i < j => f[i] < f[j]
  /\ \A i, j \in 1 .. Cardinality(P) : f[i] = f[j] => i = j
  /\ \A p \in P : \E k \in 1 .. Cardinality(P) : f[k] = p

\* A selection has each selected position once, in the order of the vector, and
\* nothing else.
LEMMA SelectedProperties ==
  ASSUME NEW R, NEW s \in Seq(R), NEW P \in SUBSET DOMAIN s
  PROVE  /\ Selected(s, P) \in Seq(R)
         /\ IsFiniteSet(P) /\ Cardinality(P) \in Nat
         /\ Len(Selected(s, P)) = Cardinality(P)
         /\ Cardinality(P) <= Len(s)
         /\ \E f : Picks(f, s, P)
<1> DEFINE n == Cardinality(P)
           f == Enumeration(P)
           t == Selected(s, P)
<1>1. DOMAIN s = 1 .. Len(s) /\ Len(s) \in Nat
  BY LenProperties
<1>2. IsFiniteSet(1 .. Len(s)) /\ Cardinality(1 .. Len(s)) = Len(s)
  BY <1>1, CountUpTo
<1>3. IsFiniteSet(P) /\ n \in Nat /\ n <= Len(s)
  BY <1>1, <1>2, FS_Subset, FS_CardinalityType
<1>4. P \in SUBSET Nat
  BY <1>1
<1>5. \E g \in [1 .. n -> P] : \A i, j \in 1 .. n : i < j => g[i] < g[j]
  BY <1>3, <1>4, IncreasingExists DEF Increasing
<1>6. f \in [1 .. n -> P] /\ \A i, j \in 1 .. n : i < j => f[i] < f[j]
  BY <1>5 DEF Enumeration
<1>7. t = [k \in 1 .. n |-> s[f[k]]]
  BY DEF Selected
<1> HIDE DEF n, f, t
<1>8. \A i, j \in 1 .. n : f[i] = f[j] => i = j
  <2> SUFFICES ASSUME NEW i \in 1 .. n, NEW j \in 1 .. n, f[i] = f[j] PROVE i = j
    OBVIOUS
  <2>1. ~(i < j) /\ ~(j < i)
    <3>1. f[i] \in Nat /\ f[j] \in Nat
      BY <1>4, <1>6
    <3> QED
      BY <1>6, <3>1
  <2> QED
    BY <1>3, <2>1
<1>9. \A p \in P : \E k \in 1 .. n : f[k] = p
  <2>1. f \in Injection(1 .. n, P)
    BY <1>6, <1>8 DEF Injection, IsInjective
  <2>2. Cardinality(1 .. n) = Cardinality(P)
    BY <1>3, FS_Interval DEF n
  <2>3. f \in Surjection(1 .. n, P)
    BY <1>3, <2>1, <2>2, FS_Injection
  <2> QED
    BY <2>3 DEF Surjection
<1>10. \A k \in 1 .. n : f[k] \in DOMAIN s /\ t[k] = s[f[k]] /\ t[k] \in R
  BY <1>1, <1>6, <1>7, ElementOfSeq
<1>11. t \in Seq(R) /\ Len(t) = n
  BY <1>3, <1>7, <1>10
<1>12. Picks(f, s, P)
  BY <1>6, <1>8, <1>9, <1>10 DEF n, t, Picks
<1> QED
  BY <1>3, <1>11, <1>12 DEF n, t

-----------------------------------------------------------------------------
(***************************************************************************)
(* Lookup and update.                                                      *)
(***************************************************************************)

\* std::find_if on a vector without repeated ids finds the one match there is.
LEMMA FirstMatchFinds ==
  ASSUME NEW R, NEW s \in Seq(R), UniqueIds(s), NEW id \in Ids(s)
  PROVE  FirstMatch(s, id) \in DOMAIN s /\ s[FirstMatch(s, id)].id = id
<1>1. PICK i \in DOMAIN s : s[i].id = id
  BY DEF Ids
<1>2. i \in 1 .. Len(s) /\ DOMAIN s = 1 .. Len(s) /\ Len(s) \in Nat
  BY <1>1, LenProperties
<1>3. \A j \in 1 .. i - 1 : s[j].id # id
  BY <1>1, <1>2 DEF UniqueIds
<1> QED
  BY <1>1, <1>3 DEF FirstMatch

\* The loop of load_keys keeps a vector of records a vector of records, and
\* adds at most one to its length.
LEMMA UpsertType ==
  ASSUME NEW R, NEW s \in Seq(R), NEW r \in R
  PROVE  /\ Upsert(s, r) \in Seq(R)
         /\ Len(Upsert(s, r)) =
                IF ContainsKey(s, r.id) THEN Len(s) ELSE Len(s) + 1
<1>1. CASE ContainsKey(s, r.id)
  <2> DEFINE i == FirstMatch(s, r.id)
  <2>1. CASE i \in 1 .. Len(s)
    BY <1>1, <2>1, ExceptSeq DEF Upsert
  <2>2. CASE i \notin 1 .. Len(s)
    <3>1. i \notin DOMAIN s
      BY <2>2, LenProperties
    <3>2. [s EXCEPT ![i] = r] = s
      BY <3>1, LenProperties
    <3> QED
      BY <1>1, <3>2 DEF Upsert
  <2> QED
    BY <2>1, <2>2
<1>2. CASE ~ContainsKey(s, r.id)
  BY <1>2, AppendProperties DEF Upsert
<1> QED
  BY <1>1, <1>2

\* One turn of the loop stores the record's id, forgets none and repeats none.
LEMMA UpsertIds ==
  ASSUME NEW R, NEW s \in Seq(R), UniqueIds(s), NEW r \in R
  PROVE  /\ UniqueIds(Upsert(s, r))
         /\ Ids(Upsert(s, r)) = Ids(s) \cup {r.id}
<1> DEFINE t == Upsert(s, r)
<1>0. /\ DOMAIN s = 1 .. Len(s) /\ Len(s) \in Nat
      /\ t \in Seq(R) /\ DOMAIN t = 1 .. Len(t) /\ Len(t) \in Nat
  BY UpsertType, LenProperties
<1>1. CASE ContainsKey(s, r.id)
  <2> DEFINE i == FirstMatch(s, r.id)
  <2>1. i \in 1 .. Len(s) /\ s[i].id = r.id
    BY <1>0, <1>1, FirstMatchFinds DEF ContainsKey
  <2>2. Len(t) = Len(s)
    BY <1>1, UpsertType
  <2>3. \A j \in 1 .. Len(s) : t[j] = IF j = i THEN r ELSE s[j]
    BY <1>1, <2>1, ExceptSeq DEF Upsert
  <2>4. \A j \in 1 .. Len(s) : t[j].id = s[j].id
    BY <2>1, <2>3
  <2>5. UniqueIds(t)
    BY <1>0, <2>2, <2>4 DEF UniqueIds
  <2>6. Ids(t) = Ids(s)
    BY <1>0, <2>2, <2>4 DEF Ids
  <2> HIDE DEF t
  <2> QED
    BY <1>1, <2>5, <2>6 DEF t, ContainsKey
<1>2. CASE ~ContainsKey(s, r.id)
  <2>1. /\ Len(t) = Len(s) + 1
        /\ \A j \in 1 .. Len(s) : t[j] = s[j]
        /\ t[Len(s) + 1] = r
    BY <1>2, AppendProperties DEF Upsert
  <2>2. \A j \in 1 .. Len(s) : s[j].id # r.id
    BY <1>0, <1>2 DEF ContainsKey, Ids
  <2> HIDE DEF t
  <2>3. \A i, j \in 1 .. Len(s) + 1 : t[i].id = t[j].id => i = j
    <3> SUFFICES ASSUME NEW i \in 1 .. Len(s) + 1, NEW j \in 1 .. Len(s) + 1,
                        t[i].id = t[j].id
                 PROVE  i = j
      OBVIOUS
    <3>1. CASE i <= Len(s) /\ j <= Len(s)
      BY <1>0, <2>1, <3>1 DEF UniqueIds
    <3>2. CASE i = Len(s) + 1 \/ j = Len(s) + 1
      <4>1. \A k \in 1 .. Len(s) : t[k].id # t[Len(s) + 1].id
        BY <2>1, <2>2
      <4> QED
        BY <1>0, <3>2, <4>1
    <3> QED
      BY <1>0, <3>1, <3>2
  <2>4. UniqueIds(t)
    BY <1>0, <2>1, <2>3 DEF UniqueIds
  <2>5. Ids(t) \subseteq Ids(s) \cup {r.id}
    <3> SUFFICES ASSUME NEW j \in 1 .. Len(s) + 1
                 PROVE  t[j].id \in Ids(s) \cup {r.id}
      BY <1>0, <2>1 DEF Ids
    <3>1. CASE j <= Len(s)
      BY <1>0, <2>1, <3>1 DEF Ids
    <3>2. CASE j = Len(s) + 1
      BY <2>1, <3>2
    <3> QED
      BY <1>0, <3>1, <3>2
  <2>6. Ids(s) \cup {r.id} \subseteq Ids(t)
    <3>1. ASSUME NEW j \in 1 .. Len(s) PROVE s[j].id \in Ids(t)
      <4>1. j \in DOMAIN t /\ t[j] = s[j]
        BY <1>0, <2>1
      <4> QED
        BY <4>1 DEF Ids
    <3>2. r.id \in Ids(t)
      <4>1. Len(s) + 1 \in DOMAIN t
        BY <1>0, <2>1
      <4> QED
        BY <2>1, <4>1 DEF Ids
    <3> QED
      BY <1>0, <3>1, <3>2 DEF Ids
  <2> QED
    BY <2>4, <2>5, <2>6 DEF t
<1> QED
  BY <1>1, <1>2

-----------------------------------------------------------------------------
(***************************************************************************)
(* The room a batch may need.                                              *)
(***************************************************************************)

\* The positions would_overflow counts are finitely many.
LEMMA FreshFinite ==
  ASSUME NEW R, NEW b \in Seq(R), NEW first \in Nat, NEW s
  PROVE  /\ IsFiniteSet(FreshPositions(b, first, s))
         /\ Cardinality(FreshPositions(b, first, s)) \in Nat
<1>1. IsFiniteSet(first .. Len(b))
  BY FS_Interval, LenProperties
<1>2. FreshPositions(b, first, s) \in SUBSET (first .. Len(b))
  BY DEF FreshPositions
<1> QED
  BY <1>1, <1>2, FS_Subset, FS_CardinalityType

\* A turn of the loop that appends uses up one of the positions counted; a turn
\* that replaces uses none: the sum of length and count never grows.
LEMMA UpsertRoom ==
  ASSUME NEW R, NEW s \in Seq(R), UniqueIds(s), NEW b \in Seq(R),
         NEW n \in 1 .. Len(b)
  PROVE  Len(Upsert(s, b[n]))
           + Cardinality(FreshPositions(b, n + 1, Upsert(s, b[n])))
         <= Len(s) + Cardinality(FreshPositions(b, n, s))
<1> DEFINE t == Upsert(s, b[n])
           F == FreshPositions(b, n, s)
           G == FreshPositions(b, n + 1, t)
<1>1. b[n] \in R /\ n \in Nat /\ Len(b) \in Nat
  BY ElementOfSeq, LenProperties
<1>2. Ids(t) = Ids(s) \cup {b[n].id}
  BY <1>1, UpsertIds
<1>3. Len(t) = IF b[n].id \in Ids(s) THEN Len(s) ELSE Len(s) + 1
  BY <1>1, UpsertType DEF ContainsKey
<1>4. IsFiniteSet(F) /\ Cardinality(F) \in Nat /\ Cardinality(G) \in Nat
  BY <1>1, FreshFinite
<1>5. Len(s) \in Nat
  BY LenProperties
<1> HIDE DEF t
<1>6. G \subseteq F \ {n}
  BY <1>1, <1>2 DEF FreshPositions
<1>7. IsFiniteSet(F \ {n}) /\ Cardinality(F \ {n}) =
          IF n \in F THEN Cardinality(F) - 1 ELSE Cardinality(F)
  BY <1>4, FS_RemoveElement
<1>8. Cardinality(G) <= Cardinality(F \ {n})
  BY <1>6, <1>7, FS_Subset
<1>9. n \in F <=> b[n].id \notin Ids(s)
  BY <1>1 DEF FreshPositions
<1> HIDE DEF F, G
<1>10. Len(t) + Cardinality(G) <= Len(s) + Cardinality(F)
  BY <1>3, <1>4, <1>5, <1>7, <1>8, <1>9
<1> QED
  BY <1>10 DEF t, F, G

-----------------------------------------------------------------------------
(***************************************************************************)
(* std::erase_if.                                                          *)
(***************************************************************************)

\* f leads from the positions of t to all positions of s but those of the id, in
\* their order, and to the same records.
KeepsOthers(f, s, id, t) ==
  /\ f \in [DOMAIN t -> {i \in DOMAIN s : s[i].id # id}]
  /\ \A k \in DOMAIN t : t[k] = s[f[k]]
  /\ \A k, l \in DOMAIN t : k < l => f[k] < f[l]
  /\ \A i \in DOMAIN s : s[i].id # id => \E k \in DOMAIN t : f[k] = i

\* An erasure takes out the id, every time it is there, and nothing but the id:
\* the records of the other ids all stay, those of a repeated id included, in
\* the order they had; and the length tells whether the id was there.
LEMMA EraseProperties ==
  ASSUME NEW R, NEW s \in Seq(R), NEW id
  PROVE  /\ Erase(s, id) \in Seq(R)
         /\ Len(Erase(s, id)) <= Len(s)
         /\ Ids(Erase(s, id)) = Ids(s) \ {id}
         /\ \E f : KeepsOthers(f, s, id, Erase(s, id))
         /\ \A k \in DOMAIN Erase(s, id) : \E i \in DOMAIN s : Erase(s, id)[k] = s[i]
         /\ UniqueIds(s) => UniqueIds(Erase(s, id))
         /\ Len(Erase(s, id)) = Len(s) <=> ~ContainsKey(s, id)
<1>1. PICK P \in SUBSET DOMAIN s : P = {i \in DOMAIN s : s[i].id # id}
  OBVIOUS
<1> DEFINE n == Cardinality(P)
           t == Selected(s, P)
<1>2. Erase(s, id) = t
  BY <1>1 DEF Erase
<1>3. DOMAIN s = 1 .. Len(s) /\ Len(s) \in Nat
  BY LenProperties
<1>4. /\ t \in Seq(R) /\ IsFiniteSet(P) /\ n \in Nat
      /\ Len(t) = n /\ n <= Len(s) /\ DOMAIN t = 1 .. n
  BY SelectedProperties, LenProperties
<1>5. PICK f : Picks(f, s, P)
  BY SelectedProperties
<1>6. /\ f \in [1 .. n -> P]
      /\ \A k \in 1 .. n : t[k] = s[f[k]]
      /\ \A i, j \in 1 .. n : i < j => f[i] < f[j]
      /\ \A i, j \in 1 .. n : f[i] = f[j] => i = j
      /\ \A p \in P : \E k \in 1 .. n : f[k] = p
  BY <1>5 DEF Picks
<1>7. \A k \in 1 .. n : f[k] \in DOMAIN s /\ s[f[k]].id # id
  BY <1>1, <1>6
<1> HIDE DEF n, t
<1>8. Ids(t) \subseteq Ids(s) \ {id}
  BY <1>4, <1>6, <1>7 DEF Ids
<1>9. Ids(s) \ {id} \subseteq Ids(t)
  <2> SUFFICES ASSUME NEW i \in DOMAIN s, s[i].id # id PROVE s[i].id \in Ids(t)
    BY DEF Ids
  <2>1. PICK k \in 1 .. n : f[k] = i
    BY <1>1, <1>6
  <2>2. k \in DOMAIN t /\ t[k] = s[i]
    BY <1>4, <1>6, <2>1
  <2> QED
    BY <2>2 DEF Ids
<1>10. ASSUME UniqueIds(s) PROVE UniqueIds(t)
  <2> SUFFICES ASSUME NEW i \in 1 .. n, NEW j \in 1 .. n, t[i].id = t[j].id
               PROVE  i = j
    BY <1>4 DEF UniqueIds
  <2>1. f[i] = f[j]
    BY <1>6, <1>7, <1>10 DEF UniqueIds
  <2> QED
    BY <1>6, <2>1
<1>11. Len(t) = Len(s) <=> ~ContainsKey(s, id)
  <2>1. IsFiniteSet(1 .. Len(s)) /\ Cardinality(1 .. Len(s)) = Len(s)
    BY <1>3, CountUpTo
  <2>2. n = Len(s) <=> P = DOMAIN s
    BY <1>3, <2>1, FS_Subset DEF n
  <2>3. P = DOMAIN s <=> ~ContainsKey(s, id)
    BY <1>1 DEF ContainsKey, Ids
  <2> QED
    BY <1>4, <2>2, <2>3
<1>12. KeepsOthers(f, s, id, t)
  BY <1>1, <1>4, <1>6 DEF KeepsOthers
<1> QED
  BY <1>4, <1>6, <1>7, <1>8, <1>9, <1>10, <1>11, <1>12, <1>2

-----------------------------------------------------------------------------
(***************************************************************************)
(* Counting and last matches.                                              *)
(***************************************************************************)

\* Without repeated ids, the vector is as long as it has ids.
LEMMA IdsCardinality ==
  ASSUME NEW R, NEW s \in Seq(R), UniqueIds(s)
  PROVE  IsFiniteSet(Ids(s)) /\ Cardinality(Ids(s)) = Len(s)
<1> DEFINE g == [i \in DOMAIN s |-> s[i].id]
<1>1. DOMAIN s = 1 .. Len(s) /\ Len(s) \in Nat
  BY LenProperties
<1>2. IsFiniteSet(DOMAIN s) /\ Cardinality(DOMAIN s) = Len(s)
  BY <1>1, FS_Interval
<1>3. g \in Bijection(DOMAIN s, Ids(s))
  BY DEF Bijection, Injection, Surjection, IsInjective, Ids, UniqueIds
<1>4. ExistsBijection(DOMAIN s, Ids(s))
  BY <1>3 DEF ExistsBijection
<1> QED
  BY <1>2, <1>4, FS_Bijection

\* The last record of a batch for an id.
LEMMA LastMatchFinds ==
  ASSUME NEW R, NEW b \in Seq(R), NEW id \in Ids(b)
  PROVE  /\ LastMatch(b, id) \in DOMAIN b
         /\ b[LastMatch(b, id)].id = id
         /\ \A j \in DOMAIN b : b[j].id = id => j <= LastMatch(b, id)
<1> DEFINE S == {i \in DOMAIN b : b[i].id = id}
<1>1. DOMAIN b = 1 .. Len(b) /\ Len(b) \in Nat
  BY LenProperties
<1>2. S \in SUBSET (1 .. Len(b)) /\ S # {}
  BY <1>1 DEF Ids
<1>3. PICK m \in S : \A n \in S : n <= m
  BY <1>1, <1>2, GreatestExists
<1>4. \E i \in DOMAIN b : b[i].id = id /\ \A j \in DOMAIN b : b[j].id = id => j <= i
  BY <1>3
<1> QED
  BY <1>4 DEF LastMatch


-----------------------------------------------------------------------------
(***************************************************************************)
(* What the vector means: AsMap and Merge.                                 *)
(***************************************************************************)

\* Without repeated ids, the map holds each record of the vector.
LEMMA AsMapHolds ==
  ASSUME NEW R, NEW s \in Seq(R), UniqueIds(s)
  PROVE  /\ DOMAIN AsMap(s) = Ids(s)
         /\ \A i \in DOMAIN s : AsMap(s)[s[i].id] = s[i].val
<1>1. ASSUME NEW i \in DOMAIN s PROVE AsMap(s)[s[i].id] = s[i].val
  <2>1. s[i].id \in Ids(s)
    BY DEF Ids
  <2>2. FirstMatch(s, s[i].id) = i
    BY <2>1, FirstMatchFinds DEF UniqueIds
  <2> QED
    BY <2>1, <2>2 DEF AsMap
<1> QED
  BY <1>1 DEF AsMap

\* The map with a record stored in it.
Put(m, r) == [k \in DOMAIN m \cup {r.id} |-> IF k = r.id THEN r.val ELSE m[k]]

\* One turn of the loop stores the record in the map.
LEMMA UpsertMap ==
  ASSUME NEW R, NEW s \in Seq(R), UniqueIds(s), NEW r \in R
  PROVE  AsMap(Upsert(s, r)) = Put(AsMap(s), r)
<1> DEFINE t == Upsert(s, r)
<1>1. /\ t \in Seq(R) /\ UniqueIds(t) /\ Ids(t) = Ids(s) \cup {r.id}
      /\ DOMAIN s = 1 .. Len(s) /\ Len(s) \in Nat
      /\ DOMAIN t = 1 .. Len(t) /\ Len(t) \in Nat
  BY UpsertType, UpsertIds, LenProperties
<1>2. \A j \in DOMAIN s : s[j].id # r.id => j \in DOMAIN t /\ t[j] = s[j]
  <2>1. CASE ContainsKey(s, r.id)
    <3> DEFINE i == FirstMatch(s, r.id)
    <3>1. i \in 1 .. Len(s) /\ s[i].id = r.id
      BY <1>1, <2>1, FirstMatchFinds DEF ContainsKey
    <3>2. Len(t) = Len(s) /\ \A j \in 1 .. Len(s) : t[j] = IF j = i THEN r ELSE s[j]
      BY <2>1, <3>1, ExceptSeq DEF Upsert
    <3> QED
      BY <1>1, <3>1, <3>2
  <2>2. CASE ~ContainsKey(s, r.id)
    <3>1. Len(t) = Len(s) + 1 /\ \A j \in 1 .. Len(s) : t[j] = s[j]
      BY <2>2, AppendProperties DEF Upsert
    <3> HIDE DEF t
    <3> QED
      BY <1>1, <3>1
  <2> QED
    BY <2>1, <2>2
<1>3. \E i \in DOMAIN t : t[i] = r
  <2>1. CASE ContainsKey(s, r.id)
    <3> DEFINE i == FirstMatch(s, r.id)
    <3>1. i \in 1 .. Len(s)
      BY <1>1, <2>1, FirstMatchFinds DEF ContainsKey
    <3>2. t[i] = r /\ Len(t) = Len(s)
      BY <2>1, <3>1, ExceptSeq DEF Upsert
    <3> HIDE DEF t
    <3> QED
      BY <1>1, <3>1, <3>2
  <2>2. CASE ~ContainsKey(s, r.id)
    <3>1. Len(t) = Len(s) + 1 /\ t[Len(s) + 1] = r
      BY <2>2, AppendProperties DEF Upsert
    <3> HIDE DEF t
    <3>2. Len(s) + 1 \in DOMAIN t
      BY <1>1, <3>1
    <3> QED
      BY <3>1, <3>2
  <2> QED
    BY <2>1, <2>2
<1> HIDE DEF t
<1>4. DOMAIN AsMap(s) = Ids(s) /\ DOMAIN AsMap(t) = Ids(t)
  BY DEF AsMap
<1>5. AsMap(t)[r.id] = r.val
  BY <1>1, <1>3, AsMapHolds
<1>6. ASSUME NEW k \in Ids(s), k # r.id PROVE AsMap(t)[k] = AsMap(s)[k]
  <2>1. PICK j \in DOMAIN s : s[j].id = k
    BY DEF Ids
  <2>2. j \in DOMAIN t /\ t[j] = s[j]
    BY <1>2, <1>6, <2>1
  <2>3. AsMap(s)[k] = s[j].val
    BY <2>1, AsMapHolds
  <2>4. AsMap(t)[k] = t[j].val
    BY <1>1, <2>1, <2>2, AsMapHolds
  <2> QED
    BY <2>2, <2>3, <2>4
<1>7. AsMap(t) = [k \in Ids(t) |-> AsMap(t)[k]]
  BY DEF AsMap
<1>8. AsMap(t) = Put(AsMap(s), r)
  BY <1>1, <1>4, <1>5, <1>6, <1>7 DEF Put
<1> QED
  BY <1>8 DEF t

\* An erasure takes the id out of the map.
LEMMA EraseMap ==
  ASSUME NEW R, NEW s \in Seq(R), UniqueIds(s), NEW id
  PROVE  AsMap(Erase(s, id)) = [k \in DOMAIN AsMap(s) \ {id} |-> AsMap(s)[k]]
<1> DEFINE t == Erase(s, id)
<1>1. /\ t \in Seq(R) /\ UniqueIds(t) /\ Ids(t) = Ids(s) \ {id}
      /\ \A k \in DOMAIN t : \E i \in DOMAIN s : t[k] = s[i]
  BY EraseProperties
<1> HIDE DEF t
<1>2. DOMAIN AsMap(s) = Ids(s) /\ AsMap(t) = [k \in Ids(t) |-> AsMap(t)[k]]
  BY DEF AsMap
<1>3. ASSUME NEW k \in Ids(t) PROVE AsMap(t)[k] = AsMap(s)[k]
  <2>1. PICK j \in DOMAIN t : t[j].id = k
    BY DEF Ids
  <2>2. PICK i \in DOMAIN s : t[j] = s[i]
    BY <1>1
  <2>3. AsMap(t)[k] = t[j].val
    BY <1>1, <2>1, AsMapHolds
  <2>4. AsMap(s)[k] = s[i].val
    BY <2>1, <2>2, AsMapHolds
  <2> QED
    BY <2>2, <2>3, <2>4
<1>4. AsMap(t) = [k \in DOMAIN AsMap(s) \ {id} |-> AsMap(s)[k]]
  BY <1>1, <1>2, <1>3
<1> QED
  BY <1>4 DEF t

\* An empty batch stored over the map of a vector leaves it as it is.
LEMMA MergeNothing ==
  ASSUME NEW s PROVE Merge(AsMap(s), << >>) = AsMap(s)
<1>1. Ids(<< >>) = {}
  BY DEF Ids
<1>2. DOMAIN AsMap(s) = Ids(s) /\ AsMap(s) = [k \in Ids(s) |-> AsMap(s)[k]]
  BY DEF AsMap
<1> HIDE DEF AsMap
<1> QED
  BY <1>1, <1>2 DEF Merge

\* Storing the first record of a batch and then the rest over a map is storing
\* the batch over it.
LEMMA MergeFirst ==
  ASSUME NEW R, NEW m, NEW u \in Seq(R), u # << >>
  PROVE  Merge(Put(m, Head(u)), Tail(u)) = Merge(m, u)
<1> DEFINE t == Tail(u)
           r == u[1]
<1>1. /\ t \in Seq(R) /\ Len(t) = Len(u) - 1 /\ Len(u) \in Nat /\ Len(t) \in Nat
      /\ \A i \in 1 .. Len(t) : t[i] = u[i + 1]
      /\ DOMAIN u = 1 .. Len(u) /\ DOMAIN t = 1 .. Len(t) /\ Head(u) = r
  BY HeadTailProperties, LenProperties
<1> HIDE DEF t
<1>2. 1 \in DOMAIN u
  BY <1>1
<1>3. Ids(u) = {r.id} \cup Ids(t)
  <2>1. \A i \in DOMAIN t : u[i + 1] = t[i] /\ i + 1 \in DOMAIN u
    BY <1>1
  <2>2. ASSUME NEW i \in DOMAIN u, i # 1
        PROVE  i - 1 \in DOMAIN t /\ u[i] = t[i - 1]
    <3>1. i - 1 \in 1 .. Len(t) /\ (i - 1) + 1 = i
      BY <1>1, <2>2
    <3> QED
      BY <1>1, <3>1
  <2>3. Ids(t) \subseteq Ids(u) /\ r.id \in Ids(u)
    BY <1>2, <2>1 DEF Ids
  <2>4. Ids(u) \subseteq {r.id} \cup Ids(t)
    BY <2>2 DEF Ids
  <2> QED
    BY <2>3, <2>4
<1>4. ASSUME NEW k \in Ids(t) PROVE t[LastMatch(t, k)] = u[LastMatch(u, k)]
  <2> DEFINE i == LastMatch(t, k)
             j == LastMatch(u, k)
  <2>1. i \in DOMAIN t /\ t[i].id = k /\ \A x \in DOMAIN t : t[x].id = k => x <= i
    BY <1>1, LastMatchFinds
  <2>2. j \in DOMAIN u /\ u[j].id = k /\ \A x \in DOMAIN u : u[x].id = k => x <= j
    BY <1>3, LastMatchFinds
  <2> HIDE DEF i, j
  <2>3. i + 1 \in DOMAIN u /\ u[i + 1] = t[i]
    BY <1>1, <2>1
  <2>4. i + 1 <= j
    BY <2>1, <2>2, <2>3
  <2>5. j - 1 \in DOMAIN t /\ t[j - 1] = u[j]
    <3>1. j - 1 \in 1 .. Len(t) /\ (j - 1) + 1 = j
      BY <1>1, <2>1, <2>2, <2>4
    <3> QED
      BY <1>1, <3>1
  <2>6. j - 1 <= i
    BY <2>1, <2>2, <2>5
  <2>7. j = i + 1
    BY <1>1, <2>1, <2>2, <2>4, <2>6
  <2> QED
    BY <2>3, <2>7 DEF i, j
<1>5. ASSUME r.id \notin Ids(t) PROVE u[LastMatch(u, r.id)] = r
  <2> DEFINE j == LastMatch(u, r.id)
  <2>1. j \in DOMAIN u /\ u[j].id = r.id
    BY <1>3, LastMatchFinds
  <2> HIDE DEF j
  <2>2. CASE j # 1
    <3>1. j - 1 \in 1 .. Len(t) /\ (j - 1) + 1 = j
      BY <1>1, <2>1, <2>2
    <3>2. t[j - 1].id = r.id
      BY <1>1, <2>1, <3>1
    <3> QED
      BY <1>1, <1>5, <3>1, <3>2 DEF Ids
  <2> QED
    BY <2>2 DEF j
<1>6. DOMAIN Put(m, r) = DOMAIN m \cup {r.id}
  BY DEF Put
<1>7. DOMAIN Put(m, r) \cup Ids(t) = DOMAIN m \cup Ids(u)
  BY <1>3, <1>6
<1> DEFINE left(k) == IF k \in Ids(t) THEN t[LastMatch(t, k)].val ELSE Put(m, r)[k]
           right(k) == IF k \in Ids(u) THEN u[LastMatch(u, k)].val ELSE m[k]
<1>8. ASSUME NEW k \in DOMAIN m \cup Ids(u) PROVE left(k) = right(k)
  <2>1. CASE k \in Ids(t)
    BY <1>3, <1>4, <2>1
  <2>2. CASE k \notin Ids(t) /\ k = r.id
    <3>1. Put(m, r)[k] = r.val
      BY <2>2 DEF Put
    <3> QED
      BY <1>3, <1>5, <2>2, <3>1
  <2>3. CASE k \notin Ids(t) /\ k # r.id
    <3>1. k \in DOMAIN m /\ k \notin Ids(u)
      BY <1>3, <2>3
    <3>2. Put(m, r)[k] = m[k]
      BY <2>3, <3>1 DEF Put
    <3> QED
      BY <2>3, <3>1, <3>2
  <2> QED
    BY <2>1, <2>2, <2>3
<1>9. Merge(Put(m, r), t) = [k \in DOMAIN m \cup Ids(u) |-> left(k)]
  BY <1>7 DEF Merge
<1>10. Merge(m, u) = [k \in DOMAIN m \cup Ids(u) |-> right(k)]
  BY DEF Merge
<1> HIDE DEF left, right
<1>11. Merge(Put(m, r), t) = Merge(m, u)
  BY <1>8, <1>9, <1>10
<1> QED
  BY <1>1, <1>11 DEF t
=============================================================================
