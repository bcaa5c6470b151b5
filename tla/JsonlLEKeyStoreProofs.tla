------------------------ MODULE JsonlLEKeyStoreProofs ------------------------
(***************************************************************************)
(* Safety of JsonlLeKeyStore for every id width, capacity, batch, file and *)
(* fault. The argument: the file of a store that started from a sound file *)
(* is sound but for a torn last line (OnlyTheLastLineIsTorn), since every  *)
(* write starts from an empty file (OpenInv), so the vector is sound after *)
(* every start; in the loop of load_keys the length plus the ids still to  *)
(* append fits the capacity (LoopInv).                                     *)
(* The last section proves the refinement: the vector, seen as a map from  *)
(* ids to values, is LEKeyBuffer, each call one step of it.                *)
(***************************************************************************)
EXTENDS JsonlLEKeyStore, LEKeyOpsProofs

-----------------------------------------------------------------------------
(***************************************************************************)
(* Types.                                                                  *)
(***************************************************************************)

\* Records that came off the wire can be written to the file as they are.
LEMMA RecordsAreLines == Seq(Records) \subseteq Seq(Lines)
<1>1. Records \subseteq Lines
  BY SpaceAssumption DEF Records, Lines, KeyIds
<1> QED
  BY <1>1, SeqMonotonic

\* Parsing narrows every id, so it yields records.
LEMMA ParsedType ==
  ASSUME NEW lines \in Seq(Lines), Parses(lines)
  PROVE  Parsed(lines) \in Seq(Records) /\ Len(Parsed(lines)) = Len(lines)
<1>1. Len(lines) \in Nat /\ DOMAIN lines = 1 .. Len(lines)
  BY LenProperties
<1>2. ASSUME NEW i \in 1 .. Len(lines)
      PROVE  [id |-> lines[i].id % IdSpace, val |-> lines[i].val] \in Records
  <2>1. lines[i] \in [id : Nat, val : Vals]
    BY <1>1, ElementOfSeq DEF Lines, Parses
  <2>2. lines[i].id % IdSpace \in 0 .. IdSpace - 1
    BY <2>1, SpaceAssumption
  <2> QED
    BY <2>1, <2>2 DEF Records, KeyIds
<1> QED
  BY <1>1, <1>2 DEF Parsed

\* The ofstream has emptied the file before anything is written.
OpenInv == pc = "write" => file = << >>

\* Every step keeps that.
LEMMA OpenStep == OpenInv /\ [Next]_vars => OpenInv'
<1> SUFFICES ASSUME OpenInv, [Next]_vars PROVE OpenInv'
  OBVIOUS
<1> QED
  BY DEF OpenInv, Next, vars, Create, Open, LoadRefused, LoadAccepted,
         LoadRecord, LoadEnd, PurgeKey, PurgeMissing, QueryId, PurgeAll,
         QueryAll, PersistOpen, PersistThrows, PersistWrite, PersistShort,
         Stop, Crash, ProcessEnds

\* So a write leaves the vector, ...
LEMMA Written ==
  ASSUME OpenInv, keys \in Seq(Records), PersistWrite
  PROVE  file' = keys
<1>1. file' = << >> \o keys
  BY DEF OpenInv, PersistWrite
<1> QED
  BY <1>1, ConcatEmptySeq

\* ... and a write that is cut short its first records, then perhaps a torn line.
LEMMA WrittenShort ==
  ASSUME OpenInv, keys \in Seq(Records), PersistShort
  PROVE  \E n \in 0 .. Len(keys) - 1, torn \in {<< >>, <<Bad>>} :
             file' = SubSeq(keys, 1, n) \o torn
<1>1. PICK n \in 0 .. Len(keys) - 1, torn \in {<< >>, <<Bad>>} :
          file' = << >> \o SubSeq(keys, 1, n) \o torn
  BY DEF OpenInv, PersistShort
<1>2. SubSeq(keys, 1, n) \in Seq(Records)
  <2>1. \A i \in 1 .. n : keys[i] \in Records
    BY ElementOfSeq, LenProperties
  <2> QED
    BY <2>1, SubSeqProperties, LenProperties
<1>3. << >> \o SubSeq(keys, 1, n) = SubSeq(keys, 1, n)
  BY <1>2, ConcatEmptySeq
<1> QED
  BY <1>1, <1>3

\* A process that ends leaves a well-typed state.
LEMMA ProcessEndsType == TypeOK /\ ProcessEnds => TypeOK'
  BY DEF TypeOK, ProcessEnds, Pcs

\* Every action keeps the types.
LEMMA TypeStep == TypeOK /\ OpenInv /\ [Next]_vars => TypeOK'
<1> SUFFICES ASSUME TypeOK, OpenInv, [Next]_vars PROVE TypeOK'
  OBVIOUS
<1> USE DEF TypeOK
<1>0. /\ << >> \in Seq(Records) /\ << >> \in Seq(Lines) /\ << >> \in Seq(KeyIds)
      /\ Len(<< >>) = 0
  BY EmptySeq
<1>a. \A k \in Kinds : Answer(k) \in [is : Kinds, ids : Seq(KeyIds)]
  BY <1>0 DEF Answer
<1>b. /\ Len(batch) \in Nat
      /\ batch \in Seq(Records)
  BY <1>0, DataAssumption, LenProperties
<1>1. CASE Create
  BY <1>0, <1>1 DEF Create, Pcs
<1>2. CASE Open
  <2>1. file \in Seq(Lines) /\ Parses(file)
    BY <1>2 DEF Open
  <2> QED
    BY <1>2, <2>1, ParsedType DEF Open, Pcs
<1>3. ASSUME NEW b \in Batches, LoadRefused(b) PROVE TypeOK'
  BY <1>a, <1>3 DEF LoadRefused, Kinds
<1>4. ASSUME NEW b \in Batches, LoadAccepted(b) PROVE TypeOK'
  <2>1. Len(b) \in Nat
    BY DataAssumption, LenProperties
  <2> QED
    BY <1>4, <2>1 DEF LoadAccepted, Pcs
<1>5. CASE LoadRecord
  <2>1. next \in 1 .. Len(batch)
    BY <1>5, <1>b DEF LoadRecord
  <2>2. batch[next] \in Records
    BY <1>b, <2>1, ElementOfSeq
  <2>3. keys' \in Seq(Records)
    BY <1>5, <2>2, UpsertType DEF LoadRecord
  <2>4. next' \in 1 .. Len(batch') + 1
    BY <1>5, <1>b, <2>1 DEF LoadRecord
  <2> QED
    BY <1>5, <2>3, <2>4 DEF LoadRecord
<1>6. CASE LoadEnd
  BY <1>0, <1>6 DEF LoadEnd, Pcs
<1>7. ASSUME NEW id \in KeyIds, PurgeKey(id) PROVE TypeOK'
  <2>1. keys' \in Seq(Records)
    BY <1>7, EraseProperties DEF PurgeKey
  <2> QED
    BY <1>7, <2>1 DEF PurgeKey, Pcs
<1>8. ASSUME NEW id \in KeyIds, PurgeMissing(id) PROVE TypeOK'
  BY <1>a, <1>8 DEF PurgeMissing, Kinds
<1>9. ASSUME NEW id \in KeyIds, QueryId(id) PROVE TypeOK'
  BY <1>a, <1>9 DEF QueryId, Kinds
<1>10. CASE PurgeAll
  BY <1>0, <1>10 DEF PurgeAll, Pcs
<1>11. CASE QueryAll
  <2>1. Len(keys) \in Nat /\ DOMAIN keys = 1 .. Len(keys)
    BY LenProperties
  <2>2. \A i \in 1 .. Len(keys) : keys[i].id \in KeyIds
    <3>1. \A i \in 1 .. Len(keys) : keys[i] \in Records
      BY ElementOfSeq
    <3> QED
      BY <3>1 DEF Records
  <2>3. ListKeyIds(keys) \in Seq(KeyIds)
    BY <2>1, <2>2 DEF ListKeyIds
  <2> QED
    BY <1>11, <2>3 DEF QueryAll, Kinds
<1>12. CASE PersistOpen
  BY <1>0, <1>12 DEF PersistOpen, Pcs
<1>13. CASE PersistThrows
  BY <1>a, <1>13 DEF PersistThrows, Pcs, Kinds
<1>14. CASE PersistWrite
  <2>1. file' = keys
    BY <1>14, Written
  <2> QED
    BY <1>a, <1>14, <2>1, RecordsAreLines DEF PersistWrite, Pcs, Kinds
<1>15. CASE PersistShort
  <2>1. PICK n \in 0 .. Len(keys) - 1, torn \in {<< >>, <<Bad>>} :
            file' = SubSeq(keys, 1, n) \o torn
    BY <1>15, WrittenShort
  <2>2. \A i \in 1 .. n : keys[i] \in Lines
    BY RecordsAreLines, ElementOfSeq, LenProperties
  <2>3. SubSeq(keys, 1, n) \in Seq(Lines)
    BY <2>2, SubSeqProperties, LenProperties
  <2>4. torn \in Seq(Lines)
    <3>1. Bad \in Lines
      BY DEF Lines
    <3>2. <<Bad>> \in Seq(Lines)
      BY <3>1
    <3> QED
      BY <1>0, <3>2
  <2>5. file' \in Seq(Lines)
    BY <2>1, <2>3, <2>4, ConcatProperties
  <2> QED
    BY <1>a, <1>15, <2>5 DEF PersistShort, Pcs, Kinds
<1>16. CASE Stop
  BY <1>16, ProcessEndsType DEF Stop
<1>17. CASE Crash
  BY <1>17, ProcessEndsType DEF Crash
<1>18. CASE UNCHANGED vars
  BY <1>18 DEF vars
<1> QED
  BY <1>1, <1>2, <1>3, <1>4, <1>5, <1>6, <1>7, <1>8, <1>9, <1>10, <1>11,
     <1>12, <1>13, <1>14, <1>15, <1>16, <1>17, <1>18 DEF Next

\* Whatever the file holds and whatever fails, every id in memory fits 32 bits
\* and the loop of load_keys stays inside its batch.
THEOREM TypeCorrect == Spec => []TypeOK
<1>1. Init => TypeOK /\ OpenInv
  BY DataAssumption, EmptySeq DEF Init, TypeOK, OpenInv, Pcs
<1> QED
  BY <1>1, TypeStep, OpenStep, PTL DEF Spec

-----------------------------------------------------------------------------
(***************************************************************************)
(* The inductive invariant.                                                *)
(***************************************************************************)

\* In the loop of load_keys there is room for what is left of the batch.
LoopInv ==
    pc = "load" =>
        Len(keys) + Cardinality(FreshPositions(batch, next, keys)) <= Capacity

\* There is an answer only between two calls.
CallInv == pc # "idle" => reply = None

IInv ==
    /\ TypeOK
    /\ WithinCapacity
    /\ OneKeyPerId
    /\ LoopInv
    /\ OnlyTheLastLineIsTorn
    /\ OpenInv
    /\ CallInv

\* The first lines of a sound vector parse to a sound vector.
LEMMA PrefixSound ==
  ASSUME NEW s \in Seq(Records), UniqueIds(s), Len(s) <= Capacity,
         NEW t \in Seq(Lines), Len(t) <= Len(s),
         \A i \in 1 .. Len(t) : t[i] = s[i]
  PROVE  Sound(t)
<1>1. /\ Len(s) \in Nat /\ DOMAIN s = 1 .. Len(s)
      /\ Len(t) \in Nat /\ DOMAIN t = 1 .. Len(t)
  BY LenProperties
<1>2. \A i \in 1 .. Len(t) : s[i] \in Records
  BY <1>1, ElementOfSeq
<1>3. \A i \in 1 .. Len(t) : s[i].id \in 0 .. IdSpace - 1 /\ s[i] # Bad
  <2>1. \A r \in Records : r.id \in 0 .. IdSpace - 1 /\ r \in [id : Nat, val : Vals]
    BY SpaceAssumption DEF Records, KeyIds
  <2> QED
    BY <1>2, <2>1, DataAssumption
<1>4. Parses(t)
  BY <1>1, <1>3 DEF Parses
<1>5. \A i \in 1 .. Len(t) : Parsed(t)[i].id = s[i].id
  <2>1. \A x \in 0 .. IdSpace - 1 : x % IdSpace = x
    BY SpaceAssumption
  <2> QED
    BY <1>1, <1>3, <2>1 DEF Parsed
<1>6. DOMAIN Parsed(t) = 1 .. Len(t)
  BY <1>1 DEF Parsed
<1>7. UniqueIds(Parsed(t))
  BY <1>1, <1>5, <1>6 DEF UniqueIds
<1> QED
  BY <1>1, <1>4, <1>7, SpaceAssumption DEF Sound

\* An empty file is sound.
LEMMA EmptySound == Sound(<< >>) /\ UniqueIds(<< >>) /\ Len(<< >>) <= Capacity
  BY SpaceAssumption DEF Sound, Parses, UniqueIds, Parsed

\* The first start finds a sound file and holds nothing.
LEMMA InitInv == SoundSeeds /\ Init => IInv
<1> SUFFICES ASSUME SoundSeeds, Init PROVE IInv
  OBVIOUS
<1>1. TypeOK
  BY DataAssumption, EmptySeq DEF Init, TypeOK, Pcs
<1>2. OnlyTheLastLineIsTorn
  BY DEF Init, OnlyTheLastLineIsTorn, SoundSeeds
<1> QED
  BY <1>1, <1>2, EmptySound
     DEF Init, IInv, WithinCapacity, OneKeyPerId, LoopInv, OpenInv, CallInv

\* A process that ends forgets the vector and keeps the file.
LEMMA ProcessEndsInv == IInv /\ ProcessEnds => IInv'
  BY ProcessEndsType, EmptySound
     DEF IInv, ProcessEnds, WithinCapacity, OneKeyPerId, LoopInv,
         OnlyTheLastLineIsTorn, OpenInv, CallInv

\* Every step of a call, of persist and of the process keeps the invariant.
LEMMA StepInv == IInv /\ [Next]_vars => IInv'
<1> SUFFICES ASSUME IInv, [Next]_vars PROVE IInv'
  OBVIOUS
<1>t. TypeOK /\ TypeOK' /\ OpenInv /\ OpenInv'
  BY TypeStep, OpenStep DEF IInv
<1>k. /\ keys \in Seq(Records) /\ batch \in Seq(Records)
      /\ Len(keys) \in Nat /\ Len(batch) \in Nat /\ next \in 1 .. Len(batch) + 1
  BY <1>t, DataAssumption, EmptySeq, LenProperties DEF TypeOK
<1>1. CASE Create
  BY <1>t, <1>1, EmptySound
     DEF IInv, Create, WithinCapacity, OneKeyPerId, LoopInv,
         OnlyTheLastLineIsTorn, OpenInv, CallInv
<1>2. CASE Open
  <2>1. file \in Seq(Lines) /\ Parses(file) /\ Sound(file)
    <3>1. file \in Seq(Lines) /\ Parses(file) /\ file # NoFile
      BY <1>t, <1>2 DEF Open, TypeOK
    <3>2. CASE file # << >>
      <4>1. Len(file) \in DOMAIN file
        BY <3>1, <3>2, EmptySeq, LenProperties
      <4> QED
        BY <3>1, <4>1 DEF IInv, OnlyTheLastLineIsTorn, Parses
    <3> QED
      BY <3>1, <3>2, EmptySound
  <2>2. WithinCapacity' /\ OneKeyPerId'
    BY <1>2, <2>1, ParsedType DEF Open, Sound, WithinCapacity, OneKeyPerId
  <2> QED
    BY <1>t, <1>2, <2>2 DEF IInv, Open, LoopInv, OnlyTheLastLineIsTorn, OpenInv, CallInv
<1>3. ASSUME NEW b \in Batches, LoadRefused(b) PROVE IInv'
  BY <1>t, <1>3
     DEF IInv, LoadRefused, WithinCapacity, OneKeyPerId, LoopInv,
         OnlyTheLastLineIsTorn, OpenInv, CallInv
<1>4. ASSUME NEW b \in Batches, LoadAccepted(b) PROVE IInv'
  <2>1. b \in Seq(Records)
    BY DataAssumption
  <2>2. Cardinality(FreshPositions(b, 1, keys)) \in Nat
    BY <2>1, FreshFinite
  <2>3. LoopInv'
    BY <1>4, <1>k, <2>2, SpaceAssumption DEF LoadAccepted, WouldOverflow, LoopInv
  <2> QED
    BY <1>t, <1>4, <2>3
       DEF IInv, LoadAccepted, WithinCapacity, OneKeyPerId, OnlyTheLastLineIsTorn, OpenInv, CallInv
<1>5. CASE LoadRecord
  <2>1. next \in 1 .. Len(batch) /\ batch[next] \in Records
    BY <1>5, <1>k, ElementOfSeq DEF LoadRecord
  <2>2. OneKeyPerId'
    BY <1>5, <1>k, <2>1, UpsertIds DEF LoadRecord, IInv, OneKeyPerId
  <2>3. LoopInv'
    <3>1. Len(keys') + Cardinality(FreshPositions(batch, next + 1, keys'))
            <= Len(keys) + Cardinality(FreshPositions(batch, next, keys))
      BY <1>5, <1>k, <2>1, UpsertRoom DEF LoadRecord, IInv, OneKeyPerId
    <3>2. /\ Len(keys') \in Nat
          /\ Cardinality(FreshPositions(batch, next, keys)) \in Nat
          /\ Cardinality(FreshPositions(batch, next + 1, keys')) \in Nat
      BY <1>t, <1>k, <2>1, FreshFinite, LenProperties DEF TypeOK
    <3>3. Len(keys') + Cardinality(FreshPositions(batch, next + 1, keys'))
            <= Capacity
      BY <1>5, <1>k, <3>1, <3>2, SpaceAssumption DEF LoadRecord, IInv, LoopInv
    <3> QED
      BY <1>5, <3>3 DEF LoadRecord, LoopInv
  <2>4. WithinCapacity'
    <3>1. /\ Len(keys') \in Nat
          /\ Cardinality(FreshPositions(batch, next + 1, keys')) \in Nat
      BY <1>t, <1>k, <2>1, FreshFinite, LenProperties DEF TypeOK
    <3>2. Len(keys') + Cardinality(FreshPositions(batch, next + 1, keys'))
            <= Capacity
      BY <1>5, <2>3 DEF LoadRecord, LoopInv
    <3> QED
      BY <3>1, <3>2, SpaceAssumption DEF WithinCapacity
  <2> QED
    BY <1>t, <1>5, <2>2, <2>3, <2>4 DEF IInv, LoadRecord, OnlyTheLastLineIsTorn, OpenInv, CallInv
<1>6. CASE LoadEnd
  BY <1>t, <1>6
     DEF IInv, LoadEnd, WithinCapacity, OneKeyPerId, LoopInv,
         OnlyTheLastLineIsTorn, OpenInv, CallInv
<1>7. ASSUME NEW id \in KeyIds, PurgeKey(id) PROVE IInv'
  <2>1. /\ Len(keys') <= Len(keys) /\ Len(keys') \in Nat
        /\ UniqueIds(keys')
    BY <1>t, <1>7, <1>k, EraseProperties, LenProperties
       DEF PurgeKey, IInv, OneKeyPerId, TypeOK
  <2>2. WithinCapacity' /\ OneKeyPerId'
    BY <1>k, <2>1, SpaceAssumption DEF IInv, WithinCapacity, OneKeyPerId
  <2> QED
    BY <1>t, <1>7, <2>2 DEF IInv, PurgeKey, LoopInv, OnlyTheLastLineIsTorn, OpenInv, CallInv
<1>8. ASSUME NEW id \in KeyIds, PurgeMissing(id) PROVE IInv'
  BY <1>t, <1>8
     DEF IInv, PurgeMissing, WithinCapacity, OneKeyPerId, LoopInv,
         OnlyTheLastLineIsTorn, OpenInv, CallInv
<1>9. ASSUME NEW id \in KeyIds, QueryId(id) PROVE IInv'
  BY <1>t, <1>9
     DEF IInv, QueryId, WithinCapacity, OneKeyPerId, LoopInv,
         OnlyTheLastLineIsTorn, OpenInv, CallInv
<1>10. CASE PurgeAll
  BY <1>t, <1>10, EmptySound
     DEF IInv, PurgeAll, WithinCapacity, OneKeyPerId, LoopInv,
         OnlyTheLastLineIsTorn, OpenInv, CallInv
<1>11. CASE QueryAll
  BY <1>t, <1>11
     DEF IInv, QueryAll, WithinCapacity, OneKeyPerId, LoopInv,
         OnlyTheLastLineIsTorn, OpenInv, CallInv
<1>12. CASE PersistOpen
  BY <1>t, <1>12, EmptySound
     DEF IInv, PersistOpen, WithinCapacity, OneKeyPerId, LoopInv,
         OnlyTheLastLineIsTorn, OpenInv, CallInv
<1>13. CASE PersistThrows
  BY <1>t, <1>13
     DEF IInv, PersistThrows, WithinCapacity, OneKeyPerId, LoopInv,
         OnlyTheLastLineIsTorn, OpenInv, CallInv
<1>14. CASE PersistWrite
  <2>1. Sound(keys)
    BY <1>k, PrefixSound, RecordsAreLines DEF IInv, WithinCapacity, OneKeyPerId
  <2>2. file' = keys
    BY <1>t, <1>14, <1>k, Written
  <2> QED
    BY <1>t, <1>14, <2>1, <2>2
       DEF IInv, PersistWrite, WithinCapacity, OneKeyPerId, LoopInv,
           OnlyTheLastLineIsTorn, OpenInv, CallInv
<1>15. CASE PersistShort
  <2>1. PICK n \in 0 .. Len(keys) - 1, torn \in {<< >>, <<Bad>>} :
            file' = SubSeq(keys, 1, n) \o torn
    BY <1>t, <1>15, <1>k, WrittenShort
  <2>2. /\ SubSeq(keys, 1, n) \in Seq(Lines) /\ Len(SubSeq(keys, 1, n)) = n
        /\ \A i \in 1 .. n : SubSeq(keys, 1, n)[i] = keys[i]
    <3>1. \A i \in 1 .. n : keys[i] \in Lines
      BY <1>k, RecordsAreLines, ElementOfSeq
    <3> QED
      BY <1>k, <3>1, SubSeqProperties
  <2>3. OnlyTheLastLineIsTorn'
    <3>1. CASE torn = << >>
      <4>1. file' = SubSeq(keys, 1, n)
        BY <2>1, <2>2, <3>1, ConcatEmptySeq
      <4>2. Sound(file')
        <5>1. /\ file' \in Seq(Lines) /\ Len(file') = n /\ n <= Len(keys)
              /\ \A i \in 1 .. Len(file') : file'[i] = keys[i]
          BY <1>k, <2>2, <4>1
        <5>2. UniqueIds(keys) /\ Len(keys) <= Capacity
          BY DEF IInv, WithinCapacity, OneKeyPerId
        <5> QED
          BY <1>k, <5>1, <5>2, PrefixSound
      <4> QED
        BY <4>2 DEF OnlyTheLastLineIsTorn
    <3>2. CASE torn = <<Bad>>
      <4>1. Bad \in Lines
        BY DEF Lines
      <4>2. <<Bad>> \in Seq(Lines) /\ Len(<<Bad>>) = 1 /\ <<Bad>>[1] = Bad
        BY <4>1
      <4>3. /\ Len(file') = n + 1 /\ file' \in Seq(Lines)
            /\ \A i \in 1 .. n + 1 : file'[i] =
                    IF i <= n THEN SubSeq(keys, 1, n)[i] ELSE <<Bad>>[i - n]
        <5>1. PICK p \in Seq(Lines) : p = SubSeq(keys, 1, n)
          BY <2>2
        <5>2. PICK b \in Seq(Lines) : b = <<Bad>>
          BY <4>2
        <5>3. file' = p \o b /\ Len(p) = n /\ Len(b) = 1
          BY <2>1, <2>2, <3>2, <4>2, <5>1, <5>2
        <5>4. /\ p \o b \in Seq(Lines) /\ Len(p \o b) = Len(p) + Len(b)
              /\ \A i \in 1 .. Len(p) + Len(b) : (p \o b)[i] =
                     IF i <= Len(p) THEN p[i] ELSE b[i - Len(p)]
          BY ConcatProperties
        <5> QED
          BY <5>1, <5>2, <5>3, <5>4
      <4>4. n + 1 \in DOMAIN file' /\ file'[n + 1] = Bad
        <5>1. n \in Nat /\ ~(n + 1 <= n) /\ (n + 1) - n = 1
          OBVIOUS
        <5>2. file'[n + 1] = <<Bad>>[1]
          BY <4>3, <5>1
        <5>3. n + 1 \in DOMAIN file'
          BY <4>3, <5>1, LenProperties
        <5> QED
          BY <4>2, <5>2, <5>3
      <4>5. Sound(SubSeq(file', 1, n))
        <5> DEFINE t == SubSeq(file', 1, n)
        <5>1. \A i \in 1 .. n : file'[i] = keys[i] /\ file'[i] \in Lines
          <6> SUFFICES ASSUME NEW i \in 1 .. n
                       PROVE  file'[i] = keys[i] /\ file'[i] \in Lines
            OBVIOUS
          <6>1. i \in 1 .. n + 1 /\ i <= n
            OBVIOUS
          <6>2. file'[i] = SubSeq(keys, 1, n)[i]
            BY <4>3, <6>1
          <6>3. keys[i] \in Records
            BY <1>k, ElementOfSeq
          <6> QED
            BY <2>2, <6>2, <6>3, RecordsAreLines, <4>3, <6>1, ElementOfSeq, LenProperties
        <5>2. /\ t \in Seq(Lines) /\ Len(t) = n
              /\ \A i \in 1 .. n : t[i] = file'[i]
          BY <4>3, <5>1, SubSeqProperties
        <5>3. UniqueIds(keys) /\ Len(keys) <= Capacity
          BY DEF IInv, WithinCapacity, OneKeyPerId
        <5>4. Len(t) <= Len(keys) /\ \A i \in 1 .. Len(t) : t[i] = keys[i]
          BY <1>k, <5>1, <5>2
        <5> HIDE DEF t
        <5>5. Sound(t)
          BY <1>k, <5>2, <5>3, <5>4, PrefixSound
        <5> QED
          BY <5>5 DEF t
      <4>6. Len(file') = n + 1 /\ Len(file') - 1 = n
        BY <4>3
      <4> QED
        BY <4>4, <4>5, <4>6 DEF OnlyTheLastLineIsTorn
    <3> QED
      BY <2>1, <3>1, <3>2
  <2> QED
    BY <1>t, <1>15, <2>3
       DEF IInv, PersistShort, WithinCapacity, OneKeyPerId, LoopInv, OpenInv, CallInv
<1>16. CASE Stop
  BY <1>16, ProcessEndsInv DEF Stop
<1>17. CASE Crash
  BY <1>17, ProcessEndsInv DEF Crash
<1>18. CASE UNCHANGED vars
  BY <1>t, <1>18
     DEF IInv, vars, WithinCapacity, OneKeyPerId, LoopInv,
         OnlyTheLastLineIsTorn, OpenInv, CallInv
<1> QED
  BY <1>1, <1>2, <1>3, <1>4, <1>5, <1>6, <1>7, <1>8, <1>9, <1>10, <1>11,
     <1>12, <1>13, <1>14, <1>15, <1>16, <1>17, <1>18 DEF Next

\* From sound files, the invariant holds of every reachable state.
LEMMA InvHolds == ASSUME SoundSeeds PROVE Spec => []IInv
  BY InitInv, StepInv, PTL DEF Spec

-----------------------------------------------------------------------------
(***************************************************************************)
(* The results.                                                            *)
(***************************************************************************)

\* A buffer that starts from a sound file never holds more than kCapacity keys,
\* at any step of load_keys, under any fault.
THEOREM CapacityHolds == ASSUME SoundSeeds PROVE Spec => []WithinCapacity
<1>1. IInv => WithinCapacity
  BY DEF IInv
<1> QED
  BY <1>1, InvHolds, PTL

\* A buffer that starts from a sound file never stores a key id twice, at any
\* step of load_keys, under any fault.
THEOREM KeysAreUnique == ASSUME SoundSeeds PROVE Spec => []OneKeyPerId
<1>1. IInv => OneKeyPerId
  BY DEF IInv
<1> QED
  BY <1>1, InvHolds, PTL

\* The file of a store that started from a sound one is sound but for one torn
\* line at its end, whatever opens fail, writes are cut short and deaths happen.
THEOREM DamageIsOneLine ==
  ASSUME SoundSeeds PROVE Spec => []OnlyTheLastLineIsTorn
<1>1. IInv => OnlyTheLastLineIsTorn
  BY DEF IInv
<1> QED
  BY <1>1, InvHolds, PTL

-----------------------------------------------------------------------------
(***************************************************************************)
(* What a normal return of load_keys, purge_key or purge_all says about    *)
(* the file. Only "short" can make it say too much.                        *)
(***************************************************************************)

\* There is an answer only between two calls, whatever the seeds.
LEMMA CallStep == CallInv /\ [Next]_vars => CallInv'
<1> SUFFICES ASSUME CallInv, [Next]_vars PROVE CallInv'
  OBVIOUS
<1> QED
  BY DEF CallInv, Next, vars, Create, Open, LoadRefused, LoadAccepted,
         LoadRecord, LoadEnd, PurgeKey, PurgeMissing, QueryId, PurgeAll,
         QueryAll, PersistOpen, PersistThrows, PersistWrite, PersistShort,
         Stop, Crash, ProcessEnds

\* The reply of a store that has just started is not a success.
LEMMA NoneIsNoAnswer == Answer("ok") # None
<1>1. << >> \in Seq(Nat)
  BY EmptySeq
<1>2. [is |-> "ok", ids |-> << >>] \in [is : Kinds, ids : Seq(Nat)]
  BY <1>1 DEF Kinds
<1> QED
  BY <1>2, DataAssumption DEF Answer

\* A step that ends with the answer "ok" either writes the file or changes
\* nothing that the answer is about.
LEMMA SuccessStep ==
  ASSUME CallInv, [Next]_vars, reply' = Answer("ok")
  PROVE  \/ PersistWrite
         \/ PersistShort
         \/ reply = Answer("ok") /\ UNCHANGED <<keys, file>>
<1>1. Answer("ok") # None
  BY NoneIsNoAnswer
<1>2. \A k \in Kinds \ {"ok"} : Answer(k) # Answer("ok")
  BY DEF Answer
<1>3. \A q : [is |-> "list", ids |-> q] # Answer("ok")
  BY DEF Answer
<1>4. CASE pc # "idle"
  <2>1. reply = None
    BY <1>4 DEF CallInv
  <2> QED
    BY <1>1, <1>2, <1>4, <2>1
       DEF Next, vars, Kinds, Create, Open, LoadRefused, LoadAccepted, LoadRecord,
           LoadEnd, PurgeKey, PurgeMissing, QueryId, PurgeAll, QueryAll,
           PersistOpen, PersistThrows, Stop, Crash, ProcessEnds
<1>5. CASE pc = "idle"
  BY <1>1, <1>2, <1>3, <1>5
     DEF Next, vars, Kinds, Create, Open, LoadRefused, LoadAccepted, LoadRecord,
         LoadEnd, PurgeKey, PurgeMissing, QueryId, PurgeAll, QueryAll,
         PersistOpen, PersistThrows, Stop, Crash, ProcessEnds
<1> QED
  BY <1>4, <1>5

\* Unless a write can be cut short, a call that returns normally has saved
\* exactly the keys in memory.
THEOREM SuccessHolds ==
  ASSUME "short" \notin Faults PROVE Spec => []SuccessIsSaved
<1>1. Init => CallInv /\ OpenInv /\ SuccessIsSaved
  BY NoneIsNoAnswer DEF Init, CallInv, OpenInv, SuccessIsSaved
<1>2. TypeOK /\ OpenInv /\ CallInv /\ SuccessIsSaved /\ [Next]_vars => SuccessIsSaved'
  <2> SUFFICES ASSUME TypeOK, OpenInv, CallInv, SuccessIsSaved, [Next]_vars,
                      reply' = Answer("ok")
               PROVE  file' = keys'
    BY DEF SuccessIsSaved, Answer
  <2>1. CASE PersistWrite
    <3>1. file' = keys
      BY <2>1, Written DEF TypeOK
    <3> QED
      BY <2>1, <3>1 DEF PersistWrite
  <2>2. CASE PersistShort
    BY <2>2 DEF PersistShort
  <2>3. CASE reply = Answer("ok") /\ UNCHANGED <<keys, file>>
    BY <2>3 DEF SuccessIsSaved
  <2> QED
    BY <2>1, <2>2, <2>3, SuccessStep
<1> QED
  BY <1>1, <1>2, CallStep, OpenStep, TypeCorrect, PTL DEF Spec

\* Even when a write is cut short, what the file holds after a normal return is
\* the first of the keys in memory, then perhaps a torn line.
THEOREM PrefixHolds == Spec => []SuccessSavesNoOther
<1>1. Init => CallInv /\ OpenInv /\ SuccessSavesNoOther
  BY NoneIsNoAnswer DEF Init, CallInv, OpenInv, SuccessSavesNoOther
<1>2. TypeOK /\ OpenInv /\ CallInv /\ SuccessSavesNoOther /\ [Next]_vars
        => SuccessSavesNoOther'
  <2> SUFFICES ASSUME TypeOK, OpenInv, CallInv, SuccessSavesNoOther, [Next]_vars,
                      reply' = Answer("ok"),
                      NEW i \in DOMAIN file', file'[i] # Bad
               PROVE  i <= Len(keys') /\ file'[i] = keys'[i]
    BY DEF SuccessSavesNoOther, Answer
  <2>0. keys \in Seq(Records) /\ Len(keys) \in Nat /\ DOMAIN keys = 1 .. Len(keys)
    BY LenProperties DEF TypeOK
  <2>1. CASE PersistWrite
    <3>1. file' = keys
      BY <2>0, <2>1, Written
    <3> QED
      BY <2>0, <2>1, <3>1 DEF PersistWrite
  <2>2. CASE PersistShort
    <3>1. PICK n \in 0 .. Len(keys) - 1, torn \in {<< >>, <<Bad>>} :
              file' = SubSeq(keys, 1, n) \o torn
      BY <2>0, <2>2, WrittenShort
    <3>2. \A j \in 1 .. n : keys[j] \in Lines
      BY <2>0, RecordsAreLines, ElementOfSeq
    <3>3. /\ SubSeq(keys, 1, n) \in Seq(Lines) /\ Len(SubSeq(keys, 1, n)) = n
          /\ \A j \in 1 .. n : SubSeq(keys, 1, n)[j] = keys[j]
      BY <2>0, <3>2, SubSeqProperties
    <3>4. CASE torn = << >>
      <4>1. file' = SubSeq(keys, 1, n)
        BY <3>1, <3>3, <3>4, ConcatEmptySeq
      <4>2. i \in 1 .. n
        BY <3>3, <4>1, LenProperties
      <4>3. keys' = keys
        BY <2>2 DEF PersistShort
      <4>4. i <= Len(keys) /\ file'[i] = keys[i]
        BY <2>0, <3>3, <4>1, <4>2
      <4> QED
        BY <4>3, <4>4
    <3>5. CASE torn = <<Bad>>
      <4>1. Bad \in Lines
        BY DEF Lines
      <4>2. <<Bad>> \in Seq(Lines) /\ Len(<<Bad>>) = 1 /\ <<Bad>>[1] = Bad
        BY <4>1
      <4>3. /\ Len(file') = n + 1 /\ file' \in Seq(Lines)
            /\ \A j \in 1 .. n + 1 : file'[j] =
                    IF j <= n THEN SubSeq(keys, 1, n)[j] ELSE <<Bad>>[j - n]
        BY <3>1, <3>3, <3>5, <4>2, ConcatProperties
      <4>4. i \in 1 .. n + 1
        BY <4>3, LenProperties
      <4>5. CASE i <= n
        <5>1. i \in 1 .. n /\ i \in 1 .. n + 1
          BY <4>4, <4>5
        <5>2. file'[i] = SubSeq(keys, 1, n)[i]
          BY <4>3, <4>5, <5>1
        <5>3. file'[i] = keys[i]
          BY <3>3, <5>1, <5>2
        <5>4. i <= Len(keys)
          BY <2>0, <5>1
        <5> QED
          BY <2>2, <5>3, <5>4 DEF PersistShort
      <4>6. CASE i = n + 1
        <5>1. n \in Nat /\ ~(i <= n) /\ i - n = 1
          BY <4>6
        <5>2. file'[i] = <<Bad>>[1]
          BY <4>3, <4>4, <5>1
        <5> QED
          BY <4>2, <5>2
      <4> QED
        BY <4>4, <4>5, <4>6
    <3> QED
      BY <3>1, <3>4, <3>5
  <2>3. CASE reply = Answer("ok") /\ UNCHANGED <<keys, file>>
    BY <2>3 DEF SuccessSavesNoOther
  <2> QED
    BY <2>1, <2>2, <2>3, SuccessStep
<1> QED
  BY <1>1, <1>2, CallStep, OpenStep, TypeCorrect, PTL DEF Spec

-----------------------------------------------------------------------------
(***************************************************************************)
(* The store implements the durable buffer, unless a write can be cut      *)
(* short. Between the steps of a call the map in memory is the vector with *)
(* the rest of the batch stored over it, so it has its final value from    *)
(* the step at which would_overflow lets the batch through.                *)
(***************************************************************************)

\* Outside the loop of load_keys there is no batch.
BatchInv == pc # "load" => batch = << >> /\ next = 1

\* Every step keeps that.
LEMMA BatchStep == BatchInv /\ [Next]_vars => BatchInv'
<1> SUFFICES ASSUME BatchInv, [Next]_vars PROVE BatchInv'
  OBVIOUS
<1> QED
  BY DEF BatchInv, Next, vars, Create, Open, LoadRefused, LoadAccepted,
         LoadRecord, LoadEnd, PurgeKey, PurgeMissing, QueryId, PurgeAll,
         QueryAll, PersistOpen, PersistThrows, PersistWrite, PersistShort,
         Stop, Crash, ProcessEnds

\* The map of the loop: what is left of the batch is still to be stored.
Rest == SubSeq(batch, next, Len(batch))
Memory == Merge(AsMap(keys), Rest)

\* The buffer stores a batch as the store does: its own Merge is the same.
LEMMA SameMerge == \A m, b : Buffer!Merge(m, b) = Merge(m, b)
  BY DEF Merge, Buffer!Merge, Ids, Buffer!Ids, LastMatch, Buffer!LastMatch

\* And it counts as the store does.
LEMMA SameCardinality == \A S : Buffer!Cardinality(S) = Cardinality(S)
  BY DEF Cardinality, Buffer!Cardinality

\* Outside the loop there is nothing left to store.
LEMMA NoRest == ASSUME BatchInv, pc # "load" PROVE Rest = << >>
<1>1. Len(<< >>) = 0
  OBVIOUS
<1> QED
  BY <1>1, SubSeqEmpty DEF BatchInv, Rest

\* A vector that parse_jsonl_line reads back is the vector that was written.
LEMMA ParsedKeys == ASSUME NEW s \in Seq(Records) PROVE Parsed(s) = s
<1>1. DOMAIN s = 1 .. Len(s) /\ s = [i \in 1 .. Len(s) |-> s[i]]
  BY LenProperties
<1>2. ASSUME NEW i \in 1 .. Len(s)
      PROVE  [id |-> s[i].id % IdSpace, val |-> s[i].val] = s[i]
  <2>1. s[i] \in [id : 0 .. IdSpace - 1, val : Vals]
    BY ElementOfSeq DEF Records, KeyIds
  <2>2. \A x \in 0 .. IdSpace - 1 : x % IdSpace = x
    BY SpaceAssumption
  <2> QED
    BY <2>1, <2>2
<1> QED
  BY <1>1, <1>2 DEF Parsed

\* The map of an empty vector.
LEMMA EmptyMap == AsMap(<< >>) = Buffer!Empty
<1>1. Ids(<< >>) = {}
  BY DEF Ids
<1> QED
  BY <1>1 DEF AsMap, Buffer!Empty

\* An empty file is the empty map.
LEMMA EmptyFile == AsMap(Parsed(<< >>)) = Buffer!Empty
<1>1. Parsed(<< >>) = << >>
  BY ParsedKeys, EmptySeq
<1> QED
  BY <1>1, EmptyMap

\* The map of a vector without repeated ids is a map from key ids to keys, as
\* large as the vector is long.
LEMMA MapOfKeys ==
  ASSUME NEW s \in Seq(Records), UniqueIds(s)
  PROVE  /\ AsMap(s) \in Buffer!Maps
         /\ DOMAIN AsMap(s) = Ids(s)
         /\ Cardinality(DOMAIN AsMap(s)) = Len(s)
<1>1. DOMAIN AsMap(s) = Ids(s) /\ AsMap(s) = [k \in Ids(s) |-> AsMap(s)[k]]
  BY DEF AsMap
<1>2. ASSUME NEW k \in Ids(s) PROVE k \in KeyIds /\ AsMap(s)[k] \in Vals
  <2>1. PICK i \in DOMAIN s : s[i].id = k
    BY DEF Ids
  <2>2. s[i] \in Records
    BY ElementOfSeq, LenProperties
  <2>3. AsMap(s)[k] = s[i].val
    BY <2>1, AsMapHolds
  <2> QED
    BY <2>1, <2>2, <2>3 DEF Records
<1>3. Ids(s) \in SUBSET KeyIds /\ AsMap(s) \in [Ids(s) -> Vals]
  BY <1>1, <1>2
<1> QED
  BY <1>1, <1>3, IdsCardinality DEF Buffer!Maps

\* A store that starts is a buffer that starts.
LEMMA RefineInit == ASSUME SoundSeeds, Init PROVE Buffer!Init
<1>1. SavedMap \in Buffer!Maps /\ Cardinality(DOMAIN SavedMap) <= Capacity
  <2>1. CASE file = NoFile
    BY <2>1, MapOfKeys, EmptySeq, EmptySound DEF SavedMap
  <2>2. CASE file # NoFile
    <3>1. file \in Seq(Lines) /\ Sound(file)
      BY <2>2, DataAssumption DEF Init, SoundSeeds
    <3>2. /\ Parsed(file) \in Seq(Records) /\ UniqueIds(Parsed(file))
          /\ Len(Parsed(file)) <= Capacity
      BY <3>1, ParsedType DEF Sound
    <3> QED
      BY <2>2, <3>2, MapOfKeys DEF SavedMap
  <2> QED
    BY <2>1, <2>2
<1>2. ~(pc \in {"load", "persist", "write"})
  BY DEF Init
<1> QED
  BY <1>1, <1>2, SameCardinality DEF Init, Buffer!Init

\* What the proof of a step relies on.
RefineInv == IInv /\ BatchInv

\* What the map in memory is when no call is at work.
LEMMA IdleMap ==
  ASSUME RefineInv, pc = "idle"
  PROVE  /\ Memory = AsMap(keys) /\ DOMAIN AsMap(keys) = Ids(keys)
         /\ Cardinality(DOMAIN AsMap(keys)) = Len(keys)
         /\ keys \in Seq(Records) /\ UniqueIds(keys)
         /\ Len(keys) \in Nat /\ Len(keys) <= Capacity
<1>1. /\ keys \in Seq(Records) /\ UniqueIds(keys) /\ Len(keys) <= Capacity
      /\ Len(keys) \in Nat
  BY LenProperties DEF RefineInv, IInv, TypeOK, OneKeyPerId, WithinCapacity
<1>2. Memory = AsMap(keys)
  BY NoRest, MergeNothing DEF RefineInv, Memory
<1> QED
  BY <1>1, <1>2, MapOfKeys

\* What a batch adds to the map is what would_overflow counts.
LEMMA SameAdditions ==
  ASSUME RefineInv, pc = "idle", NEW b \in Batches
  PROVE  /\ b \in Seq(Records)
         /\ Cardinality(DOMAIN Memory)
              + Cardinality({i \in DOMAIN b : b[i].id \notin DOMAIN Memory})
              <= Capacity
            <=> ~WouldOverflow(b, keys, Capacity)
<1>1. /\ DOMAIN Memory = Ids(keys) /\ Cardinality(DOMAIN Memory) = Len(keys)
      /\ Len(keys) \in Nat
  BY IdleMap
<1>2. b \in Seq(Records) /\ DOMAIN b = 1 .. Len(b)
  BY DataAssumption, LenProperties
<1>3. {i \in DOMAIN b : b[i].id \notin DOMAIN Memory} = FreshPositions(b, 1, keys)
  BY <1>1, <1>2 DEF FreshPositions
<1>4. Cardinality(FreshPositions(b, 1, keys)) \in Nat
  BY <1>2, FreshFinite
<1>5. PICK n \in Nat : n = Cardinality(FreshPositions(b, 1, keys))
  BY <1>4
<1>6. Cardinality({i \in DOMAIN b : b[i].id \notin DOMAIN Memory}) = n
  BY <1>3, <1>5
<1>7. WouldOverflow(b, keys, Capacity) <=> Len(keys) + n > Capacity
  BY <1>5 DEF WouldOverflow
<1>8. Len(keys) + n > Capacity <=> ~(Len(keys) + n <= Capacity)
  BY <1>1, SpaceAssumption
<1> QED
  BY <1>1, <1>2, <1>6, <1>7, <1>8

\* A load that is refused is one the buffer refuses.
LEMMA RefineRefuse ==
  ASSUME RefineInv, NEW b \in Batches, LoadRefused(b) PROVE Buffer!Refuse(b)
<1>1. ~(Cardinality(DOMAIN Memory)
          + Cardinality({i \in DOMAIN b : b[i].id \notin DOMAIN Memory}) <= Capacity)
  BY SameAdditions DEF LoadRefused
<1> QED
  BY <1>1, SameCardinality
     DEF LoadRefused, Buffer!Refuse, Buffer!Fits, Buffer!Answer, Answer, Memory,
         Rest, SavedMap

\* A load that is let through changes the map at once.
LEMMA RefineLoad ==
  ASSUME RefineInv, NEW b \in Batches, LoadAccepted(b) PROVE Buffer!Load(b)
<1>1. /\ Cardinality(DOMAIN Memory)
          + Cardinality({i \in DOMAIN b : b[i].id \notin DOMAIN Memory}) <= Capacity
      /\ b \in Seq(Records)
  BY SameAdditions DEF LoadAccepted
<1>2. Memory = AsMap(keys)
  BY IdleMap DEF LoadAccepted
<1>3. Memory' = Merge(Memory, b)
  <2>1. SubSeq(b, 1, Len(b)) = b
    BY <1>1, SubSeqFull
  <2>2. Memory' = Merge(AsMap(keys), b)
    BY <2>1 DEF LoadAccepted, Memory, Rest
  <2> QED
    BY <1>2, <2>2
<1> QED
  BY <1>1, <1>3, SameCardinality, SameMerge
     DEF LoadAccepted, Buffer!Load, Buffer!Fits, Memory, Rest, SavedMap

\* A turn of the loop is not seen: what it stores was in the map already.
LEMMA RefineRecord ==
  ASSUME RefineInv, LoadRecord PROVE UNCHANGED Buffer!vars
<1>1. /\ keys \in Seq(Records) /\ UniqueIds(keys) /\ batch \in Seq(Records)
      /\ next \in 1 .. Len(batch) /\ Len(batch) \in Nat
  BY DataAssumption, EmptySeq, LenProperties
     DEF RefineInv, IInv, TypeOK, OneKeyPerId, LoadRecord
<1>2. batch[next] \in Records
  BY <1>1, ElementOfSeq
<1>3. AsMap(keys') = Put(AsMap(keys), batch[next])
  BY <1>1, <1>2, UpsertMap DEF LoadRecord
<1>4. /\ Rest \in Seq(Records) /\ Rest # << >>
      /\ Head(Rest) = batch[next]
      /\ Tail(Rest) = SubSeq(batch, next + 1, Len(batch))
  <2>1. \A i \in next .. Len(batch) : batch[i] \in Records
    BY <1>1, ElementOfSeq
  <2>2. Rest \in Seq(Records) /\ Len(Rest) = Len(batch) - next + 1
    BY <1>1, <2>1, SubSeqProperties DEF Rest
  <2>3. Rest # << >>
    BY <1>1, <2>2, EmptySeq
  <2> QED
    BY <1>1, <2>2, <2>3, HeadTailOfSubSeq DEF Rest
<1>5. Merge(AsMap(keys'), Tail(Rest)) = Memory
  BY <1>3, <1>4, MergeFirst DEF Memory
<1>6. Memory' = Memory
  BY <1>4, <1>5 DEF LoadRecord, Memory, Rest
<1> QED
  BY <1>6 DEF LoadRecord, Buffer!vars, Memory, Rest, SavedMap

\* A key that is purged leaves the map at once.
LEMMA RefinePurge ==
  ASSUME RefineInv, NEW id \in KeyIds, PurgeKey(id) PROVE Buffer!Purge(id)
<1>1. /\ Memory = AsMap(keys) /\ DOMAIN AsMap(keys) = Ids(keys)
      /\ keys \in Seq(Records) /\ UniqueIds(keys)
  BY IdleMap DEF PurgeKey
<1>2. AsMap(keys') = [k \in DOMAIN AsMap(keys) \ {id} |-> AsMap(keys)[k]]
  BY <1>1, EraseMap DEF PurgeKey
<1>3. Memory' = AsMap(keys')
  <2>1. Rest = << >>
    BY NoRest DEF RefineInv, PurgeKey
  <2>2. Rest' = Rest
    BY DEF PurgeKey, Rest
  <2> QED
    BY <2>1, <2>2, MergeNothing DEF Memory
<1> QED
  BY <1>1, <1>2, <1>3
     DEF PurgeKey, Buffer!Purge, Memory, Rest, SavedMap, ContainsKey

\* An empty vector is the empty map.
LEMMA RefinePurgeAll == ASSUME RefineInv, PurgeAll PROVE Buffer!PurgeAll
<1>1. Memory' = AsMap(<< >>)
  <2>1. Rest = << >>
    BY NoRest DEF RefineInv, PurgeAll
  <2>2. Rest' = Rest
    BY DEF PurgeAll, Rest
  <2> QED
    BY <2>1, <2>2, MergeNothing DEF Memory, PurgeAll
<1> QED
  BY <1>1, EmptyMap DEF PurgeAll, Buffer!PurgeAll, Memory, Rest, SavedMap

\* The answers of the queries, and of a purge that finds nothing, are those of
\* the map.
LEMMA RefineQueryId ==
  ASSUME RefineInv, NEW id \in KeyIds
  PROVE  /\ PurgeMissing(id) => Buffer!PurgeMissing(id)
         /\ QueryId(id) => Buffer!QueryId(id)
<1>1. pc = "idle" => Memory = AsMap(keys) /\ DOMAIN AsMap(keys) = Ids(keys)
  BY IdleMap
<1>2. ASSUME PurgeMissing(id) PROVE Buffer!PurgeMissing(id)
  BY <1>1, <1>2
     DEF PurgeMissing, Buffer!PurgeMissing, Memory, Rest, SavedMap, ContainsKey,
         Answer, Buffer!Answer
<1>3. ASSUME QueryId(id) PROVE Buffer!QueryId(id)
  BY <1>1, <1>3
     DEF QueryId, Buffer!QueryId, Memory, Rest, SavedMap, ContainsKey,
         Answer, Buffer!Answer
<1> QED
  BY <1>2, <1>3

\* The list of the vector names every id of the map once.
LEMMA RefineQueryAll == ASSUME RefineInv, QueryAll PROVE Buffer!QueryAll
<1> DEFINE order == ListKeyIds(keys)
<1>1. /\ Memory = AsMap(keys) /\ DOMAIN AsMap(keys) = Ids(keys)
      /\ Cardinality(DOMAIN AsMap(keys)) = Len(keys)
      /\ keys \in Seq(Records) /\ DOMAIN keys = 1 .. Len(keys)
  BY IdleMap, LenProperties DEF QueryAll
<1>2. order \in [1 .. Cardinality(DOMAIN Memory) -> DOMAIN Memory]
  BY <1>1 DEF ListKeyIds, Ids
<1>3. \A id \in DOMAIN Memory : \E i \in DOMAIN order : order[i] = id
  BY <1>1 DEF ListKeyIds, Ids
<1>4. reply' = [is |-> "list", ids |-> order]
  BY DEF QueryAll
<1> HIDE DEF order
<1>5. \E o \in [1 .. Cardinality(DOMAIN Memory) -> DOMAIN Memory] :
        /\ \A id \in DOMAIN Memory : \E i \in DOMAIN o : o[i] = id
        /\ reply' = [is |-> "list", ids |-> o]
  BY <1>2, <1>3, <1>4
<1> QED
  BY <1>5, SameCardinality DEF QueryAll, Buffer!QueryAll, Memory, Rest, SavedMap

\* The steps of persist.
LEMMA RefinePersist ==
  ASSUME RefineInv
  PROVE  /\ PersistOpen => Buffer!Save
         /\ PersistThrows => Buffer!Throw
         /\ PersistWrite => Buffer!SaveAndSucceed
<1>1. ASSUME PersistOpen PROVE Buffer!Save
  <2>1. SavedMap' = Buffer!Empty
    <3>1. file' = << >> /\ << >> # NoFile
      BY <1>1, DataAssumption, EmptySeq DEF PersistOpen
    <3> QED
      BY <3>1, EmptyFile DEF SavedMap
  <2> QED
    BY <1>1, <2>1 DEF PersistOpen, Buffer!Save, Memory, Rest
<1>2. ASSUME PersistThrows PROVE Buffer!Throw
  BY <1>2 DEF PersistThrows, Buffer!Throw, Buffer!Answer, Answer, SavedMap
<1>3. ASSUME PersistWrite PROVE Buffer!SaveAndSucceed
  <2>1. Rest = << >> /\ Memory = AsMap(keys) /\ keys \in Seq(Records)
    BY <1>3, NoRest, MergeNothing DEF PersistWrite, RefineInv, IInv, TypeOK, Memory
  <2>2. SavedMap' = AsMap(keys)
    <3>1. file' = keys
      BY <1>3, <2>1, Written DEF RefineInv, IInv
    <3>2. keys # NoFile
      BY <2>1, DataAssumption, RecordsAreLines
    <3> QED
      BY <2>1, <3>1, <3>2, ParsedKeys DEF SavedMap
  <2>3. Memory' = Memory
    BY <1>3 DEF PersistWrite, Memory, Rest
  <2> QED
    BY <1>3, <2>1, <2>2, <2>3
       DEF PersistWrite, Buffer!SaveAndSucceed, Buffer!Answer, Answer, Memory, Rest
<1> QED
  BY <1>1, <1>2, <1>3

\* A start brings the saved map into memory, which changes nothing.
LEMMA RefineStart ==
  ASSUME RefineInv, Create \/ Open PROVE UNCHANGED Buffer!vars
<1>1. pc = "down" /\ pc' = "idle" /\ UNCHANGED <<batch, next, reply>>
  BY DEF Create, Open
<1>2. Rest = << >> /\ Rest' = << >>
  <2>1. Rest = << >>
    BY <1>1, NoRest DEF RefineInv
  <2> QED
    BY <1>1, <2>1 DEF Rest
<1>3. Memory' = AsMap(keys')
  BY <1>2, MergeNothing DEF Memory
<1>4. AsMap(keys') = SavedMap /\ SavedMap' = SavedMap
  <2>1. CASE Create
    <3>1. << >> # NoFile
      BY DataAssumption, EmptySeq
    <3> QED
      BY <2>1, <3>1, EmptyFile, EmptyMap DEF Create, SavedMap
  <2>2. CASE Open
    BY <2>2 DEF Open, SavedMap
  <2> QED
    BY <2>1, <2>2
<1> QED
  BY <1>1, <1>3, <1>4 DEF Buffer!vars, Memory, Rest

\* A process that ends leaves the saved map.
LEMMA RefineEnd == ASSUME ProcessEnds PROVE Buffer!Crash
<1>1. SavedMap' = SavedMap
  BY DEF ProcessEnds, SavedMap
<1> QED
  BY <1>1 DEF ProcessEnds, Buffer!Crash

\* Every step of the store is a step of the buffer, or one it does not see.
LEMMA RefineStep ==
  ASSUME "short" \notin Faults, RefineInv, [Next]_vars
  PROVE  [Buffer!Next]_(Buffer!vars)
<1>1. ASSUME NEW b \in Batches, LoadRefused(b) PROVE Buffer!Next
  BY <1>1, RefineRefuse DEF Buffer!Next
<1>2. ASSUME NEW b \in Batches, LoadAccepted(b) PROVE Buffer!Next
  BY <1>2, RefineLoad DEF Buffer!Next
<1>3. CASE LoadEnd
  <2>1. Rest = << >> /\ Rest' = << >>
    <3>1. /\ next \in Nat /\ Len(batch) \in Nat /\ Len(batch) < next
          /\ batch' = << >> /\ next' = 1 /\ Len(<< >>) = 0
      BY <1>3, DataAssumption, EmptySeq, LenProperties
         DEF LoadEnd, RefineInv, IInv, TypeOK
    <3> QED
      BY <3>1, SubSeqEmpty DEF Rest
  <2>2. Memory' = Memory
    BY <1>3, <2>1 DEF LoadEnd, Memory
  <2> QED
    BY <1>3, <2>2 DEF LoadEnd, Buffer!vars, Memory, Rest, SavedMap
<1>4. ASSUME NEW id \in KeyIds, PurgeKey(id) PROVE Buffer!Next
  BY <1>4, RefinePurge DEF Buffer!Next
<1>5. ASSUME NEW id \in KeyIds, PurgeMissing(id) \/ QueryId(id) PROVE Buffer!Next
  BY <1>5, RefineQueryId DEF Buffer!Next
<1>6. CASE PurgeAll
  BY <1>6, RefinePurgeAll DEF Buffer!Next
<1>7. CASE QueryAll
  BY <1>7, RefineQueryAll DEF Buffer!Next
<1>8. CASE PersistOpen \/ PersistThrows \/ PersistWrite
  BY <1>8, RefinePersist DEF Buffer!Next
<1>9. CASE PersistShort
  BY <1>9 DEF PersistShort
<1>10. CASE Stop \/ Crash
  BY <1>10, RefineEnd DEF Stop, Crash, Buffer!Next
<1>11. CASE UNCHANGED vars
  BY <1>11 DEF vars, Buffer!vars, SavedMap
<1> QED
  BY <1>1, <1>2, <1>3, <1>4, <1>5, <1>6, <1>7, <1>8, <1>9, <1>10, <1>11,
     RefineStart, RefineRecord DEF Next

\* From sound files and without short writes, every behaviour of the store is
\* one the durable buffer allows.
THEOREM BufferIsImplemented ==
  ASSUME SoundSeeds, "short" \notin Faults PROVE Spec => ImplementsBuffer
<1>1. Init => BatchInv
  BY DEF Init, BatchInv
<1>2. RefineInv <=> IInv /\ BatchInv
  BY DEF RefineInv
<1> QED
  BY <1>1, <1>2, BatchStep, InvHolds, RefineInit, RefineStep, PTL
     DEF Spec, ImplementsBuffer, Buffer!Spec
=============================================================================
