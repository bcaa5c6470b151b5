-------------------------- MODULE AsmServiceProofs --------------------------
(***************************************************************************)
(* Safety of the service for every capacity, every set of requests and     *)
(* every event log. The argument: between two requests the ids of the      *)
(* vector are the ones the answers imply (StoreInv), which the loop of     *)
(* load_keys brings about record by record without outgrowing the capacity *)
(* (LoopInv), for a load the answers foretold to fit; the last answer is   *)
(* one of a dozen (AnswerInv), each a function of the request, the vector  *)
(* and the log; and the ids listed last are those of events in the window  *)
(* asked for (ListedInv).                                                  *)
(***************************************************************************)
EXTENDS AsmService, LEKeyOpsProofs

-----------------------------------------------------------------------------
(***************************************************************************)
(* The inductive invariant.                                                *)
(***************************************************************************)

\* An event as the provider keeps it.
Events == [id : 0 .. Word - 1, time : 0 .. Word - 1, shown : Int, bytes : Nat]

\* Types strong enough for the step; the reply is left to AnswerInv.
Types ==
    /\ keys \in Seq(Records)
    /\ pc \in {"idle", "load"}
    /\ request \in Received \cup {None}
    /\ known \in SUBSET Nat
    /\ events \in Seq(Events)

\* Between two requests the answers so far name the ids of the vector.
StoreInv ==
    /\ UniqueIds(keys)
    /\ Len(keys) <= Capacity
    /\ pc = "idle" => Ids(keys) = known

\* The ids of the first n records of a batch.
FirstIds(batch, n) == {batch[i].id : i \in 1 .. n}

\* In the loop, the vector holds what was known and the part of the batch that
\* is done, and has room for the rest.
LoopInv ==
    pc = "load" =>
        /\ request \in Received
        /\ Dispatched(request, "le_key_load")
        /\ response = None
        /\ next \in 1 .. Len(request.keys) + 1
        /\ Ids(keys) = known \cup FirstIds(request.keys, next - 1)
        /\ Len(keys) + Cardinality(FreshPositions(request.keys, next, keys))
              <= Capacity
        /\ Cardinality(known) + Cardinality(Additions(request.keys)) <= Capacity

\* Why a request is answered with BadRequest.
Refused(f) == ~RequestDecodes(f) \/ f.rid = 0 \/ ~PayloadDecodes(f)

\* The answers there are to a request.
Answers(f, r) ==
    \/ Refused(f) /\ r = BadRequest(f)
    \/ /\ \E cmd \in {"query_spb", "le_key_query_all", "le_key_purge_all"} :
              Dispatched(f, cmd)
       /\ PayloadSize(f) > 0
       /\ r = Response(f, NoPayload, "invalid")
    \/ Dispatched(f, "get_time") /\ r = Response(f, TimePayload, "successful")
    \/ /\ Dispatched(f, "get_event_list")
       /\ PayloadDecodes(f)
       /\ IF f.words[1] > f.words[2]
          THEN r = Response(f, NoPayload, "invalid")
          ELSE r = Response(f, IdBatch(EventIds(events, f.words[1], f.words[2])),
                            "successful")
    \/ /\ Dispatched(f, "get_event_id")
       /\ PayloadDecodes(f)
       /\ IF ContainsKey(events, f.words[1])
          THEN r = Response(f, LogRecord(FirstEvent(events, f.words[1])),
                            "successful")
          ELSE r = Response(f, NoPayload, "invalid")
    \/ /\ Dispatched(f, "query_spb")
       /\ PayloadSize(f) = 0
       /\ r = Response(f, SpbStatus(Status), "successful")
    \/ /\ Dispatched(f, "le_key_load")
       /\ WouldOverflow(f.keys, keys, Capacity)
       /\ r = Response(f, FlagByte(TRUE), "failed")
    \/ /\ Dispatched(f, "le_key_load")
       /\ r = Response(f, FlagByte(FALSE), "successful")
    \/ /\ Dispatched(f, "le_key_query_id")
       /\ r = Response(f, FlagByte(ContainsKey(keys, f.words[1])), "successful")
    \/ /\ Dispatched(f, "le_key_query_all")
       /\ PayloadSize(f) = 0
       /\ r = Response(f, IdBatch(ListKeyIds(keys)), "successful")
    \/ /\ Dispatched(f, "le_key_purge_id")
       /\ \E b \in BOOLEAN : r = Response(f, FlagByte(b), "successful")
    \/ /\ Dispatched(f, "le_key_purge_all")
       /\ r = Response(f, NoPayload, "successful")

\* The last answer is one of them.
AnswerInv == response # None => request \in Received /\ Answers(request, response)

\* Every listed id is the id of an event of the window it was listed for.
ListedInv ==
    listed # None =>
        /\ Len(listed.ids) <= Len(events)
        /\ \A i \in DOMAIN listed.ids : \E j \in DOMAIN events :
              /\ events[j].id = listed.ids[i]
              /\ events[j].time \in listed.start .. listed.stop

\* The inductive invariant.
IInv == Types /\ StoreInv /\ LoopInv /\ AnswerInv /\ ListedInv

-----------------------------------------------------------------------------
(***************************************************************************)
(* The event log.                                                          *)
(***************************************************************************)

\* The lines of a log's file.
LineRecords == [blank : BOOLEAN, matches : BOOLEAN, id : Nat,
                severity : STRING, time : Int, bytes : Nat]

\* The constructor of the provider makes an event of each line that counts.
LEMMA EventsOfProperties ==
  ASSUME NEW lines \in Seq(LineRecords)
  PROVE  /\ EventsOf(lines) \in Seq(Events)
         /\ Len(EventsOf(lines)) <= Len(lines)
         /\ \A i \in DOMAIN EventsOf(lines) : \E j \in DOMAIN lines :
               EventsOf(lines)[i].bytes = lines[j].bytes
<1>1. PICK P \in SUBSET DOMAIN lines : P = {i \in DOMAIN lines : ~lines[i].blank}
  OBVIOUS
<1> DEFINE read == Selected(lines, P)
           n == Cardinality(P)
<1>2. EventsOf(lines) = [i \in DOMAIN read |-> ParsedLine(read[i])]
  BY <1>1 DEF EventsOf
<1>3. /\ read \in Seq(LineRecords) /\ n \in Nat /\ Len(read) = n
      /\ n <= Len(lines) /\ DOMAIN read = 1 .. n
  BY SelectedProperties, LenProperties
<1>4. PICK f : Picks(f, lines, P)
  BY SelectedProperties
<1>5. \A k \in 1 .. n : f[k] \in DOMAIN lines /\ read[k] = lines[f[k]]
  BY <1>4 DEF Picks
<1> HIDE DEF read, n
<1>6. \A k \in 1 .. n : read[k] \in LineRecords
  BY <1>3, ElementOfSeq
<1>7. \A r \in LineRecords : ParsedLine(r) \in Events
  <2>1. \A x \in Int : x % Word \in 0 .. Word - 1
    BY WordAssumption
  <2> QED
    BY <2>1 DEF LineRecords, ParsedLine, Events
<1>8. /\ EventsOf(lines) \in Seq(Events) /\ Len(EventsOf(lines)) = n
      /\ DOMAIN EventsOf(lines) = 1 .. n
  BY <1>2, <1>3, <1>6, <1>7
<1>9. ASSUME NEW i \in 1 .. n
      PROVE  EventsOf(lines)[i].bytes = lines[f[i]].bytes
  BY <1>2, <1>3, <1>5 DEF ParsedLine
<1> QED
  BY <1>3, <1>5, <1>8, <1>9

\* list_event_ids gives ids of events of the window, no more than there are.
LEMMA EventIdsProperties ==
  ASSUME NEW es \in Seq(Events), NEW start, NEW stop
  PROVE  /\ EventIds(es, start, stop) \in Seq(Nat)
         /\ Len(EventIds(es, start, stop)) <= Len(es)
         /\ Len(EventIds(es, start, stop))
               = Cardinality({i \in DOMAIN es : es[i].time \in start .. stop})
         /\ \A i \in DOMAIN EventIds(es, start, stop) : \E j \in DOMAIN es :
               /\ es[j].id = EventIds(es, start, stop)[i]
               /\ es[j].time \in start .. stop
<1>1. PICK P \in SUBSET DOMAIN es : P = {i \in DOMAIN es : es[i].time \in start .. stop}
  OBVIOUS
<1> DEFINE found == Selected(es, P)
           n == Cardinality(P)
           ids == EventIds(es, start, stop)
<1>2. ids = [i \in DOMAIN found |-> found[i].id]
  BY <1>1 DEF EventIds
<1>3. /\ found \in Seq(Events) /\ n \in Nat /\ Len(found) = n
      /\ n <= Len(es) /\ DOMAIN found = 1 .. n
  BY SelectedProperties, LenProperties
<1>4. PICK f : Picks(f, es, P)
  BY SelectedProperties
<1>5. \A k \in 1 .. n : f[k] \in P /\ found[k] = es[f[k]]
  BY <1>4 DEF Picks
<1> HIDE DEF found, n, ids
<1>6. \A k \in 1 .. n : found[k].id \in Nat
  <2>1. \A k \in 1 .. n : found[k] \in Events
    BY <1>3, ElementOfSeq
  <2>2. \A e \in Events : e.id \in Nat
    BY WordAssumption DEF Events
  <2> QED
    BY <2>1, <2>2
<1>7. ids \in Seq(Nat) /\ Len(ids) = n /\ DOMAIN ids = 1 .. n
  BY <1>2, <1>3, <1>6
<1>8. ASSUME NEW i \in 1 .. n
      PROVE  /\ f[i] \in DOMAIN es
             /\ es[f[i]].id = ids[i]
             /\ es[f[i]].time \in start .. stop
  BY <1>1, <1>2, <1>3, <1>5
<1>9. Len(ids) = Cardinality({i \in DOMAIN es : es[i].time \in start .. stop})
  BY <1>1, <1>7 DEF n
<1> QED
  BY <1>3, <1>7, <1>8, <1>9 DEF ids

\* get_event_xml finds an event with the id if there is one.
LEMMA FirstEventFinds ==
  ASSUME NEW es \in Seq(Events), NEW id, ContainsKey(es, id)
  PROVE  \E i \in DOMAIN es : FirstEvent(es, id) = es[i] /\ es[i].id = id
<1> DEFINE S == {i \in DOMAIN es : es[i].id = id}
<1>1. DOMAIN es = 1 .. Len(es) /\ Len(es) \in Nat
  BY LenProperties
<1>2. S \in SUBSET Nat /\ S # {}
  BY <1>1 DEF ContainsKey, Ids
<1>3. PICK m \in S : \A k \in S : m <= k
  BY <1>2, LeastExists
<1>4. \A j \in 1 .. m - 1 : es[j].id # id
  <2> SUFFICES ASSUME NEW j \in 1 .. m - 1, es[j].id = id PROVE FALSE
    OBVIOUS
  <2>1. j \in DOMAIN es /\ ~(m <= j)
    BY <1>1
  <2> QED
    BY <1>3, <2>1
<1>5. \E i \in DOMAIN es : es[i].id = id /\ \A j \in 1 .. i - 1 : es[j].id # id
  BY <1>4
<1> QED
  BY <1>5 DEF FirstEvent

-----------------------------------------------------------------------------
(***************************************************************************)
(* The steps.                                                              *)
(***************************************************************************)

\* What a frame on its way to a handler holds.
LEMMA FrameProperties ==
  ASSUME NEW f \in Received
  PROVE  /\ f.size \in Nat /\ f.length \in Nat /\ f.words \in Seq(Nat)
         /\ f.keys \in Seq(Records)
         /\ Len(f.keys) \in Nat /\ DOMAIN f.keys = 1 .. Len(f.keys)
         /\ Ids(f.keys) \in SUBSET Nat
         /\ RequestDecodes(f) /\ PayloadDecodes(f) /\ f.ul.cmd = "le_key_purge_id"
               => f.words[1] \in Nat
         /\ RequestDecodes(f) /\ PayloadDecodes(f) /\ f.ul.cmd = "get_event_list"
               => f.words[1] \in Nat /\ f.words[2] \in Nat
<1>1. /\ f.size \in Nat /\ f.length \in Nat /\ f.words \in Seq(Nat)
      /\ f.keys \in Seq(Records)
  BY FrameAssumption
<1>2. Len(f.keys) \in Nat /\ DOMAIN f.keys = 1 .. Len(f.keys)
  BY <1>1, LenProperties
<1>3. \A i \in 1 .. Len(f.keys) : f.keys[i] \in Records
  BY <1>1, ElementOfSeq
<1>4. Ids(f.keys) \in SUBSET Nat
  BY <1>2, <1>3 DEF Ids, Records
<1>5. ASSUME RequestDecodes(f), PayloadDecodes(f), f.ul.cmd = "le_key_purge_id"
      PROVE  f.words[1] \in Nat
  <2>1. Len(f.words) = 1
    BY <1>5, FrameAssumption
  <2> QED
    BY <1>1, <2>1, ElementOfSeq
<1>6. ASSUME RequestDecodes(f), PayloadDecodes(f), f.ul.cmd = "get_event_list"
      PROVE  f.words[1] \in Nat /\ f.words[2] \in Nat
  <2>1. Len(f.words) = 2
    BY <1>6, FrameAssumption
  <2> QED
    BY <1>1, <2>1, ElementOfSeq
<1> QED
  BY <1>1, <1>2, <1>4, <1>5, <1>6

\* What the vector would count is what the answers so far let a client count.
LEMMA FreshIsAddition ==
  ASSUME keys \in Seq(Records), UniqueIds(keys), Ids(keys) = known,
         NEW b \in Seq(Records)
  PROVE  /\ Cardinality(known) = Len(keys) /\ Len(keys) \in Nat
         /\ Additions(b) = FreshPositions(b, 1, keys)
         /\ Cardinality(Additions(b)) \in Nat
<1>1. Cardinality(known) = Len(keys) /\ Len(keys) \in Nat
  BY IdsCardinality, LenProperties
<1>2. DOMAIN b = 1 .. Len(b)
  BY LenProperties
<1>3. Additions(b) = FreshPositions(b, 1, keys)
  BY <1>2 DEF Additions, FreshPositions
<1> QED
  BY <1>1, <1>3, FreshFinite

\* A request that is refused, or answered without a look at the vector, leaves
\* the vector and what is known of it alone.
Untouched(f) ==
    /\ pc = "idle" /\ pc' = "idle" /\ request' = f
    /\ UNCHANGED <<keys, known, next, events>>

\* Handlers but those of LEKeyLoad and the purges do not touch the keys.
LEMMA HandlersLeaveKeys ==
  ASSUME NEW f \in Received,
         \/ DecodeFailure(f) \/ ZeroRequestId(f) \/ PayloadNotEmpty(f)
         \/ GetTime(f) \/ GetEventList(f) \/ GetEventId(f) \/ QuerySpb(f)
         \/ LoadOverflow(f) \/ QueryId(f) \/ QueryAll(f)
  PROVE  Untouched(f)
  BY DEF Untouched, Answer, DecodeFailure, ZeroRequestId, PayloadNotEmpty,
         GetTime, GetEventList, GetEventId, QuerySpb, LoadOverflow, QueryId,
         QueryAll

\* The states between which a step leads: a request is refused or answered, a
\* load begins, turns or ends, a purge removes keys, or nothing happens.
LEMMA StepCases ==
  ASSUME [Next]_vars
  PROVE  \/ \E f \in Received :
               \/ DecodeFailure(f) \/ ZeroRequestId(f) \/ PayloadNotEmpty(f)
               \/ GetTime(f) \/ GetEventList(f) \/ GetEventId(f) \/ QuerySpb(f)
               \/ LoadOverflow(f) \/ QueryId(f) \/ QueryAll(f)
         \/ \E f \in Received : LoadBegin(f)
         \/ \E f \in Received : PurgeId(f)
         \/ \E f \in Received : PurgeAll(f)
         \/ LoadRecord
         \/ LoadEnd
         \/ UNCHANGED vars
  BY DEF Next, Handle

\* Every step keeps the types.
LEMMA TypesStep == Types /\ LoopInv /\ [Next]_vars => Types'
<1> SUFFICES ASSUME Types, LoopInv, [Next]_vars PROVE Types'
  OBVIOUS
<1>1. ASSUME NEW f \in Received, Untouched(f) PROVE Types'
  BY <1>1 DEF Types, Untouched
<1>2. ASSUME NEW f \in Received, LoadBegin(f) PROVE Types'
  BY <1>2 DEF Types, LoadBegin, log
<1>3. ASSUME NEW f \in Received, PurgeId(f) PROVE Types'
  <2>1. keys' \in Seq(Records)
    BY <1>3, EraseProperties DEF PurgeId, Types
  <2>2. known' \in SUBSET Nat
    BY <1>3 DEF PurgeId, Types
  <2> QED
    BY <1>3, <2>1, <2>2 DEF PurgeId, Answer, Types
<1>4. ASSUME NEW f \in Received, PurgeAll(f) PROVE Types'
  BY <1>4, EmptySeq DEF Types, PurgeAll, Answer
<1>5. CASE LoadRecord
  <2>1. request \in Received /\ next \in 1 .. Len(request.keys)
    BY <1>5, FrameProperties DEF LoadRecord, LoopInv
  <2>2. request.keys[next] \in Records
    BY <2>1, FrameProperties, ElementOfSeq
  <2>3. keys' \in Seq(Records)
    BY <1>5, <2>2, UpsertType DEF LoadRecord, Types
  <2> QED
    BY <1>5, <2>3 DEF LoadRecord, log, Types
<1>6. CASE LoadEnd
  <2>1. Ids(request.keys) \in SUBSET Nat
    BY <1>6, FrameProperties DEF LoadEnd, LoopInv
  <2> QED
    BY <1>6, <2>1 DEF LoadEnd, log, Types
<1>7. CASE UNCHANGED vars
  BY <1>7 DEF vars, Types
<1> QED
  BY <1>1, <1>2, <1>3, <1>4, <1>5, <1>6, <1>7, StepCases, HandlersLeaveKeys

\* Every step leaves the vector as the answers describe it, within its capacity.
LEMMA StoreStep == Types /\ StoreInv /\ LoopInv /\ [Next]_vars => StoreInv'
<1> SUFFICES ASSUME Types, StoreInv, LoopInv, [Next]_vars PROVE StoreInv'
  OBVIOUS
<1>k. keys \in Seq(Records) /\ Len(keys) \in Nat
  BY LenProperties DEF Types
<1>1. ASSUME NEW f \in Received, Untouched(f) PROVE StoreInv'
  BY <1>1 DEF StoreInv, Untouched
<1>2. ASSUME NEW f \in Received, LoadBegin(f) PROVE StoreInv'
  BY <1>2 DEF StoreInv, LoadBegin, log
<1>3. ASSUME NEW f \in Received, PurgeId(f) PROVE StoreInv'
  <2>1. /\ UniqueIds(keys') /\ Len(keys') <= Len(keys) /\ Len(keys') \in Nat
        /\ Ids(keys') = Ids(keys) \ {f.words[1]}
    BY <1>3, <1>k, EraseProperties, LenProperties DEF PurgeId, StoreInv
  <2>2. Len(keys') <= Capacity
    BY <1>k, <2>1, CapacityAssumption DEF StoreInv
  <2> QED
    BY <1>3, <2>1, <2>2 DEF PurgeId, Answer, StoreInv
<1>4. ASSUME NEW f \in Received, PurgeAll(f) PROVE StoreInv'
  <2>1. UniqueIds(<< >>) /\ Ids(<< >>) = {} /\ Len(<< >>) <= Capacity
    BY CapacityAssumption DEF UniqueIds, Ids
  <2> QED
    BY <1>4, <2>1 DEF StoreInv, PurgeAll, Answer
<1>5. CASE LoadRecord
  <2>1. /\ request \in Received /\ next \in 1 .. Len(request.keys)
        /\ Len(keys) + Cardinality(FreshPositions(request.keys, next, keys))
              <= Capacity
    BY <1>5, FrameProperties DEF LoadRecord, LoopInv
  <2>2. /\ request.keys \in Seq(Records) /\ request.keys[next] \in Records
        /\ Len(keys') \in Nat
    BY <1>5, <1>k, <2>1, FrameProperties, ElementOfSeq, UpsertType, LenProperties
       DEF LoadRecord
  <2>3. UniqueIds(keys')
    BY <1>5, <1>k, <2>2, UpsertIds DEF LoadRecord, StoreInv
  <2>4. /\ Cardinality(FreshPositions(request.keys, next, keys)) \in Nat
        /\ Cardinality(FreshPositions(request.keys, next + 1, keys')) \in Nat
    BY <2>1, <2>2, FreshFinite
  <2>5. Len(keys') + Cardinality(FreshPositions(request.keys, next + 1, keys'))
          <= Len(keys) + Cardinality(FreshPositions(request.keys, next, keys))
    BY <1>5, <1>k, <2>1, <2>2, UpsertRoom DEF LoadRecord, StoreInv
  <2>6. Len(keys') <= Capacity
    BY <1>k, <2>1, <2>2, <2>4, <2>5, CapacityAssumption
  <2> QED
    BY <1>5, <2>3, <2>6 DEF LoadRecord, StoreInv
<1>6. CASE LoadEnd
  <2>1. /\ request \in Received
        /\ next - 1 = Len(request.keys)
        /\ Ids(keys) = known \cup FirstIds(request.keys, next - 1)
    <3>1. /\ request \in Received
          /\ next \in 1 .. Len(request.keys) + 1 /\ next > Len(request.keys)
          /\ Ids(keys) = known \cup FirstIds(request.keys, next - 1)
      BY <1>6 DEF LoadEnd, LoopInv
    <3>2. Len(request.keys) \in Nat
      BY <3>1, FrameProperties
    <3> QED
      BY <3>1, <3>2
  <2>2. FirstIds(request.keys, Len(request.keys)) = Ids(request.keys)
    BY <2>1, FrameProperties DEF FirstIds, Ids
  <2> QED
    BY <1>6, <2>1, <2>2 DEF LoadEnd, StoreInv
<1>7. CASE UNCHANGED vars
  BY <1>7 DEF vars, StoreInv
<1> QED
  BY <1>1, <1>2, <1>3, <1>4, <1>5, <1>6, <1>7, StepCases, HandlersLeaveKeys

\* Every step keeps what the loop of load_keys relies on.
LEMMA LoopStep == Types /\ StoreInv /\ LoopInv /\ [Next]_vars => LoopInv'
<1> SUFFICES ASSUME Types, StoreInv, LoopInv, [Next]_vars, pc' = "load"
             PROVE  LoopInv'
  BY DEF LoopInv
<1>k. keys \in Seq(Records) /\ Len(keys) \in Nat
  BY LenProperties DEF Types
<1>1. ASSUME NEW f \in Received, Untouched(f) PROVE FALSE
  BY <1>1 DEF Untouched
<1>2. ASSUME NEW f \in Received, LoadBegin(f) PROVE LoopInv'
  <2>1. /\ request' = f /\ next' = 1 /\ keys' = keys /\ known' = known
        /\ response' = None /\ pc = "idle"
        /\ Dispatched(f, "le_key_load") /\ ~WouldOverflow(f.keys, keys, Capacity)
    BY <1>2 DEF LoadBegin
  <2>2. f.keys \in Seq(Records) /\ 1 \in 1 .. Len(f.keys) + 1
    BY FrameProperties
  <2>3. Cardinality(FreshPositions(f.keys, 1, keys)) \in Nat
    BY <2>2, FreshFinite
  <2>4. Len(keys) + Cardinality(FreshPositions(f.keys, 1, keys)) <= Capacity
    BY <1>k, <2>1, <2>3, CapacityAssumption DEF WouldOverflow
  <2>5. Ids(keys) = known \cup FirstIds(f.keys, 1 - 1)
    BY <2>1 DEF StoreInv, FirstIds
  <2>6. Cardinality(known) + Cardinality(Additions(f.keys)) <= Capacity
    <3>1. keys \in Seq(Records) /\ UniqueIds(keys) /\ Ids(keys) = known
      BY <2>1 DEF Types, StoreInv
    <3> QED
      BY <2>2, <2>4, <3>1, FreshIsAddition
  <2> QED
    BY <2>1, <2>2, <2>4, <2>5, <2>6 DEF LoopInv, Dispatched, Additions
<1>3. ASSUME NEW f \in Received, PurgeId(f) PROVE FALSE
  BY <1>3 DEF PurgeId, Answer
<1>4. ASSUME NEW f \in Received, PurgeAll(f) PROVE FALSE
  BY <1>4 DEF PurgeAll, Answer
<1>5. CASE LoadRecord
  <2> DEFINE b == request.keys
  <2>1. /\ request \in Received /\ next \in 1 .. Len(b) /\ Len(b) \in Nat
        /\ b \in Seq(Records) /\ DOMAIN b = 1 .. Len(b)
        /\ Ids(keys) = known \cup FirstIds(b, next - 1)
        /\ Len(keys) + Cardinality(FreshPositions(b, next, keys)) <= Capacity
    BY <1>5, FrameProperties DEF LoadRecord, LoopInv
  <2>2. /\ keys' = Upsert(keys, b[next]) /\ next' = next + 1
        /\ UNCHANGED <<pc, request, response, known>>
    BY <1>5 DEF LoadRecord
  <2>3. b[next] \in Records /\ keys' \in Seq(Records) /\ Len(keys') \in Nat
    BY <1>k, <2>1, <2>2, ElementOfSeq, UpsertType, LenProperties
  <2>4. Ids(keys') = known \cup FirstIds(b, next)
    <3>1. Ids(keys') = Ids(keys) \cup {b[next].id}
      <4>1. Ids(Upsert(keys, b[next])) = Ids(keys) \cup {b[next].id}
        BY <1>k, <2>3, UpsertIds DEF StoreInv
      <4> QED
        BY <2>2, <4>1
    <3>2. 1 .. next = (1 .. next - 1) \cup {next}
      BY <2>1
    <3>3. FirstIds(b, next) = FirstIds(b, next - 1) \cup {b[next].id}
      BY <3>2 DEF FirstIds
    <3> QED
      BY <2>1, <3>1, <3>3
  <2>5. /\ Cardinality(FreshPositions(b, next, keys)) \in Nat
        /\ Cardinality(FreshPositions(b, next + 1, keys')) \in Nat
    <3>1. next \in Nat /\ next + 1 \in Nat
      BY <2>1
    <3> HIDE DEF b
    <3> QED
      BY <2>1, <2>3, <3>1, FreshFinite
  <2>6. Len(keys') + Cardinality(FreshPositions(b, next + 1, keys'))
          <= Len(keys) + Cardinality(FreshPositions(b, next, keys))
    BY <1>k, <2>1, <2>2, <2>3, UpsertRoom DEF StoreInv
  <2>7. Len(keys') + Cardinality(FreshPositions(b, next + 1, keys')) <= Capacity
    BY <1>k, <2>1, <2>3, <2>5, <2>6, CapacityAssumption
  <2>8. next' \in 1 .. Len(b) + 1 /\ next' - 1 = next
    BY <2>1, <2>2
  <2>9. Dispatched(request, "le_key_load") /\ response = None
    BY <1>5 DEF LoadRecord, LoopInv
  <2>10. Cardinality(known) + Cardinality(Additions(b)) <= Capacity
    BY <1>5 DEF LoadRecord, LoopInv
  <2> QED
    BY <2>1, <2>2, <2>4, <2>7, <2>8, <2>9, <2>10
       DEF LoopInv, Dispatched, Additions
<1>6. CASE LoadEnd
  BY <1>6 DEF LoadEnd
<1>7. CASE UNCHANGED vars
  BY <1>7 DEF vars, LoopInv, Dispatched, Additions
<1> QED
  BY <1>1, <1>2, <1>3, <1>4, <1>5, <1>6, <1>7, StepCases, HandlersLeaveKeys

\* Every step leaves an answer of the kind there is to the request.
LEMMA AnswerStep == LoopInv /\ AnswerInv /\ [Next]_vars => AnswerInv'
<1> SUFFICES ASSUME LoopInv, AnswerInv, [Next]_vars, response' # None
             PROVE  request' \in Received /\ Answers(request, response)'
  BY DEF AnswerInv
<1>1. ASSUME NEW f \in Received,
             DecodeFailure(f) \/ ZeroRequestId(f)
      PROVE  request' \in Received /\ Answers(request, response)'
  <2>1. Refused(f)
    BY <1>1 DEF DecodeFailure, ZeroRequestId, Refused
  <2> QED
    BY <1>1, <2>1 DEF DecodeFailure, ZeroRequestId, Answer, Answers
<1>2. ASSUME NEW f \in Received, PayloadNotEmpty(f)
      PROVE  request' \in Received /\ Answers(request, response)'
  BY <1>2 DEF PayloadNotEmpty, Answer, Answers
<1>3. ASSUME NEW f \in Received, GetTime(f)
      PROVE  request' \in Received /\ Answers(request, response)'
  BY <1>3 DEF GetTime, Answer, Answers
<1>4. ASSUME NEW f \in Received, GetEventList(f)
      PROVE  request' \in Received /\ Answers(request, response)'
  BY <1>4 DEF GetEventList, Answer, Answers
<1>5. ASSUME NEW f \in Received, GetEventId(f)
      PROVE  request' \in Received /\ Answers(request, response)'
  BY <1>5 DEF GetEventId, Answer, Answers
<1>6. ASSUME NEW f \in Received, QuerySpb(f)
      PROVE  request' \in Received /\ Answers(request, response)'
  BY <1>6 DEF QuerySpb, Answer, Answers
<1>7. ASSUME NEW f \in Received, LoadOverflow(f)
      PROVE  request' \in Received /\ Answers(request, response)'
  BY <1>7 DEF LoadOverflow, Answer, Answers
<1>8. ASSUME NEW f \in Received, QueryId(f)
      PROVE  request' \in Received /\ Answers(request, response)'
  BY <1>8 DEF QueryId, Answer, Answers
<1>9. ASSUME NEW f \in Received, QueryAll(f)
      PROVE  request' \in Received /\ Answers(request, response)'
  BY <1>9 DEF QueryAll, Answer, Answers
<1>10. ASSUME NEW f \in Received, LoadBegin(f) PROVE FALSE
  BY <1>10 DEF LoadBegin
<1>11. ASSUME NEW f \in Received, PurgeId(f)
       PROVE  request' \in Received /\ Answers(request, response)'
  <2>1. (Len(keys') = Len(keys)) \in BOOLEAN
    OBVIOUS
  <2> QED
    BY <1>11, <2>1 DEF PurgeId, Answer, Answers
<1>12. ASSUME NEW f \in Received, PurgeAll(f)
       PROVE  request' \in Received /\ Answers(request, response)'
  BY <1>12 DEF PurgeAll, Answer, Answers
<1>13. CASE LoadRecord
  BY <1>13 DEF LoadRecord, LoopInv
<1>14. CASE LoadEnd
  BY <1>14 DEF LoadEnd, LoopInv, Answers
<1>15. CASE UNCHANGED vars
  BY <1>15 DEF vars, AnswerInv, Answers
<1> QED
  BY <1>1, <1>2, <1>3, <1>4, <1>5, <1>6, <1>7, <1>8, <1>9, <1>10, <1>11,
     <1>12, <1>13, <1>14, <1>15, StepCases

\* An answer of the event list makes the new list, and nothing else does.
LEMMA ListedStep == Types /\ ListedInv /\ [Next]_vars => ListedInv'
<1> SUFFICES ASSUME Types, ListedInv, [Next]_vars PROVE ListedInv'
  OBVIOUS
<1>1. ASSUME UNCHANGED log PROVE ListedInv'
  BY <1>1 DEF ListedInv, log
<1>2. ASSUME NEW f \in Received, NEW r, Answer(f, r),
             ~(r.cmd = "get_event_list" /\ r.code = "successful")
      PROVE  ListedInv'
  <2>1. UNCHANGED log
    BY <1>2 DEF Answer, log
  <2> QED
    BY <1>1, <2>1
<1>3. ASSUME NEW f \in Received, NEW r, Answer(f, r),
             \/ r = BadRequest(f)
             \/ r.code # "successful"
             \/ \E cmd \in Commands \ {"get_event_list"} : \E p, code :
                  Dispatched(f, cmd) /\ r = Response(f, p, code)
      PROVE  ListedInv'
  <2>1. ~(r.cmd = "get_event_list" /\ r.code = "successful")
    BY <1>3 DEF Commands, BadRequest, Response, Dispatched
  <2> QED
    BY <1>2, <1>3, <2>1
<1>4. ASSUME NEW f \in Received, DecodeFailure(f) \/ ZeroRequestId(f)
      PROVE  ListedInv'
  BY <1>3, <1>4 DEF DecodeFailure, ZeroRequestId
<1>5. ASSUME NEW f \in Received, GetEventList(f) PROVE ListedInv'
  <2> DEFINE start == f.words[1]
             stop == f.words[2]
             ids == EventIds(events, start, stop)
             r == Response(f, IdBatch(ids), "successful")
  <2>1. CASE start > stop
    <3>1. Answer(f, Response(f, NoPayload, "invalid"))
      BY <1>5, <2>1 DEF GetEventList
    <3>2. Response(f, NoPayload, "invalid").code # "successful"
      BY DEF Response
    <3> QED
      BY <1>3, <3>1, <3>2
  <2>2. CASE ~(start > stop)
    <3>1. Answer(f, r)
      BY <1>5, <2>2 DEF GetEventList
    <3>2. /\ r.cmd = "get_event_list" /\ r.code = "successful"
          /\ r.payload.ids = ids
      BY <1>5 DEF GetEventList, Dispatched, Response, IdBatch
    <3>3. listed' = [start |-> start, stop |-> stop, ids |-> ids] /\ events' = events
      BY <3>1, <3>2 DEF Answer
    <3>4. /\ Len(ids) <= Len(events)
          /\ \A i \in DOMAIN ids : \E j \in DOMAIN events :
                events[j].id = ids[i] /\ events[j].time \in start .. stop
      BY EventIdsProperties DEF Types
    <3> HIDE DEF ids, start, stop
    <3> QED
      BY <3>3, <3>4 DEF ListedInv
  <2> QED
    BY <2>1, <2>2
<1>6. ASSUME NEW f \in Received, PayloadNotEmpty(f) PROVE ListedInv'
  BY <1>2, <1>6 DEF PayloadNotEmpty, Response
<1>7. ASSUME NEW f \in Received,
             \/ GetTime(f) \/ GetEventId(f) \/ QuerySpb(f) \/ LoadOverflow(f)
             \/ QueryId(f) \/ QueryAll(f) \/ PurgeId(f) \/ PurgeAll(f)
      PROVE  ListedInv'
  <2>1. PICK cmd \in Commands \ {"get_event_list"} : \E p, code :
            Dispatched(f, cmd) /\ Answer(f, Response(f, p, code))
    BY <1>7 DEF Commands, GetTime, GetEventId, QuerySpb, LoadOverflow, QueryId,
                QueryAll, PurgeId, PurgeAll
  <2> QED
    BY <1>3, <2>1
<1>8. ASSUME NEW f \in Received, LoadBegin(f) PROVE ListedInv'
  BY <1>1, <1>8 DEF LoadBegin
<1>9. CASE LoadRecord \/ LoadEnd
  BY <1>1, <1>9 DEF LoadRecord, LoadEnd
<1>10. CASE UNCHANGED vars
  BY <1>1, <1>10 DEF vars, log
<1> QED
  BY <1>4, <1>5, <1>6, <1>7, <1>8, <1>9, <1>10, StepCases

\* The responder starts with an empty vector and a log that opens.
LEMMA InitInv == Init => IInv
<1> SUFFICES ASSUME Init PROVE IInv
  OBVIOUS
<1>1. events \in Seq(Events)
  BY EventsOfProperties, LogsAssumption DEF Init, LineRecords
<1>2. UniqueIds(<< >>) /\ Ids(<< >>) = {} /\ Len(<< >>) <= Capacity
  BY CapacityAssumption DEF UniqueIds, Ids
<1> QED
  BY <1>1, <1>2, EmptySeq
     DEF Init, IInv, Types, StoreInv, LoopInv, AnswerInv, ListedInv

\* The invariant holds in every reachable state.
LEMMA InvHolds == Spec => []IInv
<1>1. IInv /\ [Next]_vars => IInv'
  BY TypesStep, StoreStep, LoopStep, AnswerStep, ListedStep DEF IInv
<1> QED
  BY <1>1, InitInv, PTL DEF Spec

-----------------------------------------------------------------------------
(***************************************************************************)
(* The results.                                                            *)
(***************************************************************************)

\* What the two builders of answers put in.
LEMMA ResponseFields ==
  /\ \A f, p, code :
        /\ Response(f, p, code).cmd = f.ul.cmd
        /\ Response(f, p, code).rid = f.rid
        /\ Response(f, p, code).payload = p
        /\ Response(f, p, code).code = code
  /\ \A f :
        /\ BadRequest(f).cmd = "bad_request"
        /\ BadRequest(f).payload = Copy(f)
        /\ BadRequest(f).code = "invalid"
  BY DEF Response, BadRequest

\* What an answer says of the request, by its command and its code.
Says(f, r) ==
    /\ r.cmd \in Commands \cup {"bad_request"}
    /\ r.code \in {"successful", "failed", "invalid"}
    /\ r.code = "failed" => r.cmd = "le_key_load"
    /\ IF r.cmd = "bad_request"
       THEN Refused(f) /\ r.code = "invalid" /\ r.payload = Copy(f)
       ELSE Dispatched(f, r.cmd) /\ r.rid = f.rid
    /\ r.cmd = "get_time" => r.payload = TimePayload
    /\ r.cmd = "get_event_list" =>
          /\ PayloadDecodes(f)
          /\ IF f.words[1] > f.words[2]
             THEN r.payload = NoPayload
             ELSE r.payload = IdBatch(EventIds(events, f.words[1], f.words[2]))
    /\ r.cmd = "get_event_id" =>
          IF ContainsKey(events, f.words[1])
          THEN r.code = "successful" /\ r.payload = LogRecord(FirstEvent(events, f.words[1]))
          ELSE r.code = "invalid" /\ r.payload = NoPayload
    /\ r.cmd = "query_spb" =>
          \/ r.payload = NoPayload /\ PayloadSize(f) > 0
          \/ r.payload = SpbStatus(Status) /\ PayloadSize(f) = 0
    /\ r.cmd = "le_key_load" =>
          \/ r.payload = FlagByte(FALSE) /\ r.code = "successful"
          \/ /\ r.payload = FlagByte(TRUE) /\ r.code = "failed"
             /\ WouldOverflow(f.keys, keys, Capacity)
    /\ r.cmd = "le_key_query_id" =>
          r.payload = FlagByte(ContainsKey(keys, f.words[1]))
    /\ r.cmd = "le_key_query_all" =>
          \/ r.payload = NoPayload /\ r.code = "invalid" /\ PayloadSize(f) > 0
          \/ /\ r.payload = IdBatch(ListKeyIds(keys)) /\ r.code = "successful"
             /\ PayloadSize(f) = 0
    /\ r.cmd = "le_key_purge_id" =>
          \E b \in BOOLEAN : r.payload = FlagByte(b)
    /\ r.cmd = "le_key_purge_all" => r.payload = NoPayload

\* The answers there are, by command.
LEMMA AnswersSay ==
  ASSUME NEW f, NEW r, Answers(f, r) PROVE Says(f, r)
<1>1. CASE Refused(f) /\ r = BadRequest(f)
  BY <1>1, ResponseFields DEF Says, Commands
<1>2. ASSUME NEW cmd \in {"query_spb", "le_key_query_all", "le_key_purge_all"},
             Dispatched(f, cmd), PayloadSize(f) > 0,
             r = Response(f, NoPayload, "invalid")
      PROVE  Says(f, r)
  <2>1. /\ Dispatched(f, cmd) /\ r.cmd = cmd /\ r.rid = f.rid
        /\ r.payload = NoPayload /\ r.code = "invalid"
    BY <1>2, ResponseFields DEF Dispatched
  <2> QED
    BY <1>2, <2>1 DEF Says, Commands
<1>3. CASE Dispatched(f, "get_time") /\ r = Response(f, TimePayload, "successful")
  <2>1. /\ Dispatched(f, "get_time") /\ r.cmd = "get_time" /\ r.rid = f.rid
        /\ r.payload = TimePayload /\ r.code = "successful"
    BY <1>3, ResponseFields DEF Dispatched
  <2> QED
    BY <1>3, <2>1 DEF Says, Commands
<1>4. CASE /\ Dispatched(f, "get_event_list")
           /\ PayloadDecodes(f)
           /\ IF f.words[1] > f.words[2]
              THEN r = Response(f, NoPayload, "invalid")
              ELSE r = Response(f, IdBatch(EventIds(events, f.words[1], f.words[2])),
                                "successful")
  <2>1. /\ Dispatched(f, "get_event_list") /\ r.cmd = "get_event_list" /\ r.rid = f.rid
        /\ PayloadDecodes(f)
        /\ IF f.words[1] > f.words[2]
           THEN r.payload = NoPayload /\ r.code = "invalid"
           ELSE /\ r.payload = IdBatch(EventIds(events, f.words[1], f.words[2]))
                /\ r.code = "successful"
    BY <1>4, ResponseFields DEF Dispatched
  <2> QED
    BY <2>1 DEF Says, Commands
<1>5. CASE /\ Dispatched(f, "get_event_id")
           /\ IF ContainsKey(events, f.words[1])
              THEN r = Response(f, LogRecord(FirstEvent(events, f.words[1])),
                                "successful")
              ELSE r = Response(f, NoPayload, "invalid")
  <2>1. /\ Dispatched(f, "get_event_id") /\ r.cmd = "get_event_id" /\ r.rid = f.rid
        /\ IF ContainsKey(events, f.words[1])
           THEN /\ r.payload = LogRecord(FirstEvent(events, f.words[1]))
                /\ r.code = "successful"
           ELSE r.code = "invalid" /\ r.payload = NoPayload
    BY <1>5, ResponseFields DEF Dispatched
  <2> QED
    BY <2>1 DEF Says, Commands
<1>6. CASE /\ Dispatched(f, "query_spb")
           /\ PayloadSize(f) = 0
           /\ r = Response(f, SpbStatus(Status), "successful")
  <2>1. /\ Dispatched(f, "query_spb") /\ r.cmd = "query_spb" /\ r.rid = f.rid
        /\ PayloadSize(f) = 0
        /\ r.payload = SpbStatus(Status) /\ r.code = "successful"
    BY <1>6, ResponseFields DEF Dispatched
  <2> QED
    BY <1>6, <2>1 DEF Says, Commands
<1>7. CASE /\ Dispatched(f, "le_key_load")
           /\ WouldOverflow(f.keys, keys, Capacity)
           /\ r = Response(f, FlagByte(TRUE), "failed")
  <2>1. PICK p : p = FlagByte(TRUE)
    OBVIOUS
  <2>2. Dispatched(f, "le_key_load") /\ r = Response(f, p, "failed")
    BY <1>7, <2>1, Zenon
  <2>3. /\ r.cmd = "le_key_load" /\ r.rid = f.rid
        /\ r.payload = p /\ r.code = "failed"
    BY <2>2, ResponseFields DEF Dispatched
  <2> QED
    BY <1>7, <2>1, <2>2, <2>3 DEF Says, Commands
<1>8. CASE Dispatched(f, "le_key_load") /\ r = Response(f, FlagByte(FALSE), "successful")
  <2>1. PICK p : p = FlagByte(FALSE)
    OBVIOUS
  <2>2. Dispatched(f, "le_key_load") /\ r = Response(f, p, "successful")
    BY <1>8, <2>1, Zenon
  <2>3. /\ r.cmd = "le_key_load" /\ r.rid = f.rid
        /\ r.payload = p /\ r.code = "successful"
    BY <2>2, ResponseFields DEF Dispatched
  <2> QED
    BY <1>8, <2>1, <2>2, <2>3 DEF Says, Commands
<1>9. CASE /\ Dispatched(f, "le_key_query_id")
           /\ r = Response(f, FlagByte(ContainsKey(keys, f.words[1])), "successful")
  <2>1. /\ Dispatched(f, "le_key_query_id") /\ r.cmd = "le_key_query_id" /\ r.rid = f.rid
        /\ r.payload = FlagByte(ContainsKey(keys, f.words[1])) /\ r.code = "successful"
    BY <1>9, ResponseFields DEF Dispatched
  <2> QED
    BY <1>9, <2>1 DEF Says, Commands
<1>10. CASE /\ Dispatched(f, "le_key_query_all")
            /\ PayloadSize(f) = 0
            /\ r = Response(f, IdBatch(ListKeyIds(keys)), "successful")
  <2>1. /\ Dispatched(f, "le_key_query_all") /\ r.cmd = "le_key_query_all" /\ r.rid = f.rid
        /\ PayloadSize(f) = 0
        /\ r.payload = IdBatch(ListKeyIds(keys)) /\ r.code = "successful"
    BY <1>10, ResponseFields DEF Dispatched
  <2> QED
    BY <1>10, <2>1 DEF Says, Commands
<1>11. ASSUME NEW b \in BOOLEAN, Dispatched(f, "le_key_purge_id"),
              r = Response(f, FlagByte(b), "successful")
       PROVE  Says(f, r)
  <2>1. /\ Dispatched(f, "le_key_purge_id") /\ r.cmd = "le_key_purge_id" /\ r.rid = f.rid
        /\ r.payload = FlagByte(b) /\ r.code = "successful"
    BY <1>11, ResponseFields DEF Dispatched
  <2> QED
    BY <1>11, <2>1 DEF Says, Commands
<1>12. CASE Dispatched(f, "le_key_purge_all") /\ r = Response(f, NoPayload, "successful")
  <2>1. /\ Dispatched(f, "le_key_purge_all") /\ r.cmd = "le_key_purge_all" /\ r.rid = f.rid
        /\ r.payload = NoPayload /\ r.code = "successful"
    BY <1>12, ResponseFields DEF Dispatched
  <2> QED
    BY <1>12, <2>1 DEF Says, Commands
<1> QED
  BY <1>1, <1>2, <1>3, <1>4, <1>5, <1>6, <1>7, <1>8, <1>9, <1>10, <1>11, <1>12
     DEF Answers

\* Whatever clients send, the store, the loop of load_keys, the answer and the
\* log hold what their types say, and a list is no longer than the log.
THEOREM TypeCorrect == Spec => []TypeOK
<1>1. IInv => TypeOK
  <2> SUFFICES ASSUME IInv PROVE TypeOK
    OBVIOUS
  <2> USE DEF IInv
  <2>1. \A i \in DOMAIN keys : keys[i].id \in Nat
    <3>1. \A i \in DOMAIN keys : keys[i] \in Records
      BY ElementOfSeq, LenProperties DEF Types
    <3> QED
      BY <3>1 DEF Records
  <2>2. \A i \in DOMAIN events : events[i].id \in 0 .. Word - 1
    <3>1. \A i \in DOMAIN events : events[i] \in Events
      BY ElementOfSeq, LenProperties DEF Types
    <3> QED
      BY <3>1 DEF Events
  <2>3. response # None =>
            /\ response.cmd \in Commands \cup {"bad_request"}
            /\ response.code \in {"successful", "failed", "invalid"}
    BY AnswersSay DEF AnswerInv, Says
  <2> QED
    BY <2>1, <2>2, <2>3 DEF Types, LoopInv, ListedInv, TypeOK
<1> QED
  BY <1>1, InvHolds, PTL

\* A client that keeps the ids its loads stored and its purges removed can
\* foretell the answer to every query of one id and of all of them.
THEOREM AnswersForetold == Spec => []AnswersAgree
<1>1. IInv => AnswersAgree
  <2> SUFFICES ASSUME IInv, response # None PROVE AnswersAgree
    BY DEF AnswersAgree, Answered
  <2>1. request \in Received /\ Says(request, response) /\ pc = "idle"
    BY AnswersSay DEF IInv, AnswerInv, LoopInv, Types
  <2>2. Ids(keys) = known /\ keys \in Seq(Records) /\ UniqueIds(keys)
    BY <2>1 DEF IInv, StoreInv, Types
  <2>3. Cardinality(known) = Len(keys) /\ Len(keys) \in Nat
        /\ DOMAIN keys = 1 .. Len(keys)
    BY <2>2, IdsCardinality, LenProperties
  <2>4. ASSUME Answered("le_key_query_id", "successful")
        PROVE  response.payload.flag <=> request.words[1] \in known
    <3>1. response.payload.flag = ContainsKey(keys, request.words[1])
      BY <2>1, <2>4 DEF Answered, Says, FlagByte
    <3> QED
      BY <2>2, <3>1 DEF ContainsKey
  <2>5. ASSUME Answered("le_key_query_all", "successful")
        PROVE  /\ {response.payload.ids[i] : i \in DOMAIN response.payload.ids} = known
               /\ Len(response.payload.ids) = Cardinality(known)
    <3>1. response.payload.ids = ListKeyIds(keys)
      BY <2>1, <2>5 DEF Answered, Says, IdBatch, NoPayload
    <3>2. /\ DOMAIN ListKeyIds(keys) = 1 .. Len(keys)
          /\ Len(ListKeyIds(keys)) = Len(keys)
          /\ \A i \in 1 .. Len(keys) : ListKeyIds(keys)[i] = keys[i].id
      BY <2>3 DEF ListKeyIds
    <3>3. {ListKeyIds(keys)[i] : i \in DOMAIN ListKeyIds(keys)} = Ids(keys)
      BY <2>3, <3>2 DEF Ids
    <3> QED
      BY <2>2, <2>3, <3>1, <3>2, <3>3
  <2> QED
    BY <2>4, <2>5 DEF AnswersAgree
<1> QED
  BY <1>1, InvHolds, PTL

\* What the encoders of the initiator build, the decoders of the responder take.
LEMMA WellFormedDecodes ==
  ASSUME NEW f \in Received, WellFormed(f)
  PROVE  RequestDecodes(f) /\ PayloadDecodes(f)
<1> USE DEF Frame, HeaderSize, KlvDecodes, RequestDecodes, PayloadSize,
            PayloadDecodes, UlMap, Commands
<1>1. CASE f = EncodeLoad(f.rid, f.keys)
  <2>1. Len(f.keys) \in Nat
    BY FrameProperties
  <2>2. /\ f.ul = [cmd |-> "le_key_load", resp |-> FALSE] /\ f.ber
        /\ f.length = 4 + (8 + 32 * Len(f.keys))
        /\ f.size = 20 + 4 + (8 + 32 * Len(f.keys))
        /\ f.item = 32 /\ f.count = Len(f.keys)
    BY <1>1 DEF EncodeLoad
  <2> QED
    BY <2>1, <2>2 DEF LoadDecodes
<1>2. CASE /\ f.ul.cmd \in Commands \ {"le_key_load"}
           /\ f = EncodeWords(f.ul.cmd, f.rid, f.words)
           /\ Len(f.words) = CASE f.ul.cmd = "get_event_list" -> 2
                               [] f.ul.cmd \in {"get_event_id", "le_key_query_id",
                                                "le_key_purge_id"} -> 1
                               [] OTHER -> 0
  <2>1. Len(f.words) \in Nat
    BY FrameProperties, LenProperties
  <2>2. PICK c \in Commands \ {"le_key_load"}, n \in Nat :
            /\ c = f.ul.cmd /\ n = Len(f.words)
            /\ f = EncodeWords(c, f.rid, f.words)
    BY <1>2, <2>1
  <2>3. /\ f.ul = [cmd |-> c, resp |-> FALSE] /\ f.ber
        /\ f.length = 4 + 4 * n /\ f.size = 20 + 4 + 4 * n
    BY <2>2 DEF EncodeWords
  <2>4. n = CASE c = "get_event_list" -> 2
              [] c \in {"get_event_id", "le_key_query_id", "le_key_purge_id"} -> 1
              [] OTHER -> 0
    BY <1>2, <2>2
  <2>5. RequestDecodes(f)
    <3>1. f.ul \in UlMap /\ ~f.ul.resp
      BY <2>3
    <3> QED
      BY <2>3, <3>1
  <2>6. f.ul.cmd = c /\ PayloadSize(f) = 4 * n
    BY <2>3
  <2>7. PayloadDecodes(f)
    <3>1. CASE c = "get_event_list"
      BY <2>4, <2>6, <3>1
    <3>2. CASE c \in {"get_event_id", "le_key_query_id", "le_key_purge_id"}
      <4>1. n = 1
        BY <2>4, <3>2
      <4> QED
        BY <2>6, <3>2, <4>1
    <3>3. CASE c \notin {"get_event_list", "get_event_id", "le_key_query_id",
                         "le_key_purge_id"}
      BY <2>2, <2>6, <3>3
    <3> QED
      BY <3>1, <3>2, <3>3
  <2> QED
    BY <2>5, <2>7
<1> QED
  BY <1>1, <1>2 DEF WellFormed

\* A well-formed request that arrives whole is answered by its handler.
THEOREM IntactAreServed == Spec => []IntactIsServed
<1>1. IInv => IntactIsServed
  <2> SUFFICES ASSUME IInv, response # None, request.rid # 0, WellFormed(request)
               PROVE  response.cmd = request.ul.cmd /\ response.rid = request.rid
    BY DEF IntactIsServed
  <2>1. request \in Received /\ Says(request, response)
    BY AnswersSay DEF IInv, AnswerInv
  <2>2. ~Refused(request)
    BY <2>1, WellFormedDecodes DEF Refused
  <2> QED
    BY <2>1, <2>2 DEF Says, Dispatched
<1> QED
  BY <1>1, InvHolds, PTL

\* What GetEventList listed, GetEventID serves, and from a faithful file with a
\* time of the window.
THEOREM ListedEventsAreServed == Spec => []ListedEventIsServed
<1>1. IInv => ListedEventIsServed
  <2> SUFFICES ASSUME IInv, response # None, response.cmd = "get_event_id",
                      listed # None,
                      NEW i \in DOMAIN listed.ids, listed.ids[i] = request.words[1]
               PROVE  /\ response.code = "successful"
                      /\ response.payload.event = request.words[1]
                      /\ Faithful(events) =>
                            response.payload.shown \in listed.start .. listed.stop
    BY DEF ListedEventIsServed
  <2> DEFINE id == request.words[1]
  <2>1. Says(request, response)
    BY AnswersSay DEF IInv, AnswerInv
  <2>2. PICK j \in DOMAIN events : /\ events[j].id = id
                                   /\ events[j].time \in listed.start .. listed.stop
    BY DEF IInv, ListedInv
  <2>3. ContainsKey(events, id)
    BY <2>2 DEF ContainsKey, Ids
  <2>4. PICK k \in DOMAIN events : FirstEvent(events, id) = events[k] /\ events[k].id = id
    BY <2>3, FirstEventFinds DEF IInv, Types
  <2>5. response.code = "successful" /\ response.payload = LogRecord(events[k])
    BY <2>1, <2>3, <2>4 DEF Says
  <2>6. response.payload.event = id /\ response.payload.shown = events[k].shown
    BY <2>4, <2>5 DEF LogRecord
  <2>7. ASSUME Faithful(events)
        PROVE  events[k].shown \in listed.start .. listed.stop
    <3>1. k = j
      BY <2>2, <2>4, <2>7 DEF Faithful
    <3> QED
      BY <2>2, <2>7, <3>1 DEF Faithful
  <2> QED
    BY <2>5, <2>6, <2>7
<1> QED
  BY <1>1, InvHolds, PTL

-----------------------------------------------------------------------------
(***************************************************************************)
(* What the initiator can read. No limit is set on the log; a store of 16  *)
(* keys is far from the 1015 ids of one read.                              *)
(***************************************************************************)
\* The sizes of the payloads.
LEMMA PayloadSizes ==
  /\ NoPayload.size = 0 /\ TimePayload.size = 8 /\ SpbStatus(Status).size = 2
  /\ \A b : FlagByte(b).size = 1
  /\ \A ids : IdBatch(ids).size = 8 + 4 * Len(ids)
  /\ \A e : LogRecord(e).size = e.bytes
  /\ \A f : Copy(f).size = f.size
  BY DEF NoPayload, TimePayload, SpbStatus, FlagByte, IdBatch, LogRecord, Copy

\* Where a full key store fits one read, AnswersAreReadable says exactly which
\* answers the initiator can show: the others are a copy of a frame as large
\* as the buffer, a log too long or with too long a record, and the empty
\* payloads of a reversed window and of a query that carried a payload.
THEOREM AnswersReadable ==
  ASSUME 8 + 4 * Capacity <= MaxPayload PROVE Spec => []AnswersAreReadable
<1>1. IInv => AnswersAreReadable
  <2> SUFFICES ASSUME IInv, response # None PROVE AnswersAreReadable
    BY DEF AnswersAreReadable
  <2> DEFINE r == response
             size == response.payload.size
  <2>1. Says(request, r) /\ request \in Received /\ pc = "idle"
    BY AnswersSay DEF IInv, AnswerInv, LoopInv, Types
  <2>2. Len(keys) \in Nat /\ DOMAIN keys = 1 .. Len(keys)
    BY LenProperties DEF IInv, Types
  <2>3. CASE r.cmd = "bad_request"
    <3>1. size = request.size /\ request.size \in Nat
      BY <2>1, <2>3, PayloadSizes, FrameProperties DEF Says
    <3> QED
      BY <2>3, <3>1
         DEF AnswersAreReadable, InitiatorDecodes, ResponseSize, ReadBuffer, HeaderSize
  <2>4. ASSUME r.cmd # "bad_request", size \in Nat
        PROVE  ResponseSize(r) <= ReadBuffer <=> size <= MaxPayload
    BY <2>4 DEF ResponseSize, MaxPayload, ReadBuffer, HeaderSize
  <2>5. CASE r.cmd = "get_time"
    <3>1. size = 8
      BY <2>1, <2>5, PayloadSizes DEF Says
    <3>2. InitiatorDecodes(r)
      BY <2>4, <2>5, <3>1 DEF InitiatorDecodes, MaxPayload, ReadBuffer, HeaderSize
    <3> QED
      BY <2>5, <3>2 DEF AnswersAreReadable
  <2>6. CASE r.cmd = "get_event_list"
    <3> DEFINE start == request.words[1]
               stop == request.words[2]
               ids == EventIds(events, start, stop)
               found == Cardinality({i \in DOMAIN events :
                                        events[i].time \in start .. stop})
    <3>1. start \in Nat /\ stop \in Nat
      BY <2>1, <2>6, FrameProperties DEF Says, Dispatched
    <3>2. CASE start > stop
      <4>1. size = 0
        BY <2>1, <2>6, <3>2, PayloadSizes DEF Says
      <4>2. ~InitiatorDecodes(r) /\ ~(start <= stop)
        BY <2>6, <3>1, <3>2, <4>1 DEF InitiatorDecodes
      <4> QED
        BY <2>6, <4>2 DEF AnswersAreReadable
    <3>3. CASE ~(start > stop)
      <4>1. r.payload = IdBatch(ids)
        BY <2>1, <2>6, <3>3 DEF Says
      <4>2. Len(ids) = found /\ Len(ids) \in Nat
        BY EventIdsProperties, LenProperties DEF IInv, Types
      <4>3. start <= stop
        BY <3>1, <3>3
      <4> HIDE DEF ids, found
      <4>4. size = 8 + 4 * found /\ found \in Nat
        BY <4>1, <4>2, PayloadSizes
      <4>5. InitiatorDecodes(r) <=> 8 + 4 * found <= MaxPayload
        <5>1. size \in Nat /\ size >= 8
          BY <4>4
        <5>2. InitiatorDecodes(r) <=> size <= MaxPayload
          BY <2>4, <2>6, <5>1 DEF InitiatorDecodes
        <5> QED
          BY <4>4, <5>2
      <4> QED
        BY <2>6, <4>3, <4>5 DEF AnswersAreReadable, found
    <3> QED
      BY <3>2, <3>3
  <2>7. CASE r.cmd = "get_event_id"
    <3>1. CASE ContainsKey(events, request.words[1])
      <4>1. PICK i \in DOMAIN events : FirstEvent(events, request.words[1]) = events[i]
        BY <3>1, FirstEventFinds DEF IInv, Types
      <4>2. r.payload = LogRecord(events[i])
        BY <2>1, <2>7, <3>1, <4>1 DEF Says
      <4>3. events[i].bytes \in Nat
        <5>1. events[i] \in Events
          BY ElementOfSeq, LenProperties DEF IInv, Types
        <5> QED
          BY <5>1 DEF Events
      <4>4. size = events[i].bytes
        BY <4>2, PayloadSizes
      <4>5. InitiatorDecodes(r) <=> events[i].bytes <= MaxPayload
        BY <2>4, <2>7, <4>3, <4>4 DEF InitiatorDecodes
      <4> QED
        BY <2>7, <3>1, <4>1, <4>5 DEF AnswersAreReadable
    <3>2. CASE ~ContainsKey(events, request.words[1])
      <4>1. size = 0
        BY <2>1, <2>7, <3>2, PayloadSizes DEF Says
      <4>2. InitiatorDecodes(r)
        BY <2>4, <2>7, <4>1 DEF InitiatorDecodes, MaxPayload, ReadBuffer, HeaderSize
      <4> QED
        BY <2>7, <3>2, <4>2 DEF AnswersAreReadable
    <3> QED
      BY <3>1, <3>2
  <2>8. CASE r.cmd = "query_spb"
    <3>1. PayloadSize(request) \in Int
      BY <2>1, FrameProperties DEF PayloadSize
    <3>2. \/ size = 0 /\ PayloadSize(request) > 0
          \/ size = 2 /\ PayloadSize(request) = 0
      BY <2>1, <2>8, PayloadSizes DEF Says
    <3>3. InitiatorDecodes(r) <=> PayloadSize(request) = 0
      BY <2>4, <2>8, <3>1, <3>2 DEF InitiatorDecodes, MaxPayload, ReadBuffer, HeaderSize
    <3> QED
      BY <2>8, <3>3 DEF AnswersAreReadable
  <2>9. CASE r.cmd \in {"le_key_load", "le_key_query_id", "le_key_purge_id"}
    <3>0. PICK b : r.payload = FlagByte(b)
      BY <2>1, <2>9 DEF Says
    <3>1. size = 1
      BY <3>0, PayloadSizes
    <3>2. InitiatorDecodes(r)
      BY <2>4, <2>9, <3>1 DEF InitiatorDecodes, MaxPayload, ReadBuffer, HeaderSize
    <3> QED
      BY <2>9, <3>2 DEF AnswersAreReadable
  <2>10. CASE r.cmd = "le_key_query_all"
    <3>1. PayloadSize(request) \in Int
      BY <2>1, FrameProperties DEF PayloadSize
    <3>2. CASE PayloadSize(request) > 0
      <4>1. size = 0
        <5>1. r.payload = NoPayload
          <6>1. PayloadSize(request) # 0
            BY <3>1, <3>2
          <6> QED
            BY <2>1, <2>10, <6>1 DEF Says
        <5> QED
          BY <5>1, PayloadSizes
      <4>2. ~InitiatorDecodes(r)
        BY <2>10, <4>1 DEF InitiatorDecodes
      <4> QED
        BY <2>10, <3>1, <3>2, <4>2 DEF AnswersAreReadable
    <3>3. CASE ~(PayloadSize(request) > 0)
      <4>1. r.payload = IdBatch(ListKeyIds(keys)) /\ PayloadSize(request) = 0
        BY <2>1, <2>10, <3>3 DEF Says
      <4>2. Len(ListKeyIds(keys)) = Len(keys)
        BY <2>2 DEF ListKeyIds
      <4>3. size = 8 + 4 * Len(keys)
        BY <4>1, <4>2, PayloadSizes
      <4>4. Len(keys) <= Capacity
        BY DEF IInv, StoreInv
      <4>5. size \in Nat /\ size <= MaxPayload /\ size >= 8
        BY <2>2, <4>3, <4>4, CapacityAssumption DEF MaxPayload, ReadBuffer, HeaderSize
      <4>6. InitiatorDecodes(r)
        BY <2>4, <2>10, <4>5 DEF InitiatorDecodes
      <4> QED
        BY <2>10, <4>1, <4>6 DEF AnswersAreReadable
    <3> QED
      BY <3>2, <3>3
  <2>11. CASE r.cmd = "le_key_purge_all"
    <3>1. size = 0
      BY <2>1, <2>11, PayloadSizes DEF Says
    <3>2. InitiatorDecodes(r)
      BY <2>4, <2>11, <3>1 DEF InitiatorDecodes, MaxPayload, ReadBuffer, HeaderSize
    <3> QED
      BY <2>11, <3>2 DEF AnswersAreReadable
  <2> QED
    BY <2>1, <2>3, <2>5, <2>6, <2>7, <2>8, <2>9, <2>10, <2>11 DEF Says, Commands
<1> QED
  BY <1>1, InvHolds, PTL

-----------------------------------------------------------------------------
(***************************************************************************)
(* What a step may do.                                                     *)
(***************************************************************************)

\* NoKeyID says whether the key was there when the request came, and the purge
\* takes that key away and no other.
THEOREM PurgesAnswerTruly == Spec => PurgeAnswersTruly
<1>1. IInv /\ IInv' /\ [Next]_vars =>
        [Answered("le_key_purge_id", "successful")'
         => /\ response'.payload.flag <=> request'.words[1] \notin known
            /\ Ids(keys') = known \ {request'.words[1]}]_vars
  <2> SUFFICES ASSUME IInv, IInv', [Next]_vars,
                      Answered("le_key_purge_id", "successful")', ~UNCHANGED vars
               PROVE  /\ response'.payload.flag <=> request'.words[1] \notin known
                      /\ Ids(keys') = known \ {request'.words[1]}
    OBVIOUS
  <2>0. response' # None /\ response'.cmd = "le_key_purge_id"
    BY DEF Answered
  <2>1. ASSUME NEW f \in Received, PurgeId(f)
        PROVE  /\ response'.payload.flag <=> request'.words[1] \notin known
               /\ Ids(keys') = known \ {request'.words[1]}
    <3> DEFINE id == f.words[1]
    <3>1. /\ keys' = Erase(keys, id) /\ request' = f /\ pc = "idle"
          /\ response' = Response(f, FlagByte(Len(keys') = Len(keys)), "successful")
      BY <2>1 DEF PurgeId, Answer
    <3>2. response'.payload.flag = (Len(keys') = Len(keys))
      BY <3>1 DEF Response, FlagByte
    <3>3. keys \in Seq(Records) /\ Ids(keys) = known
      BY <3>1 DEF IInv, Types, StoreInv
    <3>4. Len(keys') = Len(keys) <=> id \notin known
      BY <3>1, <3>3, EraseProperties DEF ContainsKey
    <3>5. Ids(keys') = known \ {id}
      BY <3>1, <3>3, EraseProperties
    <3> QED
      BY <3>1, <3>2, <3>4, <3>5
  <2>2. ASSUME NEW f \in Received, NEW r, Answer(f, r),
               \/ r = BadRequest(f)
               \/ \E cmd \in Commands \ {"le_key_purge_id"} : \E p, code :
                    Dispatched(f, cmd) /\ r = Response(f, p, code)
        PROVE  FALSE
    <3>1. r.cmd # "le_key_purge_id"
      BY <2>2, ResponseFields DEF Commands, Dispatched
    <3> QED
      BY <2>0, <2>2, <3>1 DEF Answer
  <2>3. ASSUME NEW f \in Received, DecodeFailure(f) \/ ZeroRequestId(f) PROVE FALSE
    BY <2>2, <2>3 DEF DecodeFailure, ZeroRequestId
  <2>4. ASSUME NEW f \in Received,
               \/ PayloadNotEmpty(f) \/ GetTime(f) \/ GetEventId(f) \/ QuerySpb(f)
               \/ LoadOverflow(f) \/ QueryId(f) \/ QueryAll(f) \/ PurgeAll(f)
        PROVE  FALSE
    <3>1. PICK cmd \in Commands \ {"le_key_purge_id"} : \E p, code :
              Dispatched(f, cmd) /\ Answer(f, Response(f, p, code))
      BY <2>4 DEF Commands, PayloadNotEmpty, GetTime, GetEventId, QuerySpb,
                  LoadOverflow, QueryId, QueryAll, PurgeAll
    <3> QED
      BY <2>2, <3>1
  <2>5. ASSUME NEW f \in Received, GetEventList(f) PROVE FALSE
    <3>1. PICK r : Answer(f, r) /\ r.cmd = "get_event_list"
      BY <2>5, ResponseFields DEF GetEventList, Dispatched
    <3> QED
      BY <2>0, <3>1 DEF Answer
  <2>6. ASSUME NEW f \in Received, LoadBegin(f) PROVE FALSE
    BY <2>0, <2>6 DEF LoadBegin
  <2>7. CASE LoadRecord
    BY <2>0, <2>7 DEF LoadRecord, IInv, LoopInv
  <2>8. CASE LoadEnd
    <3>1. response'.cmd = "le_key_load"
      BY <2>8 DEF LoadEnd, IInv, LoopInv, Dispatched, Response
    <3> QED
      BY <2>0, <3>1
  <2> QED
    BY <2>1, <2>3, <2>4, <2>5, <2>6, <2>7, <2>8, StepCases
<1> QED
  BY <1>1, InvHolds, PTL DEF Spec, PurgeAnswersTruly

\* A load overflows exactly when the keys the answers so far imply leave no
\* room for its additions.
THEOREM OverflowsAreForetold == Spec => OverflowIsForetold
<1>1. IInv /\ IInv' /\ [Next]_vars =>
        [response' # None /\ response'.cmd = "le_key_load"
         => (response'.code = "failed"
               <=> Cardinality(known) + Cardinality(Additions(request'.keys))
                     > Capacity)]_vars
  <2> DEFINE Over(b) == Cardinality(known) + Cardinality(Additions(b)) > Capacity
  <2> SUFFICES ASSUME IInv, IInv', [Next]_vars, ~UNCHANGED vars,
                      response' # None, response'.cmd = "le_key_load"
               PROVE  response'.code = "failed" <=> Over(request'.keys)
    OBVIOUS
  <2>1. ASSUME NEW f \in Received, LoadOverflow(f)
        PROVE  response'.code = "failed" /\ Over(request'.keys)
    <3>1. /\ pc = "idle" /\ request' = f /\ WouldOverflow(f.keys, keys, Capacity)
          /\ response' = Response(f, FlagByte(TRUE), "failed")
      BY <2>1 DEF LoadOverflow, Answer
    <3>2. keys \in Seq(Records) /\ UniqueIds(keys) /\ Ids(keys) = known
      BY <3>1 DEF IInv, Types, StoreInv
    <3>3. f.keys \in Seq(Records)
      BY FrameProperties
    <3>4. /\ Cardinality(known) = Len(keys)
          /\ Additions(f.keys) = FreshPositions(f.keys, 1, keys)
      BY <3>2, <3>3, FreshIsAddition
    <3>5. Over(f.keys)
      BY <3>1, <3>4 DEF WouldOverflow
    <3> QED
      BY <3>1, <3>5 DEF Response
  <2>2. ASSUME NEW f \in Received, NEW r, Answer(f, r),
               \/ r = BadRequest(f)
               \/ \E cmd \in Commands \ {"le_key_load"} : \E p, code :
                    Dispatched(f, cmd) /\ r = Response(f, p, code)
        PROVE  FALSE
    <3>1. r.cmd # "le_key_load"
      BY <2>2, ResponseFields DEF Commands, Dispatched
    <3> QED
      BY <2>2, <3>1 DEF Answer
  <2>3. ASSUME NEW f \in Received, DecodeFailure(f) \/ ZeroRequestId(f) PROVE FALSE
    BY <2>2, <2>3 DEF DecodeFailure, ZeroRequestId
  <2>4. ASSUME NEW f \in Received,
               \/ PayloadNotEmpty(f) \/ GetTime(f) \/ GetEventId(f) \/ QuerySpb(f)
               \/ QueryId(f) \/ QueryAll(f) \/ PurgeId(f) \/ PurgeAll(f)
        PROVE  FALSE
    <3>1. PICK cmd \in Commands \ {"le_key_load"} : \E p, code :
              Dispatched(f, cmd) /\ Answer(f, Response(f, p, code))
      BY <2>4 DEF Commands, PayloadNotEmpty, GetTime, GetEventId, QuerySpb,
                  QueryId, QueryAll, PurgeId, PurgeAll
    <3> QED
      BY <2>2, <3>1
  <2>5. ASSUME NEW f \in Received, GetEventList(f) PROVE FALSE
    <3>1. PICK r : Answer(f, r) /\ r.cmd = "get_event_list"
      BY <2>5, ResponseFields DEF GetEventList, Dispatched
    <3> QED
      BY <3>1 DEF Answer
  <2>6. ASSUME NEW f \in Received, LoadBegin(f) PROVE FALSE
    BY <2>6 DEF LoadBegin
  <2>7. CASE LoadRecord
    BY <2>7 DEF LoadRecord, IInv, LoopInv
  <2>8. CASE LoadEnd
    <3>1. /\ response'.code = "successful" /\ request' = request
          /\ Cardinality(known) + Cardinality(Additions(request.keys)) <= Capacity
      BY <2>8 DEF LoadEnd, IInv, LoopInv, Response
    <3>2. request.keys \in Seq(Records)
      BY <2>8, FrameProperties DEF LoadEnd, IInv, LoopInv
    <3>3. Cardinality(Additions(request.keys)) \in Nat
      <4>1. IsFiniteSet(DOMAIN request.keys)
        BY <3>2, LenProperties, CountUpTo
      <4>2. Additions(request.keys) \subseteq DOMAIN request.keys
        BY DEF Additions
      <4> QED
        BY <4>1, <4>2, FS_Subset, FS_CardinalityType
    <3>4. Cardinality(known) \in Nat
      <4>1. IsFiniteSet(known)
        <5>1. IsFiniteSet(Ids(keys)) /\ known \subseteq Ids(keys)
          BY <2>8, IdsCardinality DEF LoadEnd, IInv, Types, StoreInv, LoopInv
        <5> QED
          BY <5>1, FS_Subset
      <4> QED
        BY <4>1, FS_CardinalityType
    <3> QED
      BY <3>1, <3>3, <3>4, CapacityAssumption
  <2> QED
    BY <2>1, <2>3, <2>4, <2>5, <2>6, <2>7, <2>8, StepCases
<1> QED
  BY <1>1, InvHolds, PTL DEF Spec, OverflowIsForetold

\* A request that is not answered "successful" leaves the keys as they were.
THEOREM RefusalsChangeNothing == Spec => RefusalChangesNothing
<1>1. IInv /\ [Next]_vars =>
        [response' # None /\ response'.code # "successful" => keys' = keys]_vars
  <2> SUFFICES ASSUME IInv, [Next]_vars, response' # None,
                      response'.code # "successful"
               PROVE  keys' = keys
    OBVIOUS
  <2>1. ASSUME NEW f \in Received, Untouched(f) PROVE keys' = keys
    BY <2>1 DEF Untouched
  <2>2. ASSUME NEW f \in Received, LoadBegin(f) PROVE FALSE
    BY <2>2 DEF LoadBegin
  <2>3. ASSUME NEW f \in Received, PurgeId(f) \/ PurgeAll(f) PROVE FALSE
    <3>1. response'.code = "successful"
      BY <2>3 DEF PurgeId, PurgeAll, Answer, Response
    <3> QED
      BY <3>1
  <2>4. CASE LoadRecord
    BY <2>4 DEF LoadRecord, IInv, LoopInv
  <2>5. CASE LoadEnd
    BY <2>5 DEF LoadEnd
  <2>6. CASE UNCHANGED vars
    BY <2>6 DEF vars
  <2> QED
    BY <2>1, <2>2, <2>3, <2>4, <2>5, <2>6, StepCases, HandlersLeaveKeys
<1> QED
  BY <1>1, InvHolds, PTL DEF Spec, RefusalChangesNothing
=============================================================================
