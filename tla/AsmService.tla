----------------------------- MODULE AsmService -----------------------------
(***************************************************************************)
(* One responder process answering requests one after the other: what      *)
(* TlsServer::serve_client does between reading a request and writing the  *)
(* answer (tls_server.cpp:130-153), the handlers of AsmService             *)
(* (service.cpp) and the InMemoryLeKeyStore they call (le_key.cpp:119-162).*)
(* The event log is the one the responder has read when it started.        *)
(*                                                                         *)
(* Every handler runs to its answer before the next request is read. The   *)
(* loop of load_keys is taken one record at a time.                        *)
(***************************************************************************)
EXTENDS AsmMessages, LEKeyOps, EventLog

CONSTANTS Requests,     \* what clients send: [frame, record]
          Logs,         \* the event log files the responder may start with
          Status,       \* what StaticQuerySpbStatusProvider was given
          Capacity,     \* kCapacity
          Vals,         \* the key, expiry and attribute of a record
          None

Records == [id : Nat, val : Vals]

\* The frames as the responder reads them.
Received == {ReadOneMessage(q.frame, q.record) : q \in Requests}

\* The fields of a frame are what its bytes hold: a payload that decodes has the
\* numbers its size says.
ASSUME FrameAssumption ==
    \A f \in Received :
        /\ f.size \in Nat /\ f.length \in Nat /\ f.count \in Nat
        /\ f.words \in Seq(Nat)
        /\ f.keys \in Seq(Records)
        /\ RequestDecodes(f) /\ PayloadDecodes(f) =>
               CASE f.ul.cmd = "get_event_list" -> Len(f.words) = 2
                 [] f.ul.cmd \in {"get_event_id", "le_key_query_id",
                                  "le_key_purge_id"} -> Len(f.words) = 1
                 [] OTHER -> TRUE

ASSUME CapacityAssumption == Capacity \in Nat

ASSUME LogsAssumption ==
    \A lines \in Logs :
        lines \in Seq([blank : BOOLEAN, matches : BOOLEAN, id : Nat,
                      severity : STRING, time : Int, bytes : Nat])

VARIABLES keys,         \* keys_ of the store
          pc,           \* "idle" between two requests, "load" in load_keys
          request,      \* the frame read last
          next,         \* the loop's position in the batch of the request
          response,     \* the answer to it, None while it is at work
          known,        \* history: the key ids the answers so far imply
          events,       \* events_ of the log provider
          listed        \* history: window and ids of the last event list

vars == <<keys, pc, request, next, response, known, events, listed>>

log == <<events, listed>>

Init == /\ keys = << >>
        /\ pc = "idle"
        /\ request = None
        /\ next = 1
        /\ response = None
        /\ known = {}
        /\ \E lines \in Logs : LogOpens(lines) /\ events = EventsOf(lines)
        /\ listed = None

\* A request arrives whole or in part and is answered in the same step.
Answer(f, r) ==
    /\ pc = "idle"
    /\ request' = f
    /\ response' = r
    /\ listed' = IF r.cmd = "get_event_list" /\ r.code = "successful"
                 THEN [start |-> f.words[1], stop |-> f.words[2],
                       ids |-> r.payload.ids]
                 ELSE listed
    /\ UNCHANGED <<pc, next, events>>

\* The handler of the command is reached: handle_request's switch.
Dispatched(f, cmd) ==
    /\ RequestDecodes(f)
    /\ f.rid # 0
    /\ f.ul.cmd = cmd

(***************************************************************************)
(* Refusals. An exception of a decoder ends in handle_decode_failure.      *)
(***************************************************************************)
DecodeFailure(f) ==
    /\ \/ ~RequestDecodes(f)
       \/ f.rid # 0 /\ ~PayloadDecodes(f)
    /\ Answer(f, BadRequest(f))
    /\ UNCHANGED <<keys, known>>

ZeroRequestId(f) ==
    /\ RequestDecodes(f)
    /\ f.rid = 0
    /\ Answer(f, BadRequest(f))
    /\ UNCHANGED <<keys, known>>

\* QuerySPB, LEKeyQueryAll and LEKeyPurgeAll check that the payload is empty
\* and answer under their own label when it is not.
PayloadNotEmpty(f) ==
    /\ \E cmd \in {"query_spb", "le_key_query_all", "le_key_purge_all"} :
            Dispatched(f, cmd)
    /\ PayloadSize(f) > 0
    /\ Answer(f, Response(f, NoPayload, "invalid"))
    /\ UNCHANGED <<keys, known>>

(***************************************************************************)
(* The commands that do not touch the keys.                                *)
(***************************************************************************)
GetTime(f) ==
    /\ Dispatched(f, "get_time")
    /\ Answer(f, Response(f, TimePayload, "successful"))
    /\ UNCHANGED <<keys, known>>

GetEventList(f) ==
    /\ Dispatched(f, "get_event_list")
    /\ PayloadDecodes(f)
    /\ LET start == f.words[1]
           stop == f.words[2]
       IN  Answer(f, IF start > stop
                     THEN Response(f, NoPayload, "invalid")
                     ELSE Response(f, IdBatch(EventIds(events, start, stop)),
                                   "successful"))
    /\ UNCHANGED <<keys, known>>

GetEventId(f) ==
    /\ Dispatched(f, "get_event_id")
    /\ PayloadDecodes(f)
    /\ LET id == f.words[1]
       IN  Answer(f, IF ContainsKey(events, id)
                     THEN Response(f, LogRecord(FirstEvent(events, id)),
                                   "successful")
                     ELSE Response(f, NoPayload, "invalid"))
    /\ UNCHANGED <<keys, known>>

QuerySpb(f) ==
    /\ Dispatched(f, "query_spb")
    /\ PayloadSize(f) = 0
    /\ Answer(f, Response(f, SpbStatus(Status), "successful"))
    /\ UNCHANGED <<keys, known>>

(***************************************************************************)
(* LEKeyLoad.                                                              *)
(***************************************************************************)
\* Mutant of LoadOverflow: the first key is stored before the check.
LoadOverflowLate(f) ==
    /\ Dispatched(f, "le_key_load")
    /\ PayloadDecodes(f)
    /\ WouldOverflow(f.keys, keys, Capacity)
    /\ keys' = Upsert(keys, f.keys[1])
    /\ Answer(f, Response(f, FlagByte(TRUE), "failed"))
    /\ UNCHANGED known

LoadOverflow(f) ==
    /\ Dispatched(f, "le_key_load")
    /\ PayloadDecodes(f)
    /\ WouldOverflow(f.keys, keys, Capacity)
    /\ Answer(f, Response(f, FlagByte(TRUE), "failed"))
    /\ UNCHANGED <<keys, known>>

LoadBegin(f) ==
    /\ pc = "idle"
    /\ Dispatched(f, "le_key_load")
    /\ PayloadDecodes(f)
    /\ ~WouldOverflow(f.keys, keys, Capacity)
    /\ pc' = "load"
    /\ request' = f
    /\ next' = 1
    /\ response' = None
    /\ UNCHANGED <<keys, known, log>>

\* Mutant of LoadRecord: the position of the loop.
LoadSkips ==
    /\ pc = "load"
    /\ next <= Len(request.keys)
    /\ keys' = Upsert(keys, request.keys[next])
    /\ next' = next + 2
    /\ UNCHANGED <<pc, request, response, known, log>>

LoadRecord ==
    /\ pc = "load"
    /\ next <= Len(request.keys)
    /\ keys' = Upsert(keys, request.keys[next])
    /\ next' = next + 1
    /\ UNCHANGED <<pc, request, response, known, log>>

LoadEnd ==
    /\ pc = "load"
    /\ next > Len(request.keys)
    /\ pc' = "idle"
    /\ next' = 1
    /\ response' = Response(request, FlagByte(FALSE), "successful")
    /\ known' = known \cup Ids(request.keys)
    /\ UNCHANGED <<keys, request, log>>

(***************************************************************************)
(* The other LE commands.                                                  *)
(***************************************************************************)
QueryId(f) ==
    /\ Dispatched(f, "le_key_query_id")
    /\ PayloadDecodes(f)
    /\ Answer(f, Response(f, FlagByte(ContainsKey(keys, f.words[1])),
                          "successful"))
    /\ UNCHANGED <<keys, known>>

QueryAll(f) ==
    /\ Dispatched(f, "le_key_query_all")
    /\ PayloadSize(f) = 0
    /\ Answer(f, Response(f, IdBatch(ListKeyIds(keys)), "successful"))
    /\ UNCHANGED <<keys, known>>

\* Mutant of PurgeId: the flag says that a key was removed.
PurgeIdFound(f) ==
    /\ Dispatched(f, "le_key_purge_id")
    /\ PayloadDecodes(f)
    /\ LET id == f.words[1]
       IN  /\ keys' = Erase(keys, id)
           /\ Answer(f, Response(f, FlagByte(Len(keys') # Len(keys)),
                                 "successful"))
           /\ known' = known \ {id}

\* The flag is NoKeyID: purge_key removed nothing.
PurgeId(f) ==
    /\ Dispatched(f, "le_key_purge_id")
    /\ PayloadDecodes(f)
    /\ LET id == f.words[1]
       IN  /\ keys' = Erase(keys, id)
           /\ Answer(f, Response(f, FlagByte(Len(keys') = Len(keys)),
                                 "successful"))
           /\ known' = known \ {id}

PurgeAll(f) ==
    /\ Dispatched(f, "le_key_purge_all")
    /\ PayloadSize(f) = 0
    /\ keys' = << >>
    /\ Answer(f, Response(f, NoPayload, "successful"))
    /\ known' = {}

Handle(f) ==
    \/ DecodeFailure(f)
    \/ ZeroRequestId(f)
    \/ PayloadNotEmpty(f)
    \/ GetTime(f)
    \/ GetEventList(f)
    \/ GetEventId(f)
    \/ QuerySpb(f)
    \/ LoadOverflow(f)
    \/ LoadBegin(f)
    \/ QueryId(f)
    \/ QueryAll(f)
    \/ PurgeId(f)
    \/ PurgeAll(f)

Next ==
    \/ \E f \in Received : Handle(f)
    \/ LoadRecord
    \/ LoadEnd

Spec == Init /\ [][Next]_vars

-----------------------------------------------------------------------------
Answered(cmd, code) ==
    response # None /\ response.cmd = cmd /\ response.code = code

\* What the store, the loop and the answer may hold.
TypeOK ==
    /\ \A i \in DOMAIN keys : keys[i].id \in Nat
    /\ pc \in {"idle", "load"}
    /\ request \in Received \cup {None}
    /\ pc = "load" => next \in 1 .. Len(request.keys) + 1
    /\ response # None =>
            /\ response.cmd \in Commands \cup {"bad_request"}
            /\ response.code \in {"successful", "failed", "invalid"}
    /\ known \in SUBSET Nat
    /\ \A i \in DOMAIN events : events[i].id \in 0 .. Word - 1
    /\ listed # None => Len(listed.ids) <= Len(events)

\* The answers agree with each other: a client that keeps the ids its loads
\* stored and its purges removed, judging by the answers alone, can foretell
\* every answer of LEKeyQueryID and LEKeyQueryAll.
AnswersAgree ==
    /\ Answered("le_key_query_id", "successful") =>
           (response.payload.flag <=> request.words[1] \in known)
    /\ Answered("le_key_query_all", "successful") =>
           /\ {response.payload.ids[i] : i \in DOMAIN response.payload.ids} = known
           /\ Len(response.payload.ids) = Cardinality(known)

\* The keys of a batch such a client does not know to be stored, an id that the
\* batch repeats counted each time.
Additions(batch) == {i \in DOMAIN batch : batch[i].id \notin known}

\* It can also foretell whether a load overflows: exactly when the stored keys
\* and the additions exceed the capacity, judged by what was stored before the
\* load. Replacing keys never overflows, not even a full buffer; a batch that
\* repeats a new id may be refused although the ids would fit.
OverflowIsForetold ==
    [][response' # None /\ response'.cmd = "le_key_load"
        => (response'.code = "failed"
              <=> Cardinality(known) + Cardinality(Additions(request'.keys))
                    > Capacity)]_vars

\* NoKeyID says whether the key was there when the request came, and the purge
\* takes the key away and no other.
PurgeAnswersTruly ==
    [][Answered("le_key_purge_id", "successful")'
        => /\ response'.payload.flag <=> request'.words[1] \notin known
           /\ Ids(keys') = known \ {request'.words[1]}]_vars

\* A request that is not answered "successful" leaves the keys as they were: a
\* refused batch is refused as a whole, a refused purge removes nothing.
RefusalChangesNothing ==
    [][response' # None /\ response'.code # "successful" => keys' = keys]_vars

\* What the client sent, whether or not one read delivers all of it.
Sent(f) == [f EXCEPT !.size = HeaderSize + f.length]

\* A frame encode_request built with the payload encoder of its command.
WellFormed(f) ==
    \/ f = EncodeLoad(f.rid, f.keys)
    \/ /\ f.ul.cmd \in Commands \ {"le_key_load"}
       /\ f = EncodeWords(f.ul.cmd, f.rid, f.words)
       /\ Len(f.words) = CASE f.ul.cmd = "get_event_list" -> 2
                           [] f.ul.cmd \in {"get_event_id", "le_key_query_id",
                                            "le_key_purge_id"} -> 1
                           [] OTHER -> 0

\* A well-formed request with an id, if one read delivers it whole, is answered
\* under its own label and id, never as BadRequest.
IntactIsServed ==
    response # None /\ request.rid # 0 /\ WellFormed(request)
        => response.cmd = request.ul.cmd /\ response.rid = request.rid

\* The initiator reads 4096 bytes, 25 of which are not payload: 1015 ids, or a
\* record of 4071 bytes.
MaxPayload == ReadBuffer - HeaderSize - 5

\* What the initiator can show and what it cannot, told from the request and
\* the log. It cannot show: a BadRequest that copies a frame as large as the
\* buffer, a list of more events or a longer record than one read takes, and
\* the empty payload of a reversed window or of a query that carried a payload,
\* which it decodes whatever the code says. It can show everything else.
AnswersAreReadable ==
    response # None =>
        (InitiatorDecodes(response) <=>
            CASE response.cmd = "bad_request" ->
                     request.size < ReadBuffer - HeaderSize
              [] response.cmd = "get_event_list" ->
                     LET window == request.words[1] .. request.words[2]
                     IN  /\ request.words[1] <= request.words[2]
                         /\ 8 + 4 * Cardinality({i \in DOMAIN events :
                                                    events[i].time \in window})
                               <= MaxPayload
              [] response.cmd = "get_event_id" ->
                     ContainsKey(events, request.words[1]) =>
                         FirstEvent(events, request.words[1]).bytes <= MaxPayload
              [] response.cmd \in {"query_spb", "le_key_query_all"} ->
                     PayloadSize(request) = 0
              [] OTHER -> TRUE)

\* What GetEventList listed, GetEventID serves, however many requests later; and
\* unless the file is ambiguous in 32 bits, the record it serves shows a time
\* of the window it was listed for.
ListedEventIsServed ==
    response # None /\ response.cmd = "get_event_id" /\ listed # None
      /\ (\E i \in DOMAIN listed.ids : listed.ids[i] = request.words[1])
        => /\ response.code = "successful"
           /\ response.payload.event = request.words[1]
           /\ Faithful(events) =>
                 response.payload.shown \in listed.start .. listed.stop

-----------------------------------------------------------------------------
(***************************************************************************)
(* What the documents say of the answers and the code does not do.         *)
(***************************************************************************)

\* docs/iso26430-6-asm-implementation.md:54: an illegal payload length is
\* answered with BadRequest.
LegalSize(f) ==
    CASE f.ul.cmd = "le_key_load" -> PayloadSize(f) = 8 + 32 * f.count
      [] f.ul.cmd = "get_event_list" -> PayloadSize(f) = 8
      [] f.ul.cmd \in {"get_event_id", "le_key_query_id", "le_key_purge_id"} ->
             PayloadSize(f) = 4
      [] OTHER -> PayloadSize(f) = 0

IllegalSizeIsBadRequest ==
    response # None /\ RequestDecodes(request) /\ ~LegalSize(request)
        => response.cmd = "bad_request"

\* docs/constraints.md:36: the response of GetEventList is an EventIDBatch.
EventListCarriesBatch ==
    response # None /\ response.cmd = "get_event_list"
        => InitiatorDecodes(response)

\* docs/iso26430-6-asm-implementation.md:74: a load beyond the capacity is
\* answered with Overflow and `failed`.
OverflowIsReported ==
    response # None /\ request.rid # 0 /\ request.ul.cmd = "le_key_load"
      /\ WellFormed(Sent(request))
      /\ Cardinality(known \cup Ids(request.keys)) > Capacity
        => Answered("le_key_load", "failed")
=============================================================================
