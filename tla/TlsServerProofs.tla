--------------------------- MODULE TlsServerProofs ---------------------------
(***************************************************************************)
(* Theorems about TlsServer, for every set of clients and key ids, every   *)
(* capacity and any number of deaths.                                      *)
(*                                                                         *)
(* The properties of the answers (AnsweredIsSaved, DifferencesHaveAFault,  *)
(* SuccessTraceIsTrue) are about what a client was told some time ago, so  *)
(* the inductive invariant follows an id from the handler that changes it, *)
(* through persist, to the write that tells the client: see DecidedInv.    *)
(***************************************************************************)
EXTENDS TlsServer, SequenceTheorems, TLAPS

Waiting == {"connected", "hello", "badHello", "gone"}
Handling == {"handle", "persist", "flush", "write", "writeBad"}

\* A connection the kernel holds has sent no request, is held once and is not
\* the one that is served.
QueueInv ==
    /\ \A i \in DOMAIN backlog : /\ client[backlog[i]] \in Waiting
                                 /\ request[backlog[i]] = None
                                 /\ backlog[i] # current
    /\ \A i, j \in DOMAIN backlog : backlog[i] = backlog[j] => i = j

\* A client sends once, and is answered once.
ClientInv ==
    \A c \in Clients :
        /\ request[c] # None
             => client[c] \in {"sent", "answered", "gone", "broken"}
        /\ got[c] # None => client[c] = "answered"

\* Where the client that is served can be while serve_client is at a step.
SessionInv ==
    /\ pc = "handshake" => /\ client[current] \in Waiting
                           /\ request[current] = None
    /\ pc = "read" => client[current] \in {"secured", "sent", "gone"}
    /\ pc \in Handling => client[current] \in {"sent", "gone"}
    /\ pc = "report" => client[current] \in {"answered", "gone"}
    /\ pc \in Handling \cup {"report"} => request[current] # None
    /\ pc = "writeBad" => answer = "bad"

\* The calls that decided an id: the current one only from its handler on, and
\* when its answer is a success, memory and file are as the request asks.
Loaded(id) == request[last[id]].op = "load"

DecidedInv ==
    /\ \A id \in KeyIds : last[id] # None => request[last[id]] # None
    /\ pc \in {"handshake", "read", "handle"} =>
           \A id \in KeyIds : last[id] # current
    /\ pc \in {"persist", "flush"} =>
           \A id \in KeyIds : last[id] = current => (id \in mem <=> Loaded(id))
    /\ pc = "write" /\ answer = "successful" =>
           \A id \in KeyIds :
               last[id] = current => /\ id \in mem <=> Loaded(id)
                                     /\ Loaded(id) => id \in disk \cup lost
                                     /\ ~Loaded(id) => \/ id \notin disk
                                                       \/ id \in kept

\* What clients were told holds of the memory and of the file, except of the
\* file while persist rewrites it, up to what lost and kept remember; and what
\* makes memory and file differ is in them too, or was not told.
BufferInv ==
    /\ Up => \A id \in KeyIds : Told(id) =>
                IF Loaded(id) THEN id \in mem \cup lost
                              ELSE id \notin mem \/ id \in kept
    /\ pc # "flush" => \A id \in KeyIds : Told(id) =>
                IF Loaded(id) THEN id \in disk \cup lost
                              ELSE id \notin disk \/ id \in kept
    /\ pc = "flush" => disk = {} /\ ~torn
    /\ Up /\ pc \notin {"persist", "flush"} => disk \ mem \subseteq kept
    /\ Up /\ pc # "flush" =>
           \A id \in mem \ disk : id \in lost \/ (last[id] # None /\ ~Told(id))

\* What the observer is about to hear is what the client was told.
TraceInv ==
    /\ SuccessTraceIsTrue
    /\ pc = "report" => got[current] = answer \/ client[current] = "gone"

\* A connection accepted after the stop is the last one.
LateInv ==
    /\ late <= 1
    /\ ~stop \/ pc = "select" => late = 0

\* The inductive invariant.
IInv == /\ TypeOK /\ QueueInv /\ ClientInv /\ SessionInv /\ DecidedInv
        /\ BufferInv /\ TraceInv /\ LateInv

\* The first start: nothing stored, nobody connected.
LEMMA InitInv == Init => IInv
PROOF
  <1> SUFFICES ASSUME Init PROVE IInv
    OBVIOUS
  <1>1. TypeOK
    <2>1. backlog \in Seq(Clients)
      BY EmptySeq DEF Init
    <2>2. /\ client \in [Clients -> {"new"}]
          /\ request \in [Clients -> {None}] /\ got \in [Clients -> {None}]
          /\ last \in [KeyIds -> {None}]
      BY DEF Init
    <2>3. /\ client \in [Clients -> {"new", "connected", "hello", "badHello",
                             "secured", "sent", "answered", "gone", "broken"}]
          /\ request \in [Clients -> Requests \cup {None}]
          /\ got \in [Clients -> Answers \cup {None}]
          /\ last \in [KeyIds -> Clients \cup {None}]
      BY <2>2
    <2>4. /\ pc = "check" /\ current = None /\ answer = None /\ stop \in BOOLEAN
          /\ mem = {} /\ disk = {} /\ lost = {} /\ kept = {}
          /\ torn \in BOOLEAN /\ late = 0 /\ crashes = 0
      BY DEF Init
    <2> QED
      BY <2>1, <2>3, <2>4, ServerAssumption DEF TypeOK, Pcs
  <1>2. QueueInv /\ ClientInv /\ SessionInv
    BY DEF Init, QueueInv, ClientInv, SessionInv, Handling
  <1>3. DecidedInv /\ BufferInv /\ TraceInv /\ LateInv
    BY DEF Init, DecidedInv, BufferInv, TraceInv, LateInv, SuccessTraceIsTrue,
       Told, Up
  <1> QED
    BY <1>1, <1>2, <1>3 DEF IInv

-----------------------------------------------------------------------------
\* The clients: they change client and request, never the buffer.
LEMMA ConnectInv == ASSUME IInv, NEW c \in Clients, Connect(c) PROVE IInv'
PROOF
  <1>1. TypeOK'
    BY DEF Connect, thread, buffer, file, IInv, TypeOK
  <1>2. QueueInv'
    <2>1. c # current
      BY ServerAssumption DEF IInv, TypeOK, SessionInv, Connect, Waiting,
                              Handling, Pcs, Up
    <2>2. request[c] = None
      BY DEF IInv, ClientInv, Connect
    <2>3. \A i \in DOMAIN backlog : backlog[i] # c
      BY DEF IInv, QueueInv, Connect, Waiting
    <2> QED
      BY <2>1, <2>2, <2>3 DEF IInv, TypeOK, QueueInv, Connect, Waiting, thread
  <1>3. ClientInv'
    BY DEF Connect, IInv, ClientInv
  <1>4. SessionInv'
    BY DEF Connect, thread, IInv, SessionInv, Waiting
  <1>5. DecidedInv'
    BY DEF Connect, thread, buffer, file, IInv, DecidedInv, Loaded
  <1>6. BufferInv'
    BY DEF Connect, thread, buffer, file, IInv, BufferInv, Told, Loaded
  <1>7. TraceInv'
    BY DEF Connect, thread, IInv, TraceInv, SuccessTraceIsTrue
  <1>8. LateInv'
    BY DEF Connect, thread, IInv, LateInv
  <1> QED BY <1>1, <1>2, <1>3, <1>4, <1>5, <1>6, <1>7, <1>8 DEF IInv

\* The handshake message of a client that is connected.
LEMMA HelloInv == ASSUME IInv, NEW c \in Clients, Hello(c) PROVE IInv'
PROOF
  <1>1. TypeOK'
    BY DEF Hello, thread, buffer, file, IInv, TypeOK
  <1>2. QueueInv'
    BY DEF Hello, thread, IInv, QueueInv, Waiting
  <1>3. ClientInv'
    BY DEF Hello, IInv, ClientInv
  <1>4. SessionInv'
    BY DEF Hello, thread, IInv, SessionInv, Waiting
  <1>5. DecidedInv'
    BY DEF Hello, thread, buffer, file, IInv, DecidedInv, Loaded
  <1>6. BufferInv'
    BY DEF Hello, thread, buffer, file, IInv, BufferInv, Told, Loaded, Up
  <1>7. TraceInv'
    BY DEF Hello, thread, IInv, TraceInv, SuccessTraceIsTrue
  <1>8. LateInv'
    BY DEF Hello, thread, IInv, LateInv
  <1> QED BY <1>1, <1>2, <1>3, <1>4, <1>5, <1>6, <1>7, <1>8 DEF IInv

\* A client sends once: no id was decided by it before.
LEMMA SendInv == ASSUME IInv, NEW c \in Clients, Send(c) PROVE IInv'
PROOF
  <1>1. TypeOK'
    BY DEF Send, thread, buffer, file, IInv, TypeOK
  <1>2. QueueInv'
    BY DEF Send, thread, IInv, QueueInv, Waiting
  <1>3. ClientInv'
    BY DEF Send, IInv, TypeOK, ClientInv
  <1>4. SessionInv'
    BY DEF Send, thread, IInv, SessionInv, Waiting
  <1>5. DecidedInv'
    BY DEF Send, thread, buffer, file, IInv, TypeOK, ClientInv, DecidedInv,
       Loaded
  <1>6. BufferInv'
    BY DEF Send, thread, buffer, file, IInv, ClientInv, DecidedInv, BufferInv,
       Told, Loaded, Up
  <1>7. TraceInv'
    BY DEF Send, thread, IInv, TraceInv, SuccessTraceIsTrue
  <1>8. LateInv'
    BY DEF Send, thread, IInv, LateInv
  <1> QED BY <1>1, <1>2, <1>3, <1>4, <1>5, <1>6, <1>7, <1>8 DEF IInv

\* A client that goes away keeps what it sent and was told nothing.
LEMMA VanishInv == ASSUME IInv, NEW c \in Clients, Vanish(c) PROVE IInv'
PROOF
  <1>1. TypeOK'
    BY DEF Vanish, thread, buffer, file, IInv, TypeOK
  <1>2. QueueInv'
    BY DEF Vanish, thread, IInv, QueueInv, Waiting
  <1>3. ClientInv'
    BY DEF Vanish, IInv, ClientInv
  <1>4. SessionInv'
    BY DEF Vanish, thread, IInv, SessionInv, Waiting
  <1>5. DecidedInv'
    BY DEF Vanish, thread, buffer, file, IInv, DecidedInv, Loaded
  <1>6. BufferInv'
    BY DEF Vanish, thread, buffer, file, IInv, BufferInv, Told, Loaded, Up
  <1>7. TraceInv'
    BY DEF Vanish, thread, IInv, TraceInv, SuccessTraceIsTrue
  <1>8. LateInv'
    BY DEF Vanish, thread, IInv, LateInv
  <1> QED BY <1>1, <1>2, <1>3, <1>4, <1>5, <1>6, <1>7, <1>8 DEF IInv

-----------------------------------------------------------------------------
\* The loop of run.
LEMMA CheckInv == ASSUME IInv, Check PROVE IInv'
PROOF
  <1>1. TypeOK'
    <2>1. client' \in [Clients -> {"new", "connected", "hello", "badHello",
                "secured", "sent", "answered", "gone", "broken"}]
      <3>1. CASE stop
        BY <3>1 DEF IInv, TypeOK, Check
      <3>2. CASE ~stop
        BY <3>2 DEF IInv, TypeOK, Check
      <3> QED
        BY <3>1, <3>2
    <2>2. backlog' \in Seq(Clients)
      <3>1. CASE stop
        BY <3>1, EmptySeq DEF Check
      <3>2. CASE ~stop
        BY <3>2 DEF IInv, TypeOK, Check
      <3> QED
        BY <3>1, <3>2
    <2> QED
      BY <2>1, <2>2, ServerAssumption DEF buffer, file, IInv, TypeOK, Check, Pcs
  <1>2. QueueInv'
    BY DEF Check, IInv, QueueInv
  <1>3. ClientInv'
    BY DEF Check, IInv, QueueInv, ClientInv, Waiting
  <1>4. SessionInv'
    BY DEF Check, IInv, SessionInv, Handling
  <1>5. DecidedInv'
    BY DEF Check, buffer, file, IInv, DecidedInv
  <1>6. BufferInv'
    BY DEF Check, buffer, file, IInv, BufferInv, Told, Loaded, Up
  <1>7. TraceInv'
    BY DEF Check, IInv, TraceInv, SuccessTraceIsTrue
  <1>8. LateInv'
    BY DEF Check, IInv, LateInv
  <1> QED BY <1>1, <1>2, <1>3, <1>4, <1>5, <1>6, <1>7, <1>8 DEF IInv

\* Nothing but pc changes.
LEMMA SelectReturnsInv == ASSUME IInv, SelectReturns PROVE IInv'
PROOF
  <1>1. TypeOK'
    BY DEF SelectReturns, buffer, file, network, IInv, TypeOK, Pcs
  <1>2. QueueInv'
    BY DEF SelectReturns, network, IInv, QueueInv
  <1>3. ClientInv'
    BY DEF SelectReturns, network, IInv, ClientInv
  <1>4. SessionInv'
    BY DEF SelectReturns, IInv, SessionInv, Handling
  <1>5. DecidedInv'
    BY DEF SelectReturns, buffer, file, network, IInv, DecidedInv
  <1>6. BufferInv'
    BY DEF SelectReturns, buffer, file, network, IInv, BufferInv, Told, Loaded,
       Up
  <1>7. TraceInv'
    BY DEF SelectReturns, network, IInv, TraceInv, SuccessTraceIsTrue
  <1>8. LateInv'
    BY DEF SelectReturns, IInv, LateInv
  <1> QED BY <1>1, <1>2, <1>3, <1>4, <1>5, <1>6, <1>7, <1>8 DEF IInv

\* The client that is served next has sent nothing and decided nothing.
LEMMA AcceptInv == ASSUME IInv, Accept PROVE IInv'
PROOF
  <1>1. TypeOK'
    BY ServerAssumption DEF Accept, buffer, file, IInv, TypeOK, Pcs
  <1>2. QueueInv'
    BY DEF Accept, IInv, TypeOK, QueueInv
  <1>3. ClientInv'
    BY DEF Accept, IInv, ClientInv
  <1>4. SessionInv'
    BY DEF Accept, IInv, QueueInv, SessionInv, Handling
  <1>5. DecidedInv'
    BY DEF Accept, buffer, file, IInv, TypeOK, QueueInv, DecidedInv
  <1>6. BufferInv'
    BY DEF Accept, buffer, file, IInv, BufferInv, Told, Loaded, Up
  <1>7. TraceInv'
    BY DEF Accept, IInv, TraceInv, SuccessTraceIsTrue
  <1>8. LateInv'
    BY DEF Accept, IInv, LateInv
  <1> QED BY <1>1, <1>2, <1>3, <1>4, <1>5, <1>6, <1>7, <1>8 DEF IInv

-----------------------------------------------------------------------------
\* serve_client up to the handler.
LEMMA HandshakeInv == ASSUME IInv, Handshake PROVE IInv'
PROOF
  <1>1. TypeOK'
    BY DEF Handshake, buffer, file, IInv, TypeOK, Pcs
  <1>2. QueueInv'
    BY DEF Handshake, IInv, QueueInv
  <1>3. ClientInv'
    BY DEF Handshake, IInv, ClientInv
  <1>4. SessionInv'
    BY DEF Handshake, IInv, TypeOK, SessionInv, Handling
  <1>5. DecidedInv'
    BY DEF Handshake, buffer, file, IInv, DecidedInv
  <1>6. BufferInv'
    BY DEF Handshake, buffer, file, IInv, BufferInv, Told, Loaded, Up
  <1>7. TraceInv'
    BY DEF Handshake, IInv, TraceInv, SuccessTraceIsTrue
  <1>8. LateInv'
    BY DEF Handshake, IInv, LateInv
  <1> QED BY <1>1, <1>2, <1>3, <1>4, <1>5, <1>6, <1>7, <1>8 DEF IInv

\* The session ends before a request, whatever state its client is in.
LEMMA HandshakeEndsInv ==
    ASSUME IInv, pc = "handshake", SessionFails PROVE IInv'
PROOF
  <1>1. TypeOK'
    BY DEF SessionFails, Close, buffer, file, IInv, TypeOK, Pcs
  <1>2. QueueInv'
    BY ServerAssumption DEF SessionFails, Close, IInv, TypeOK,
       QueueInv
  <1>3. ClientInv'
    BY DEF SessionFails, Close, IInv, ClientInv
  <1>4. SessionInv'
    BY DEF SessionFails, Close, IInv, SessionInv, Handling
  <1>5. DecidedInv'
    BY DEF SessionFails, Close, buffer, file, IInv, DecidedInv
  <1>6. BufferInv'
    BY DEF SessionFails, Close, buffer, file, IInv, BufferInv, Told,
       Loaded, Up
  <1>7. TraceInv'
    BY DEF SessionFails, Close, IInv, TraceInv,
       SuccessTraceIsTrue
  <1>8. LateInv'
    BY DEF SessionFails, Close, IInv, LateInv
  <1> QED BY <1>1, <1>2, <1>3, <1>4, <1>5, <1>6, <1>7, <1>8 DEF IInv

\* The request has arrived; it has decided nothing yet.
LEMMA ReadInv == ASSUME IInv, Read PROVE IInv'
PROOF
  <1>1. TypeOK'
    BY DEF Read, buffer, file, network, IInv, TypeOK, Pcs
  <1>2. QueueInv'
    BY DEF Read, network, IInv, QueueInv
  <1>3. ClientInv'
    BY DEF Read, network, IInv, ClientInv
  <1>4. SessionInv'
    BY DEF Read, network, IInv, TypeOK, ClientInv, SessionInv
  <1>5. DecidedInv'
    BY DEF Read, buffer, file, network, IInv, DecidedInv
  <1>6. BufferInv'
    BY DEF Read, buffer, file, network, IInv, BufferInv, Told, Loaded, Up
  <1>7. TraceInv'
    BY DEF Read, network, IInv, TraceInv, SuccessTraceIsTrue
  <1>8. LateInv'
    BY DEF Read, IInv, LateInv
  <1> QED BY <1>1, <1>2, <1>3, <1>4, <1>5, <1>6, <1>7, <1>8 DEF IInv

\* The session ends without a request.
LEMMA ReadFailsInv == ASSUME IInv, ReadFails PROVE IInv'
PROOF
  <1>1. TypeOK'
    BY DEF ReadFails, SessionFails, Close, buffer, file, IInv, TypeOK, Pcs
  <1>2. QueueInv'
    BY ServerAssumption DEF ReadFails, SessionFails, Close, IInv, TypeOK,
       QueueInv
  <1>3. ClientInv'
    BY DEF ReadFails, SessionFails, Close, IInv, ClientInv
  <1>4. SessionInv'
    BY DEF ReadFails, SessionFails, Close, IInv, SessionInv, Handling
  <1>5. DecidedInv'
    BY DEF ReadFails, SessionFails, Close, buffer, file, IInv, DecidedInv
  <1>6. BufferInv'
    BY DEF ReadFails, SessionFails, Close, buffer, file, IInv, BufferInv, Told,
       Loaded, Up
  <1>7. TraceInv'
    BY DEF ReadFails, SessionFails, Close, IInv, TraceInv, SuccessTraceIsTrue
  <1>8. LateInv'
    BY DEF ReadFails, SessionFails, Close, IInv, LateInv
  <1> QED BY <1>1, <1>2, <1>3, <1>4, <1>5, <1>6, <1>7, <1>8 DEF IInv

-----------------------------------------------------------------------------
\* The handlers: a change is decided by the client that is served.
LEMMA HandleBadInv == ASSUME IInv, HandleBad PROVE IInv'
PROOF
  <1>1. TypeOK'
    BY ServerAssumption DEF HandleBad, HandleThrows, Respond, buffer, file,
       network, IInv, TypeOK, Pcs, Answers
  <1>2. QueueInv'
    BY DEF HandleBad, HandleThrows, Respond, network, IInv, QueueInv
  <1>3. ClientInv'
    BY DEF HandleBad, HandleThrows, Respond, network, IInv, ClientInv
  <1>4. SessionInv'
    BY DEF HandleBad, HandleThrows, Respond, network, IInv, SessionInv,
       Handling
  <1>5. DecidedInv'
    BY DEF HandleBad, HandleThrows, Respond, buffer, file, network, IInv,
       DecidedInv
  <1>6. BufferInv'
    BY DEF HandleBad, HandleThrows, Respond, buffer, file, network, IInv,
       BufferInv, Told, Loaded, Up
  <1>7. TraceInv'
    BY DEF HandleBad, HandleThrows, Respond, network, IInv, TraceInv,
       SuccessTraceIsTrue
  <1>8. LateInv'
    BY DEF HandleBad, HandleThrows, Respond, IInv, LateInv
  <1> QED BY <1>1, <1>2, <1>3, <1>4, <1>5, <1>6, <1>7, <1>8 DEF IInv

\* An answer without a change decides nothing.
LEMMA HandleQueryInv == ASSUME IInv, HandleQuery PROVE IInv'
PROOF
  <1>1. TypeOK'
    BY ServerAssumption DEF HandleQuery, Respond, buffer, file, network, IInv,
       TypeOK, Pcs, Answers
  <1>2. QueueInv'
    BY DEF HandleQuery, Respond, network, IInv, QueueInv
  <1>3. ClientInv'
    BY DEF HandleQuery, Respond, network, IInv, ClientInv
  <1>4. SessionInv'
    BY DEF HandleQuery, Respond, network, IInv, SessionInv, Handling
  <1>5. DecidedInv'
    BY DEF HandleQuery, Respond, buffer, file, network, IInv, DecidedInv
  <1>6. BufferInv'
    BY DEF HandleQuery, Respond, buffer, file, network, IInv, BufferInv, Told,
       Loaded, Up
  <1>7. TraceInv'
    BY DEF HandleQuery, Respond, network, IInv, TraceInv, SuccessTraceIsTrue
  <1>8. LateInv'
    BY DEF HandleQuery, Respond, IInv, LateInv
  <1> QED BY <1>1, <1>2, <1>3, <1>4, <1>5, <1>6, <1>7, <1>8 DEF IInv

\* A load that fits decides its id.
LEMMA HandleLoadInv == ASSUME IInv, HandleLoad PROVE IInv'
PROOF
  <1>1. TypeOK'
    BY ServerAssumption DEF HandleLoad, Respond, Change, Req, buffer, file,
       network, IInv, TypeOK, SessionInv, Handling, Pcs, Answers, Requests
  <1>2. QueueInv'
    BY DEF HandleLoad, Respond, Change, network, IInv, QueueInv
  <1>3. ClientInv'
    BY DEF HandleLoad, Respond, Change, network, IInv, ClientInv
  <1>4. SessionInv'
    BY DEF HandleLoad, Respond, Change, network, IInv, SessionInv, Handling
  <1>5. DecidedInv'
    BY DEF HandleLoad, Respond, Change, Req, buffer, file, network, IInv,
       SessionInv, DecidedInv, Loaded, Handling
  <1>6. BufferInv'
    BY <1>1, ServerAssumption DEF HandleLoad, Respond, Change, buffer, file,
       network, IInv, TypeOK, ClientInv, SessionInv, BufferInv, Told, Loaded,
       Up, Handling, Answers
  <1>7. TraceInv'
    BY DEF HandleLoad, Respond, Change, network, IInv, TraceInv,
       SuccessTraceIsTrue
  <1>8. LateInv'
    BY DEF HandleLoad, Respond, Change, IInv, LateInv
  <1> QED BY <1>1, <1>2, <1>3, <1>4, <1>5, <1>6, <1>7, <1>8 DEF IInv

\* A purge that finds its key decides its id.
LEMMA HandlePurgeInv == ASSUME IInv, HandlePurge PROVE IInv'
PROOF
  <1>1. TypeOK'
    BY ServerAssumption DEF HandlePurge, Change, file, network,
       IInv, TypeOK, Pcs, Answers
  <1>2. QueueInv'
    BY DEF HandlePurge, Change, network, IInv, QueueInv
  <1>3. ClientInv'
    BY DEF HandlePurge, Change, network, IInv, ClientInv
  <1>4. SessionInv'
    BY DEF HandlePurge, Change, network, IInv, SessionInv, Handling
  <1>5. DecidedInv'
    BY DEF HandlePurge, Change, Req, file, network, IInv,
       SessionInv, DecidedInv, Loaded, Handling
  <1>6. BufferInv'
    BY ServerAssumption DEF HandlePurge, Change, file, network,
       IInv, TypeOK, ClientInv, SessionInv, BufferInv, Told, Loaded, Up,
       Handling, Answers
  <1>7. TraceInv'
    BY DEF HandlePurge, Change, network, IInv, TraceInv,
       SuccessTraceIsTrue
  <1>8. LateInv'
    BY DEF HandlePurge, Change, IInv, LateInv
  <1> QED BY <1>1, <1>2, <1>3, <1>4, <1>5, <1>6, <1>7, <1>8 DEF IInv

\* A purge that does not find its key decides its id too.
LEMMA HandlePurgeMissingInv == ASSUME IInv, HandlePurgeMissing PROVE IInv'
PROOF
  <1>1. TypeOK'
    BY ServerAssumption DEF HandlePurgeMissing, Req, file, network,
       IInv, TypeOK, Pcs, Answers
  <1>2. QueueInv'
    BY DEF HandlePurgeMissing, network, IInv, QueueInv
  <1>3. ClientInv'
    BY DEF HandlePurgeMissing, network, IInv, ClientInv
  <1>4. SessionInv'
    BY DEF HandlePurgeMissing, network, IInv, SessionInv, Handling
  <1>5. DecidedInv'
    BY DEF HandlePurgeMissing, Req, file, network, IInv, TypeOK,
       SessionInv, DecidedInv, BufferInv, Up, Loaded, Handling
  <1>6. BufferInv'
    BY ServerAssumption DEF HandlePurgeMissing, Req, file, network,
       IInv, TypeOK, ClientInv, SessionInv, BufferInv, Told, Loaded, Up,
       Handling, Answers
  <1>7. TraceInv'
    BY DEF HandlePurgeMissing, network, IInv, TraceInv,
       SuccessTraceIsTrue
  <1>8. LateInv'
    BY DEF HandlePurgeMissing, IInv, LateInv
  <1> QED BY <1>1, <1>2, <1>3, <1>4, <1>5, <1>6, <1>7, <1>8 DEF IInv

\* Purging all decides every id.
LEMMA HandlePurgeAllInv == ASSUME IInv, HandlePurgeAll PROVE IInv'
PROOF
  <1>1. TypeOK'
    BY DEF HandlePurgeAll, Change, file, network, IInv, TypeOK, Pcs
  <1>2. QueueInv'
    BY DEF HandlePurgeAll, Change, file, network, IInv, QueueInv
  <1>3. ClientInv'
    BY DEF HandlePurgeAll, Change, file, network, IInv, ClientInv
  <1>4. SessionInv'
    BY DEF HandlePurgeAll, Change, file, network, IInv, SessionInv, Handling
  <1>5. DecidedInv'
    BY DEF HandlePurgeAll, Change, Req, file, network, IInv, SessionInv,
       DecidedInv, Loaded, Handling
  <1>6. BufferInv'
    BY ServerAssumption DEF HandlePurgeAll, Change, file, network, IInv, TypeOK,
       ClientInv, SessionInv, BufferInv, Told, Handling, Answers
  <1>7. TraceInv'
    BY DEF HandlePurgeAll, Change, file, network, IInv, TraceInv,
       SuccessTraceIsTrue
  <1>8. LateInv'
    BY DEF HandlePurgeAll, Change, IInv, LateInv
  <1> QED BY <1>1, <1>2, <1>3, <1>4, <1>5, <1>6, <1>7, <1>8 DEF IInv

-----------------------------------------------------------------------------
\* persist: the file empties, then holds what memory holds, or it throws.
LEMMA PersistOpenInv == ASSUME IInv, PersistOpen PROVE IInv'
PROOF
  <1>1. TypeOK'
    BY DEF PersistOpen, network, IInv, TypeOK, Pcs
  <1>2. QueueInv'
    BY DEF PersistOpen, network, IInv, QueueInv
  <1>3. ClientInv'
    BY DEF PersistOpen, network, IInv, ClientInv
  <1>4. SessionInv'
    BY DEF PersistOpen, network, IInv, SessionInv, Handling
  <1>5. DecidedInv'
    BY DEF PersistOpen, network, IInv, DecidedInv, Loaded
  <1>6. BufferInv'
    BY DEF PersistOpen, network, IInv, BufferInv, Told, Loaded, Up
  <1>7. TraceInv'
    BY DEF PersistOpen, network, IInv, TraceInv, SuccessTraceIsTrue
  <1>8. LateInv'
    BY DEF PersistOpen, IInv, LateInv
  <1> QED BY <1>1, <1>2, <1>3, <1>4, <1>5, <1>6, <1>7, <1>8 DEF IInv

\* The ids decided stay in memory; the answer is not a success.
LEMMA PersistThrowsInv == ASSUME IInv, PersistThrows PROVE IInv'
PROOF
  <1>1. TypeOK'
    BY ServerAssumption DEF PersistThrows, network, IInv,
       TypeOK, Pcs, Answers
  <1>2. QueueInv'
    BY DEF PersistThrows, network, IInv, QueueInv
  <1>3. ClientInv'
    BY DEF PersistThrows, network, IInv, ClientInv
  <1>4. SessionInv'
    BY DEF PersistThrows, network, IInv, SessionInv, Handling
  <1>5. DecidedInv'
    BY DEF PersistThrows, network, IInv, DecidedInv
  <1>6. BufferInv'
    BY DEF PersistThrows, network, IInv, BufferInv, Told,
       Loaded, Up
  <1>7. TraceInv'
    BY DEF PersistThrows, network, IInv, TraceInv,
       SuccessTraceIsTrue
  <1>8. LateInv'
    BY DEF PersistThrows, IInv, LateInv
  <1> QED BY <1>1, <1>2, <1>3, <1>4, <1>5, <1>6, <1>7, <1>8 DEF IInv

\* What a start will read is in memory, the rest of it lost; the answer is a
\* success.
LEMMA FlushInv ==
    ASSUME IInv, NEW read \in SUBSET mem, Flush(read), torn' \in BOOLEAN,
           torn' => read = {}
    PROVE  IInv'
PROOF
  <1>1. TypeOK'
    BY ServerAssumption DEF Flush, network, IInv, TypeOK, Pcs, Answers
  <1>2. QueueInv'
    BY DEF Flush, network, IInv, QueueInv
  <1>3. ClientInv'
    BY DEF Flush, network, IInv, ClientInv
  <1>4. SessionInv'
    BY DEF Flush, network, IInv, SessionInv, Handling
  <1>5. DecidedInv'
    BY DEF Flush, network, IInv, DecidedInv, Loaded
  <1>6. BufferInv'
    BY DEF Flush, network, IInv, BufferInv, Told, Loaded, Up
  <1>7. TraceInv'
    BY DEF Flush, network, IInv, TraceInv, SuccessTraceIsTrue
  <1>8. LateInv'
    BY DEF Flush, IInv, LateInv
  <1> QED BY <1>1, <1>2, <1>3, <1>4, <1>5, <1>6, <1>7, <1>8 DEF IInv

-----------------------------------------------------------------------------
\* The answer: only here does a client come to know.
LEMMA WriteInv == ASSUME IInv, Write PROVE IInv'
PROOF
  <1>1. TypeOK'
    <2>1. current \in Clients /\ answer \in Answers
      BY DEF IInv, TypeOK, Write
    <2>2. /\ client' \in [Clients -> {"new", "connected", "hello", "badHello",
                "secured", "sent", "answered", "gone", "broken"}]
          /\ got' \in [Clients -> Answers \cup {None}]
      BY <2>1 DEF IInv, TypeOK, Write, Deliver
    <2> QED
      BY <2>1, <2>2 DEF thread, buffer, file, network, IInv, TypeOK, Write, Pcs
  <1>2. QueueInv'
    BY DEF Write, Deliver, IInv, TypeOK, QueueInv
  <1>3. ClientInv'
    BY DEF Write, Deliver, IInv, TypeOK, ClientInv
  <1>4. SessionInv'
    BY DEF Write, Deliver, IInv, TypeOK, SessionInv, Handling
  <1>5. DecidedInv'
    BY DEF Write, buffer, file, IInv, DecidedInv
  <1>6. BufferInv'
    BY DEF Write, Deliver, buffer, file, IInv, TypeOK, SessionInv, DecidedInv,
       BufferInv, Told, Loaded, Up
  <1>7. TraceInv'
    BY ServerAssumption DEF Write, Deliver, IInv, TypeOK, ClientInv,
       SessionInv, TraceInv, SuccessTraceIsTrue, Handling, Answers
  <1>8. LateInv'
    BY DEF Write, IInv, LateInv
  <1> QED BY <1>1, <1>2, <1>3, <1>4, <1>5, <1>6, <1>7, <1>8 DEF IInv

\* The client is gone and is not told.
LEMMA WriteFailsInv == ASSUME IInv, WriteFails PROVE IInv'
PROOF
  <1>1. TypeOK'
    BY ServerAssumption DEF WriteFails, HandleThrows, buffer, file, network,
       IInv, TypeOK, Pcs, Answers
  <1>2. QueueInv'
    BY DEF WriteFails, HandleThrows, network, IInv, QueueInv
  <1>3. ClientInv'
    BY DEF WriteFails, HandleThrows, network, IInv, ClientInv
  <1>4. SessionInv'
    BY DEF WriteFails, HandleThrows, network, IInv, SessionInv, Handling
  <1>5. DecidedInv'
    BY DEF WriteFails, HandleThrows, buffer, file, network, IInv, DecidedInv
  <1>6. BufferInv'
    BY DEF WriteFails, HandleThrows, buffer, file, network, IInv, BufferInv,
       Told, Loaded, Up
  <1>7. TraceInv'
    BY DEF WriteFails, HandleThrows, network, IInv, TraceInv,
       SuccessTraceIsTrue
  <1>8. LateInv'
    BY DEF WriteFails, HandleThrows, IInv, LateInv
  <1> QED BY <1>1, <1>2, <1>3, <1>4, <1>5, <1>6, <1>7, <1>8 DEF IInv

\* The client is gone and is not told.
LEMMA SecondWriteFailsInv == ASSUME IInv, SecondWriteFails PROVE IInv'
PROOF
  <1>1. TypeOK'
    BY DEF SecondWriteFails, SessionFails, Close, buffer, file, IInv, TypeOK,
       Pcs
  <1>2. QueueInv'
    BY ServerAssumption DEF SecondWriteFails, SessionFails, Close, IInv,
       TypeOK, QueueInv
  <1>3. ClientInv'
    BY DEF SecondWriteFails, SessionFails, Close, IInv, ClientInv
  <1>4. SessionInv'
    BY DEF SecondWriteFails, SessionFails, Close, IInv, SessionInv, Handling
  <1>5. DecidedInv'
    BY DEF SecondWriteFails, SessionFails, Close, buffer, file, IInv, DecidedInv
  <1>6. BufferInv'
    BY DEF SecondWriteFails, SessionFails, Close, buffer, file, IInv, BufferInv,
       Told, Loaded, Up
  <1>7. TraceInv'
    BY DEF SecondWriteFails, SessionFails, Close, IInv, TraceInv,
       SuccessTraceIsTrue
  <1>8. LateInv'
    BY DEF SecondWriteFails, SessionFails, Close, IInv, LateInv
  <1> QED BY <1>1, <1>2, <1>3, <1>4, <1>5, <1>6, <1>7, <1>8 DEF IInv

\* The observer hears what the client was told.
LEMMA ReportInv == ASSUME IInv, Report PROVE IInv'
PROOF
  <1>1. TypeOK'
    BY DEF Report, Close, buffer, file, IInv, TypeOK, Pcs
  <1>2. QueueInv'
    BY ServerAssumption DEF Report, Close, IInv, TypeOK, QueueInv
  <1>3. ClientInv'
    BY DEF Report, Close, IInv, ClientInv
  <1>4. SessionInv'
    BY DEF Report, Close, IInv, SessionInv, Handling
  <1>5. DecidedInv'
    BY DEF Report, Close, buffer, file, IInv, DecidedInv
  <1>6. BufferInv'
    BY DEF Report, Close, buffer, file, IInv, BufferInv, Told, Loaded, Up
  <1>7. TraceInv'
    BY DEF Report, Close, IInv, TraceInv, SuccessTraceIsTrue
  <1>8. LateInv'
    BY DEF Report, Close, IInv, LateInv
  <1> QED BY <1>1, <1>2, <1>3, <1>4, <1>5, <1>6, <1>7, <1>8 DEF IInv

-----------------------------------------------------------------------------
\* The process: the file is what remains.
LEMMA SignalInv == ASSUME IInv, Signal PROVE IInv'
PROOF
  <1>1. TypeOK'
    BY DEF Signal, thread, buffer, file, network, IInv, TypeOK
  <1>2. QueueInv'
    BY DEF Signal, thread, network, IInv, QueueInv
  <1>3. ClientInv'
    BY DEF Signal, network, IInv, ClientInv
  <1>4. SessionInv'
    BY DEF Signal, thread, network, IInv, SessionInv
  <1>5. DecidedInv'
    BY DEF Signal, thread, buffer, file, network, IInv, DecidedInv, Loaded
  <1>6. BufferInv'
    BY DEF Signal, thread, buffer, file, network, IInv, BufferInv, Told, Loaded
  <1>7. TraceInv'
    BY DEF Signal, thread, network, IInv, TraceInv, SuccessTraceIsTrue
  <1>8. LateInv'
    BY DEF Signal, IInv, LateInv
  <1> QED BY <1>1, <1>2, <1>3, <1>4, <1>5, <1>6, <1>7, <1>8 DEF IInv

\* Memory is lost; between truncation and write, the loads are too.
LEMMA CrashInv == ASSUME IInv, Crash PROVE IInv'
PROOF
  <1>1. TypeOK'
    BY ServerAssumption DEF Crash, IInv, TypeOK, Pcs
  <1>2. QueueInv'
    BY DEF Crash, IInv, QueueInv
  <1>3. ClientInv'
    BY DEF Crash, IInv, ClientInv
  <1>4. SessionInv'
    BY DEF Crash, IInv, SessionInv, Handling
  <1>5. DecidedInv'
    BY DEF Crash, IInv, DecidedInv
  <1>6. BufferInv'
    BY DEF Crash, Up, IInv, BufferInv, Told, Loaded
  <1>7. TraceInv'
    BY DEF Crash, IInv, TraceInv, SuccessTraceIsTrue
  <1>8. LateInv'
    BY DEF Crash, IInv, LateInv
  <1> QED BY <1>1, <1>2, <1>3, <1>4, <1>5, <1>6, <1>7, <1>8 DEF IInv

\* Memory is what the file holds.
LEMMA RestartInv == ASSUME IInv, Restart PROVE IInv'
PROOF
  <1>1. TypeOK'
    BY DEF Restart, file, network, IInv, TypeOK, Pcs
  <1>2. QueueInv'
    BY DEF Restart, network, IInv, QueueInv
  <1>3. ClientInv'
    BY DEF Restart, network, IInv, ClientInv
  <1>4. SessionInv'
    BY DEF Restart, IInv, SessionInv, Handling
  <1>5. DecidedInv'
    BY DEF Restart, file, network, IInv, DecidedInv
  <1>6. BufferInv'
    BY DEF Restart, file, network, IInv, BufferInv, Told, Loaded
  <1>7. TraceInv'
    BY DEF Restart, network, IInv, TraceInv, SuccessTraceIsTrue
  <1>8. LateInv'
    BY DEF Restart, IInv, LateInv
  <1> QED BY <1>1, <1>2, <1>3, <1>4, <1>5, <1>6, <1>7, <1>8 DEF IInv

-----------------------------------------------------------------------------
\* Every step of the system keeps the invariant.
LEMMA StepInv == IInv /\ [Next]_vars => IInv'
PROOF
  <1> SUFFICES ASSUME IInv, [Next]_vars PROVE IInv'
    OBVIOUS
  <1>1. ASSUME NEW c \in Clients, Connect(c) \/ Hello(c) \/ Send(c) \/ Vanish(c)
        PROVE  IInv'
    BY <1>1, ConnectInv, HelloInv, SendInv, VanishInv
  <1>2. CASE Check \/ SelectReturns \/ Accept
    BY <1>2, CheckInv, SelectReturnsInv, AcceptInv
  <1>3. CASE ContextFails \/ Handshake \/ HandshakeFails \/ Read \/ ReadFails
    BY <1>3, HandshakeInv, HandshakeEndsInv, ReadInv, ReadFailsInv
       DEF ContextFails, HandshakeFails
  <1>4. CASE HandleBad \/ HandleQuery \/ HandleLoad \/ HandlePurge
            \/ HandlePurgeMissing \/ HandlePurgeAll
    BY <1>4, HandleBadInv, HandleQueryInv, HandleLoadInv, HandlePurgeInv,
       HandlePurgeMissingInv, HandlePurgeAllInv
  <1>5. CASE PersistOpen \/ PersistThrows
    BY <1>5, PersistOpenInv, PersistThrowsInv
  <1>6. CASE PersistWrite \/ PersistShort
    <2>1. ASSUME NEW read \in SUBSET mem, Flush(read), UNCHANGED torn
          PROVE  IInv'
      BY <2>1, FlushInv DEF IInv, TypeOK, BufferInv, Flush
    <2>2. ASSUME Flush({}), torn' = TRUE
          PROVE  IInv'
      BY <2>2, FlushInv
    <2> QED
      BY <1>6, <2>1, <2>2 DEF PersistWrite, PersistShort
  <1>7. CASE Write \/ WriteFails \/ SecondWriteFails \/ Report
    BY <1>7, WriteInv, WriteFailsInv, SecondWriteFailsInv, ReportInv
  <1>8. CASE Signal \/ Crash \/ Restart
    BY <1>8, SignalInv, CrashInv, RestartInv
  <1>9. CASE UNCHANGED vars
    BY <1>9 DEF vars, thread, buffer, file, network, IInv, TypeOK, QueueInv,
       ClientInv, SessionInv, DecidedInv, BufferInv, TraceInv, LateInv,
       SuccessTraceIsTrue, Told, Loaded, Up
  <1> QED
    BY <1>1, <1>2, <1>3, <1>4, <1>5, <1>6, <1>7, <1>8, <1>9
       DEF Next, Server

\* The invariant holds of every reachable state.
THEOREM Invariant == Spec => []IInv
PROOF
  <1>1. Init => IInv
    BY InitInv
  <1>2. IInv /\ [Next]_vars => IInv'
    BY StepInv
  <1> QED
    BY <1>1, <1>2, PTL DEF Spec

\* Every step of run, serve_client, the clients and the process keeps the types.
THEOREM TypeCorrect == Spec => []TypeOK
PROOF
  <1>1. IInv => TypeOK
    BY DEF IInv
  <1> QED
    BY <1>1, Invariant, PTL

\* What a client was told of a load or a purge is what a start will read,
\* whatever other clients, failures, deaths and restarts do in between, unless
\* the key was left out by a write cut short or a death (lost) or left behind by
\* a persist that threw (kept).
THEOREM AnswersAreSaved == Spec => []AnsweredIsSaved
PROOF
  <1>1. IInv => AnsweredIsSaved
    BY DEF IInv, BufferInv, AnsweredIsSaved, Told, Loaded
  <1> QED
    BY <1>1, Invariant, PTL

\* Between two changes memory and file differ by what a failure has lost or
\* kept, and by calls no client was told had succeeded.
THEOREM DifferencesHaveFaults == Spec => []DifferencesHaveAFault
PROOF
  <1>1. IInv => DifferencesHaveAFault
    BY DEF IInv, BufferInv, DifferencesHaveAFault, Up
  <1> QED
    BY <1>1, Invariant, PTL

\* The observer hears of a success only if the client did, or is gone.
THEOREM SuccessTracesAreTrue == Spec => []SuccessTraceIsTrue
PROOF
  <1>1. IInv => SuccessTraceIsTrue
    BY DEF IInv, TraceInv
  <1> QED
    BY <1>1, Invariant, PTL

\* The loop of run serves at most one connection it accepts after the stop.
THEOREM StopBoundsConnections == Spec => []AtMostOneAfterStop
PROOF
  <1>1. IInv => AtMostOneAfterStop
    BY DEF IInv, LateInv, AtMostOneAfterStop
  <1> QED
    BY <1>1, Invariant, PTL
=============================================================================
