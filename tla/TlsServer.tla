------------------------------ MODULE TlsServer ------------------------------
(***************************************************************************)
(* The responder process: TlsServer::run and serve_client                  *)
(* (src/transport/tls_server.cpp) in front of a service whose LE keys are  *)
(* in a JSONL file, the initiators that connect to it                      *)
(* (src/transport/tls_client.cpp), the signal that stops it, its death and *)
(* its restart (src/apps/asm_responder.cpp).                               *)
(*                                                                         *)
(* The server has one thread: it accepts a connection, blocks in the       *)
(* handshake and in one read, handles the request, writes one answer and   *)
(* closes. The stop flag is looked at between two connections only. A      *)
(* client makes one connection and sends one request on it.                *)
(*                                                                         *)
(* The key buffer is JsonlLEKeyStore with sets of ids for vectors and      *)
(* files, its failing opens, short writes and deaths included. Of the      *)
(* commands, those that change the buffer are here, one that does not      *)
(* ("query": every answer AsmService gives without changing a key) and one *)
(* that is refused ("bad").                                                *)
(***************************************************************************)
EXTENDS Naturals, Sequences, FiniteSets

CONSTANTS Clients, KeyIds, Capacity,
          MaxCrashes,   \* bounds the number of deaths
          None

Answers == {"successful", "failed", "bad"}

ASSUME ServerAssumption == /\ Capacity \in Nat
                           /\ MaxCrashes \in Nat
                           /\ None \notin Clients \cup Answers

VARIABLES pc,           \* where the server thread is
          current,      \* the client it serves
          backlog,      \* connections the kernel holds for accept
          stop,         \* stop_flag
          mem,          \* the ids in memory
          disk,         \* the ids a start would read from the file
          torn,         \* the file has a line no start can read
          lost,         \* history: ids that a write which was cut short, or a
                        \* death before it, has left out of the file
          kept,         \* history: ids that a persist which threw has left in
                        \* the file after memory had given them up
          answer,       \* result.response, while it is not written
          client,       \* where each client is
          request,      \* what it sent
          got,          \* the answer it received
          trace,        \* what the observer was told of its session
          last,         \* history: the client whose call last decided an id
          late,         \* history: connections accepted since the stop
          crashes       \* deaths so far

thread  == <<pc, current, answer>>
file    == <<disk, torn, lost, kept>>
buffer  == <<mem, file, last>>
network == <<backlog, client, request, got>>
vars == <<thread, buffer, network, stop, trace, late, crashes>>

Requests == [op : {"load", "purge"}, id : KeyIds]
              \cup [op : {"purge_all", "query", "bad"}, id : {None}]

Up == pc \notin {"down", "stopped"}

Init == /\ pc = "check"
        /\ current = None
        /\ backlog = << >>
        /\ stop = FALSE
        /\ mem = {}
        /\ disk = {}
        /\ torn = FALSE
        /\ lost = {}
        /\ kept = {}
        /\ answer = None
        /\ client = [c \in Clients |-> "new"]
        /\ request = [c \in Clients |-> None]
        /\ got = [c \in Clients |-> None]
        /\ trace = [c \in Clients |-> None]
        /\ last = [id \in KeyIds |-> None]
        /\ late = 0
        /\ crashes = 0

-----------------------------------------------------------------------------
(***************************************************************************)
(* The clients: send_request goes through connect, SSL_connect, SSL_write  *)
(* and SSL_read without a timeout, and may be interrupted at any of them.  *)
(***************************************************************************)
Connect(c) ==
    /\ Up
    /\ client[c] = "new"
    /\ client' = [client EXCEPT ![c] = "connected"]
    /\ backlog' = Append(backlog, c)
    /\ UNCHANGED <<thread, buffer, request, got, stop, trace, late, crashes>>

\* The client's part of the handshake, with a certificate the server accepts
\* or one it does not (or none).
Hello(c) ==
    /\ client[c] = "connected"
    /\ \E s \in {"hello", "badHello"} : client' = [client EXCEPT ![c] = s]
    /\ UNCHANGED <<thread, buffer, backlog, request, got, stop, trace, late,
                   crashes>>

Send(c) ==
    /\ client[c] = "secured"
    /\ client' = [client EXCEPT ![c] = "sent"]
    /\ \E r \in Requests : request' = [request EXCEPT ![c] = r]
    /\ UNCHANGED <<thread, buffer, backlog, got, stop, trace, late, crashes>>

\* The client is interrupted; the server may or may not read what it has sent.
Vanish(c) ==
    /\ client[c] \in {"connected", "hello", "secured", "sent"}
    /\ client' = [client EXCEPT ![c] = "gone"]
    /\ UNCHANGED <<thread, buffer, backlog, request, got, stop, trace, late,
                   crashes>>

-----------------------------------------------------------------------------
(***************************************************************************)
(* The loop of run.                                                        *)
(***************************************************************************)

\* Mutant: the flag is never looked at.
CheckIgnoresStop ==
    /\ pc = "check"
    /\ pc' = "select"
    /\ UNCHANGED <<current, answer, buffer, network, stop, trace, late, crashes>>

\* `while (!stop_flag.load())`. The kernel drops the backlog with the socket.
Check ==
    /\ pc = "check"
    /\ IF stop
       THEN /\ pc' = "stopped"
            /\ client' = [c \in Clients |->
                            IF \E i \in DOMAIN backlog : backlog[i] = c
                            THEN IF client[c] = "gone" THEN "gone" ELSE "broken"
                            ELSE client[c]]
            /\ backlog' = << >>
       ELSE pc' = "select" /\ UNCHANGED <<client, backlog>>
    /\ UNCHANGED <<current, answer, buffer, request, got, stop, trace, late,
                   crashes>>

\* Mutant: after an interrupted select the loop selects again.
SelectRetries ==
    /\ pc = "select"
    /\ stop \/ backlog = << >>
    /\ UNCHANGED vars

\* select returns because of a signal, or after 200 ms without a connection.
SelectReturns ==
    /\ pc = "select"
    /\ stop \/ backlog = << >>
    /\ pc' = "check"
    /\ UNCHANGED <<current, answer, buffer, network, stop, trace, late, crashes>>

Accept ==
    /\ pc = "select"
    /\ backlog # << >>
    /\ current' = Head(backlog)
    /\ backlog' = Tail(backlog)
    /\ pc' = "handshake"
    /\ late' = IF stop THEN late + 1 ELSE late
    /\ UNCHANGED <<answer, buffer, client, request, got, stop, trace, crashes>>

-----------------------------------------------------------------------------
(***************************************************************************)
(* serve_client.                                                           *)
(***************************************************************************)

\* Mutant: the result of the session before stays.
CloseKeepsAnswer(c) ==
    /\ client' = [client EXCEPT ![c] = IF @ \in {"answered", "gone"} THEN @
                                       ELSE "broken"]
    /\ pc' = "check"
    /\ current' = None
    /\ UNCHANGED answer

\* The connection is closed; a client that waits for an answer finds out.
Close(c) ==
    /\ client' = [client EXCEPT ![c] = IF @ \in {"answered", "gone"} THEN @
                                       ELSE "broken"]
    /\ pc' = "check"
    /\ current' = None
    /\ answer' = None

\* An exception leaves serve_client: run tells the observer a SessionTrace
\* that holds nothing but the note and its defaults.
SessionFails ==
    /\ Close(current)
    /\ trace' = [trace EXCEPT ![current] =
                    [command |-> "bad_request", status |-> "successful"]]
    /\ UNCHANGED <<buffer, backlog, request, got, stop, late, crashes>>

\* create_server throws: the certificate, the key or the authority is read again
\* for each session and may be missing or wrong by then.
ContextFails ==
    /\ pc = "handshake"
    /\ SessionFails

\* SSL_accept, validate_certificate_profile and read_peer_identity.
Handshake ==
    /\ pc = "handshake"
    /\ client[current] = "hello"
    /\ client' = [client EXCEPT ![current] = "secured"]
    /\ pc' = "read"
    /\ UNCHANGED <<current, answer, buffer, backlog, request, got, stop, trace,
                   late, crashes>>

\* Mutant: a client that leaves during the handshake is waited for.
HandshakeFailsOnAlert ==
    /\ pc = "handshake"
    /\ client[current] = "badHello"
    /\ SessionFails

HandshakeFails ==
    /\ pc = "handshake"
    /\ client[current] \in {"badHello", "gone"}
    /\ SessionFails

Read ==
    /\ pc = "read"
    /\ request[current] # None
    /\ pc' = "handle"
    /\ UNCHANGED <<current, answer, buffer, network, stop, trace, late, crashes>>

ReadFails ==
    /\ pc = "read"
    /\ client[current] = "gone"
    /\ SessionFails

(***************************************************************************)
(* handle_request: one action per outcome.                                 *)
(***************************************************************************)
Req == request[current]

\* The handler returns without a change; the next step writes the answer.
Respond(a) ==
    /\ answer' = a
    /\ pc' = "write"
    /\ UNCHANGED <<current, buffer, network, stop, trace, late, crashes>>

\* An exception: handle_decode_failure, and a second write.
HandleThrows ==
    /\ answer' = "bad"
    /\ pc' = "writeBad"
    /\ UNCHANGED <<current, buffer, network, stop, trace, late, crashes>>

\* The vector has changed; persist comes next.
Change(ids, decided) ==
    /\ mem' = ids
    /\ last' = [id \in KeyIds |-> IF id \in decided THEN current ELSE last[id]]
    /\ pc' = "persist"
    /\ UNCHANGED <<current, answer, file, network, stop, trace, late, crashes>>

\* A decoder throws, or the request id is zero and the service refuses it.
HandleBad == pc = "handle" /\ Req.op = "bad" /\ (HandleThrows \/ Respond("bad"))

HandleQuery == pc = "handle" /\ Req.op = "query" /\ Respond("successful")

HandleLoad ==
    /\ pc = "handle"
    /\ Req.op = "load"
    /\ IF Cardinality(mem \cup {Req.id}) > Capacity
       THEN Respond("failed")
       ELSE Change(mem \cup {Req.id}, {Req.id})

\* Mutant: the key is erased and the answer given without a persist.
PurgeInMemory ==
    /\ pc = "handle"
    /\ Req.op = "purge"
    /\ mem' = mem \ {Req.id}
    /\ last' = [last EXCEPT ![Req.id] = current]
    /\ answer' = "successful"
    /\ pc' = "write"
    /\ UNCHANGED <<current, file, network, stop, trace, late, crashes>>

HandlePurge ==
    /\ pc = "handle"
    /\ Req.op = "purge"
    /\ Req.id \in mem
    /\ Change(mem \ {Req.id}, {Req.id})

\* The key is not in memory: the answer is a success with NoKeyID, and the file
\* is left alone, even if a persist that threw has left the key there.
HandlePurgeMissing ==
    /\ pc = "handle"
    /\ Req.op = "purge"
    /\ Req.id \notin mem
    /\ last' = [last EXCEPT ![Req.id] = current]
    /\ answer' = "successful"
    /\ pc' = "write"
    /\ UNCHANGED <<current, mem, file, network, stop, trace, late, crashes>>

HandlePurgeAll ==
    /\ pc = "handle"
    /\ Req.op = "purge_all"
    /\ Change({}, KeyIds)

PersistOpen ==
    /\ pc = "persist"
    /\ disk' = {}
    /\ torn' = FALSE
    /\ pc' = "flush"
    /\ UNCHANGED <<current, answer, mem, last, lost, kept, network, stop, trace,
                   late, crashes>>

\* Mutant: a file that does not open is ignored, like a write that fails.
PersistIgnoresOpen == pc = "persist" /\ Respond("successful")

PersistThrows ==
    /\ pc = "persist"
    /\ kept' = kept \cup (disk \ mem)
    /\ answer' = "bad"
    /\ pc' = "writeBad"
    /\ UNCHANGED <<current, mem, last, disk, torn, lost, network, stop, trace,
                   late, crashes>>

\* The destructor of the ofstream writes the lines, of which a start will read
\* those of the ids `read`. Nothing looks at how far it got.
Flush(read) ==
    /\ pc = "flush"
    /\ disk' = read
    /\ lost' = (lost \cup mem) \ read
    /\ kept' = kept \cap mem
    /\ answer' = "successful"
    /\ pc' = "write"
    /\ UNCHANGED <<current, mem, last, network, stop, trace, late, crashes>>

PersistWrite == Flush(mem) /\ UNCHANGED torn

\* The disk is full: the lines end early, between two or inside one.
PersistShort ==
    /\ mem # {}
    /\ \/ \E read \in SUBSET mem \ {mem} : Flush(read) /\ UNCHANGED torn
       \/ Flush({}) /\ torn' = TRUE

(***************************************************************************)
(* The answer. A write to a client that is gone may succeed or fail.       *)
(***************************************************************************)
Deliver(c, a) ==
    IF client[c] = "gone" THEN UNCHANGED <<client, got>>
    ELSE /\ client' = [client EXCEPT ![c] = "answered"]
         /\ got' = [got EXCEPT ![c] = a]

Write ==
    /\ pc \in {"write", "writeBad"}
    /\ Deliver(current, answer)
    /\ pc' = "report"
    /\ UNCHANGED <<current, answer, buffer, backlog, request, stop, trace, late,
                   crashes>>

WriteFails ==
    /\ pc = "write"
    /\ client[current] = "gone"
    /\ HandleThrows

SecondWriteFails ==
    /\ pc = "writeBad"
    /\ client[current] = "gone"
    /\ SessionFails

\* Mutant: the status of the trace is left at its default.
ReportDefault ==
    /\ pc = "report"
    /\ trace' = [trace EXCEPT ![current] = [command |-> Req.op,
                                           status |-> "successful"]]
    /\ Close(current)
    /\ UNCHANGED <<buffer, backlog, request, got, stop, late, crashes>>

\* The observer is told the command of the request, if the label was decoded: a
\* request that is refused later keeps it.
Commands == IF Req.op = "bad" THEN {"bad_request", "query"} ELSE {Req.op}

Report ==
    /\ pc = "report"
    /\ \E command \in Commands :
            trace' = [trace EXCEPT ![current] =
                        [command |-> command,
                         status |-> IF answer = "bad" THEN "invalid" ELSE answer]]
    /\ Close(current)
    /\ UNCHANGED <<buffer, backlog, request, got, stop, late, crashes>>

-----------------------------------------------------------------------------
(***************************************************************************)
(* The process.                                                            *)
(***************************************************************************)
Signal ==
    /\ Up
    /\ ~stop
    /\ stop' = TRUE
    /\ UNCHANGED <<thread, buffer, network, trace, late, crashes>>

\* The process is killed, or ends itself: accept or select has thrown out of run,
\* or a client was gone when the server wrote to it and SIGPIPE is not handled.
\* Between the truncation of the file and the write of its lines, the death
\* loses every key, whoever loaded it.
Crash ==
    /\ Up
    /\ crashes < MaxCrashes
    /\ crashes' = crashes + 1
    /\ pc' = "down"
    /\ current' = None
    /\ answer' = None
    /\ mem' = {}
    /\ backlog' = << >>
    /\ client' = [c \in Clients |->
                    IF client[c] \in {"new", "answered", "gone"} THEN client[c]
                    ELSE "broken"]
    /\ lost' = IF pc = "flush" THEN lost \cup mem ELSE lost
    /\ kept' = kept \cap disk
    /\ UNCHANGED <<disk, torn, last, request, got, stop, trace, late>>

\* The operator starts the responder again: the store reads its file, unless a
\* torn line makes its constructor throw. (A start no client will use is left
\* out.)
Restart ==
    /\ pc \in {"down", "stopped"}
    /\ ~torn
    /\ \E c \in Clients : client[c] = "new"
    /\ pc' = "check"
    /\ mem' = disk
    /\ stop' = FALSE
    /\ late' = 0
    /\ UNCHANGED <<current, answer, file, last, network, trace, crashes>>

Server ==
    \/ Check \/ SelectReturns \/ Accept
    \/ Handshake \/ HandshakeFails \/ Read \/ ReadFails
    \/ HandleBad \/ HandleQuery \/ HandleLoad
    \/ HandlePurge \/ HandlePurgeMissing \/ HandlePurgeAll
    \/ PersistOpen \/ PersistThrows \/ PersistWrite \/ PersistShort
    \/ Write \/ WriteFails \/ SecondWriteFails \/ Report

Next ==
    \/ Server
    \/ ContextFails
    \/ \E c \in Clients : Connect(c) \/ Hello(c) \/ Send(c) \/ Vanish(c)
    \/ Signal
    \/ Crash
    \/ Restart

\* The thread of the server runs, and a client that has connected goes on: its
\* code waits for nothing but the server. It need not connect, no context need
\* fail, and nothing need restart the responder.
Fairness == /\ WF_vars(Server)
            /\ \A c \in Clients : WF_vars(Hello(c)) /\ WF_vars(Send(c))

Spec == Init /\ [][Next]_vars /\ Fairness

-----------------------------------------------------------------------------
Pcs == {"down", "stopped", "check", "select", "handshake", "read", "handle",
        "persist", "flush", "write", "writeBad", "report"}

\* Exactly the pcs of serve_client serve a client, and exactly those that
\* follow the handler hold an answer.
TypeOK ==
    /\ pc \in Pcs
    /\ current \in Clients \cup {None}
    /\ current = None <=> pc \in {"down", "stopped", "check", "select"}
    /\ backlog \in Seq(Clients)
    /\ stop \in BOOLEAN
    /\ mem \subseteq KeyIds /\ disk \subseteq KeyIds
    /\ torn \in BOOLEAN /\ (torn => disk = {})
    /\ lost \subseteq KeyIds /\ kept \subseteq KeyIds
    /\ answer \in Answers \cup {None}
    /\ answer # None <=> pc \in {"write", "writeBad", "report"}
    /\ client \in [Clients -> {"new", "connected", "hello", "badHello", "secured",
                               "sent", "answered", "gone", "broken"}]
    /\ request \in [Clients -> Requests \cup {None}]
    /\ got \in [Clients -> Answers \cup {None}]
    /\ last \in [KeyIds -> Clients \cup {None}]
    /\ late \in Nat /\ crashes \in 0 .. MaxCrashes

\* The call that last decided the id, a load or a purge, found its key or not,
\* was answered "successful".
Told(id) == last[id] # None /\ got[last[id]] = "successful"

\* What a client was told of a key is what a start will read, through other
\* clients' calls and failures, the death of the process and its restart, with
\* two exceptions: a key it loaded is missing if a later or the same write was
\* cut short, or the process died before it; a key it purged is back if a
\* persist that threw had left it in the file.
AnsweredIsSaved ==
    pc # "flush" =>
        \A id \in KeyIds : Told(id) =>
            IF request[last[id]].op = "load" THEN id \in disk \cup lost
                                             ELSE id \notin disk \/ id \in kept

\* Between two changes, memory and file differ only where something failed: a
\* key that is in memory alone was left out by a write that was cut short, or
\* its load was not answered "successful"; a key that is in the file alone was
\* left there by a persist that threw.
DifferencesHaveAFault ==
    pc \in {"check", "select", "handshake", "read", "handle"} =>
        /\ \A id \in mem \ disk : id \in lost \/ (last[id] # None /\ ~Told(id))
        /\ disk \ mem \subseteq kept

\* The observer never hears "successful" of a command whose client is waiting
\* or was told otherwise.
SuccessTraceIsTrue ==
    \A c \in Clients :
        trace[c] # None /\ trace[c].status = "successful"
          /\ trace[c].command # "bad_request"
            => got[c] = "successful" \/ client[c] = "gone"

\* After the stop at most the connection that select had already reported is
\* still served.
AtMostOneAfterStop == late <= 1

\* A connection the kernel has taken is answered or ended, whatever the other
\* clients do, unless its client goes away.
ConnectionsEnd ==
    \A c \in Clients :
        client[c] = "connected"
            ~> client[c] \in {"answered", "broken", "gone"}

\* A stop is obeyed, even in the middle of a session.
StopIsObeyed == stop ~> ~Up

\* docs/iso26430-6-asm-implementation.md:50-56 lists what is answered with
\* BadRequest: requests that do not decode, or whose id is zero.
BadRequestMeansIllegal ==
    \A c \in Clients : got[c] = "bad" => request[c].op = "bad"
=============================================================================
