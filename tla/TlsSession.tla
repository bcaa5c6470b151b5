----------------------------- MODULE TlsSession -----------------------------
(***************************************************************************)
(* Who is let in: TlsServer::run and serve_client up to the answer         *)
(* (src/transport/tls_server.cpp) and TlsClient::send_request              *)
(* (src/transport/tls_client.cpp), with the certificates of TlsProfile and *)
(* the descriptors of Sockets. What is asked and answered is the subject   *)
(* of TlsServer and AsmService.                                            *)
(*                                                                         *)
(* As in tests/test_tls.cpp, the server and the initiators are threads of  *)
(* one process and share its descriptors. A client that is not the         *)
(* repository's own runs elsewhere and makes none of its checks, may say   *)
(* nothing and may leave at any time; a server that is not stands for      *)
(* another program behind the address, which shows a certificate and asks  *)
(* for none.                                                               *)
(***************************************************************************)
EXTENDS TlsProfile, Sequences, FiniteSets

CONSTANTS
    Clients,
    Listener, Session,  \* server_socket and client_socket
    Fds,
    ServerConfigs,      \* what the server's files may hold, and its flags
    ClientConfigs,      \* likewise of each client; both with own: BOOLEAN
    MaxReplacements     \* bounds how often the server's files change

ASSUME SessionAssumption ==
    /\ Fds \subseteq Nat
    /\ Listener # Session /\ {Listener, Session} \cap Clients = {}
    /\ MaxReplacements \in Nat
    /\ \A f \in ClientConfigs : DOMAIN f = Clients
    /\ \A s \in ServerConfigs : s.tls10 /\ (s.own \/ (~s.verify /\ s.cert # None))
    /\ None \notin ServerConfigs /\ None \notin Clients
    /\ None \notin {"answered", "failed", "left"}

VARIABLES
    pc,             \* where the server thread is
    files,          \* what the server's configuration reads as now
    ctx,            \* what it was when the context in use was made
    current,        \* the client being served
    backlog,        \* connections the kernel holds for accept
    client,         \* where each client is
    config,         \* its configuration
    conn,           \* its connection
    met,            \* the server's context in its handshake
    result,         \* "answered" or "failed" when send_request is over, or
                    \* "left" by a peer that is not the repository's own
    served,         \* history: clients whose request was read
    replaced,       \* changes of files so far
    open, fd, life  \* the variables of Sockets

Objects == Clients \cup {Listener, Session}
Table == INSTANCE Sockets

server == <<pc, ctx, current, served>>
clients == <<client, config, result>>
wire == <<backlog, conn, met>>
environment == <<files, replaced>>
table == <<open, fd, life>>
vars == <<server, clients, wire, environment, table>>

Running == pc \notin {"stopped", "terminated"}

Own(c) == config[c].own
Left(c) == result[c] = "left"

Init == /\ pc = "boot"
        /\ files \in ServerConfigs
        /\ ctx = None /\ current = None
        /\ backlog = << >>
        /\ client = [c \in Clients |-> "new"]
        /\ config \in ClientConfigs
        /\ conn = [c \in Clients |-> "none"]
        /\ met = [c \in Clients |-> None]
        /\ result = [c \in Clients |-> None]
        /\ served = {}
        /\ replaced = 0
        /\ Table!Init

\* Certificates are renewed, files are missing or do not match for a while. (A
\* change no client will meet is left out.)
ReplaceFiles ==
    /\ replaced < MaxReplacements
    /\ Running /\ \E c \in Clients : client[c] # "done"
    /\ replaced' = replaced + 1
    /\ files' \in ServerConfigs \ {files}
    /\ \A flag \in {"verify", "require", "tls10", "ciphers", "own"} :
          files'[flag] = files[flag]
    /\ UNCHANGED <<server, clients, wire, table>>

\* create_server and create_client return.
Builds(cfg) == cfg.own => ContextBuilds(cfg)

-----------------------------------------------------------------------------
(***************************************************************************)
(* TlsServer::run.                                                         *)
(***************************************************************************)
\* An exception leaves run: std::terminate. Or SIGPIPE, which nobody handles.
Terminate ==
    /\ pc' = "terminated"
    /\ ctx' = None
    /\ UNCHANGED <<current, served, clients, wire, environment, table>>

Boot ==
    /\ pc = "boot"
    /\ Builds(files)
    /\ Table!Create(Listener)
    /\ pc' = "loop"
    /\ UNCHANGED <<ctx, current, served, clients, wire, environment>>

BootFails ==
    /\ pc = "boot"
    /\ ~Builds(files) \/ ~Table!HasRoom
    /\ Terminate

Accept ==
    /\ pc = "loop"
    /\ backlog # << >>
    /\ Table!Create(Session)
    /\ current' = Head(backlog)
    /\ backlog' = Tail(backlog)
    /\ conn' = [conn EXCEPT ![Head(backlog)] = "open"]
    /\ pc' = "context"
    /\ UNCHANGED <<ctx, served, clients, met, environment>>

\* The table is full, the connection was aborted in the queue, the kernel is out
\* of buffers: accept throws, outside the try of run.
AcceptFails ==
    /\ pc = "loop"
    /\ backlog # << >>
    /\ Terminate

\* select returns an error that is not EINTR.
SelectFails ==
    /\ pc = "loop"
    /\ Terminate

\* The stop flag is seen, and run returns: ~Socket of the listener.
Stop ==
    /\ pc = "loop"
    /\ pc' = "stopping"
    /\ UNCHANGED <<ctx, current, served, clients, wire, environment, table>>

\* The kernel ends the connections nobody has accepted.
CloseListener ==
    /\ pc = "stopping"
    /\ Table!SysClose(Listener) \/ Table!Forget(Listener)
    /\ conn' = [c \in Clients |-> IF conn[c] = "queued" THEN "closed" ELSE conn[c]]
    /\ backlog' = << >>
    /\ UNCHANGED <<server, clients, met, environment>>

Stopped ==
    /\ pc = "stopping"
    /\ Table!Destroy(Listener)
    /\ pc' = "stopped"
    /\ UNCHANGED <<ctx, current, served, clients, wire, environment>>

-----------------------------------------------------------------------------
(***************************************************************************)
(* TlsServer::serve_client. An exception is caught by run, which closes    *)
(* the socket as after an answer.                                          *)
(***************************************************************************)

\* Mutant of Leave: the context outlives its session.
LeaveContext ==
    /\ pc' = "closing"
    /\ UNCHANGED <<ctx, current, served, clients, backlog, met, environment, table>>

Leave ==
    /\ pc' = "closing"
    /\ ctx' = None
    /\ UNCHANGED <<current, served, clients, backlog, met, environment, table>>

MakeContext ==
    /\ pc = "context"
    /\ Builds(files)
    /\ ctx' = files
    /\ pc' = "handshake"
    /\ UNCHANGED <<current, served, clients, wire, environment, table>>

ContextFails ==
    /\ pc = "context"
    /\ ~Builds(files)
    /\ Leave
    /\ UNCHANGED conn

\* SSL_accept and SSL_connect, which return or throw together: allow_tls10 keeps
\* its default, and only a TLS 1.3 client returns before the server has looked at
\* its certificate.
Handshake ==
    /\ pc = "handshake"
    /\ HandshakeSucceeds(ctx, config[current])
    /\ conn' = [conn EXCEPT ![current] = "secure"]
    /\ met' = [met EXCEPT ![current] = ctx]
    /\ pc' = "validate"
    /\ UNCHANGED <<ctx, current, served, clients, backlog, environment, table>>

HandshakeFails ==
    /\ pc = "handshake"
    /\ ~HandshakeSucceeds(ctx, config[current]) \/ Left(current)
    /\ conn' = [conn EXCEPT ![current] = "refused"]
    /\ met' = [met EXCEPT ![current] = ctx]
    /\ pc' = "closing"
    /\ ctx' = None
    /\ UNCHANGED <<current, served, clients, backlog, environment, table>>

\* SSL_get1_peer_certificate and validate_certificate_profile
Admitted == ctx.own => ValidProfile(Presented(ctx, config[current]))

\* Mutant of Validate: the profile is left to the peer's own checks.
ValidateNothing ==
    /\ pc = "validate"
    /\ pc' = "read"
    /\ UNCHANGED <<ctx, current, served, clients, wire, environment, table>>

Validate ==
    /\ pc = "validate"
    /\ Admitted
    /\ pc' = "read"
    /\ UNCHANGED <<ctx, current, served, clients, wire, environment, table>>

ValidateFails ==
    /\ pc = "validate"
    /\ ~Admitted
    /\ Leave
    /\ UNCHANGED conn

Read ==
    /\ pc = "read"
    /\ client[current] = "sent"
    /\ served' = served \cup {current}
    /\ pc' = "write"
    /\ UNCHANGED <<ctx, current, clients, wire, environment, table>>

\* Mutant of ReadFails: the read is tried again.
ReadRetries ==
    /\ pc = "read"
    /\ Left(current) \/ client[current] = "done" \/ life[current] = "closing"
    /\ UNCHANGED vars

\* The client has closed, without a request or before it was read.
ReadFails ==
    /\ pc = "read"
    /\ Left(current) \/ client[current] = "done" \/ life[current] = "closing"
    /\ Leave
    /\ UNCHANGED conn

\* The answer, or the BadRequest that is written when the answer fails, leaves
\* the server; a peer that has left does not get it.
Write ==
    /\ pc = "write"
    /\ conn' = [conn EXCEPT ![current] = "replied"]
    /\ Leave

\* Both writes throw: the peer has left.
WriteFails ==
    /\ pc = "write"
    /\ Left(current)
    /\ Leave
    /\ UNCHANGED conn

\* The server writes to a peer that has left: SIGPIPE.
BreakPipe ==
    /\ pc \in {"handshake", "write"}
    /\ Left(current)
    /\ Terminate

\* client_socket.close() and then its destructor, which calls close again.
CloseSession ==
    /\ pc = "closing"
    /\ Table!SysClose(Session) \/ Table!Forget(Session)
    /\ conn' = [conn EXCEPT ![current] = IF @ \in {"open", "secure"} THEN "closed"
                                         ELSE @]
    /\ UNCHANGED <<server, clients, backlog, met, environment>>

SessionClosed ==
    /\ pc = "closing"
    /\ Table!Destroy(Session)
    /\ pc' = "loop"
    /\ current' = None
    /\ UNCHANGED <<ctx, served, clients, wire, environment>>

-----------------------------------------------------------------------------
(***************************************************************************)
(* TlsClient::send_request.                                                *)
(***************************************************************************)
\* create_client and make_tcp_socket; another program opens its descriptor
\* elsewhere.
MakeSocket(c) ==
    /\ client[c] = "new"
    /\ Builds(config[c])
    /\ IF Own(c) THEN Table!Create(c) ELSE UNCHANGED table
    /\ client' = [client EXCEPT ![c] = "socket"]
    /\ UNCHANGED <<server, config, result, wire, environment>>

\* One of the two throws: there is no socket to close.
MakeSocketFails(c) ==
    /\ client[c] = "new"
    /\ Own(c)
    /\ ~Builds(config[c]) \/ ~Table!HasRoom
    /\ client' = [client EXCEPT ![c] = "done"]
    /\ result' = [result EXCEPT ![c] = "failed"]
    /\ UNCHANGED <<server, config, wire, environment, table>>

Connect(c) ==
    /\ client[c] = "socket"
    /\ Table!Holds(Listener, fd[Listener]) /\ fd[Listener] # -1
    /\ client' = [client EXCEPT ![c] = "connected"]
    /\ conn' = [conn EXCEPT ![c] = "queued"]
    /\ backlog' = Append(backlog, c)
    /\ UNCHANGED <<server, config, result, met, environment, table>>

\* send_request returns or throws: the destructor of its socket comes next.
Finish(c, outcome) ==
    /\ client' = [client EXCEPT ![c] = "ending"]
    /\ result' = [result EXCEPT ![c] = outcome]
    /\ UNCHANGED <<server, config, wire, environment, table>>

ConnectFails(c) ==
    /\ client[c] = "socket"
    /\ fd[Listener] = -1 \/ life[Listener] # "live"
    /\ Finish(c, "failed")

\* SSL_connect throws.
HandshakeRefused(c) ==
    /\ client[c] = "connected"
    /\ conn[c] = "refused" \/ (conn[c] = "closed" /\ met[c] = None)
    /\ Finish(c, "failed")

SecuredWith(c) == client[c] = "connected" /\ met[c] # None /\ conn[c] # "refused"

\* validate_certificate_profile of the server's certificate returns.
Trusts(c) == Own(c) => ValidProfile(met[c].cert)

\* Mutant of Send: the request is written before the profile is looked at.
SendFirst(c) ==
    /\ SecuredWith(c)
    /\ client' = [client EXCEPT ![c] = "sent"]
    /\ UNCHANGED <<server, config, result, wire, environment, table>>

\* write_all. The server may have closed meanwhile: then the kernel still takes
\* the bytes, or SSL_write fails, or SIGPIPE ends the process of the client.
Send(c) ==
    /\ SecuredWith(c)
    /\ Trusts(c)
    /\ client' = [client EXCEPT ![c] = "sent"]
    /\ UNCHANGED <<server, config, result, wire, environment, table>>

SendFails(c) ==
    /\ SecuredWith(c)
    /\ Trusts(c)
    /\ conn[c] = "closed"
    /\ Finish(c, "failed")

SendBreaksPipe(c) ==
    /\ SecuredWith(c)
    /\ Trusts(c)
    /\ conn[c] = "closed"
    /\ Own(c)
    /\ Terminate

Distrust(c) ==
    /\ SecuredWith(c)
    /\ ~Trusts(c)
    /\ Finish(c, "failed")

Receive(c) ==
    /\ client[c] = "sent"
    /\ conn[c] = "replied"
    /\ Finish(c, "answered")

ReceiveFails(c) ==
    /\ client[c] = "sent"
    /\ conn[c] = "closed"
    /\ Finish(c, "failed")

\* Another program goes away, before or after it has sent its request.
Depart(c) ==
    /\ client[c] \in {"connected", "sent"}
    /\ ~Own(c)
    /\ result' = [result EXCEPT ![c] = "left"]
    /\ UNCHANGED <<server, client, config, wire, environment, table>>

\* ~Socket
CloseClient(c) ==
    /\ client[c] = "ending"
    /\ Own(c)
    /\ Table!SysClose(c) \/ Table!Forget(c)
    /\ UNCHANGED <<server, clients, wire, environment>>

ClientDone(c) ==
    /\ client[c] = "ending"
    /\ IF Own(c) THEN Table!Destroy(c) ELSE UNCHANGED table
    /\ client' = [client EXCEPT ![c] = "done"]
    /\ UNCHANGED <<server, config, result, wire, environment>>

-----------------------------------------------------------------------------
Server ==
    \/ Boot \/ BootFails
    \/ Accept \/ AcceptFails \/ CloseListener \/ Stopped
    \/ MakeContext \/ ContextFails
    \/ Handshake \/ HandshakeFails \/ Validate \/ ValidateFails
    \/ Read \/ ReadFails \/ Write \/ WriteFails
    \/ CloseSession \/ SessionClosed

Client(c) ==
    /\ pc # "terminated" /\ ~Left(c)
    /\ \/ MakeSocket(c) \/ MakeSocketFails(c)
       \/ Connect(c) \/ ConnectFails(c) \/ HandshakeRefused(c)
       \/ Send(c) \/ SendFails(c) \/ Distrust(c) \/ Depart(c)
       \/ Receive(c) \/ ReceiveFails(c)
       \/ CloseClient(c) \/ ClientDone(c)

\* What ends the process, apart from a failing accept.
Break == \/ SelectFails \/ BreakPipe
         \/ \E c \in Clients : pc # "terminated" /\ SendBreaksPipe(c)

Next == \/ Server
        \/ Stop
        \/ Break
        \/ \E c \in Clients : Client(c)
        \/ ReplaceFiles

\* The server waits for a program that is not the repository's own and that is
\* silent: SSL_accept and SSL_read have no timeout (tls_server.cpp:52, 121).
Blocked == /\ pc \in {"handshake", "read"}
           /\ client[current] = "connected" /\ ~Own(current) /\ ~Left(current)

\* The threads of the repository run. Other programs need do nothing, and
\* nothing need stop the server, break it or replace its files.
Fairness == /\ WF_vars(~Blocked /\ Server)
            /\ \A c \in Clients : WF_vars(Own(c) /\ Client(c))

Spec == Init /\ [][Next]_vars /\ Fairness

-----------------------------------------------------------------------------
\* Exactly the pcs of serve_client serve a client, and those after its context
\* is made have one.
TypeOK ==
    /\ pc \in {"boot", "loop", "context", "handshake", "validate", "read", "write",
               "closing", "stopping", "stopped", "terminated"}
    /\ files \in ServerConfigs /\ ctx \in ServerConfigs \cup {None}
    /\ current \in Clients \cup {None}
    /\ pc \in {"context", "handshake", "validate", "read", "write", "closing"}
          => current # None
    /\ ctx # None <=> pc \in {"handshake", "validate", "read", "write"}
    /\ backlog \in Seq(Clients)
    /\ client \in [Clients -> {"new", "socket", "connected", "sent", "ending",
                               "done"}]
    /\ config \in ClientConfigs
    /\ conn \in [Clients -> {"none", "queued", "open", "secure", "refused",
                             "replied", "closed"}]
    /\ met \in [Clients -> ServerConfigs \cup {None}]
    /\ result \in [Clients -> {"answered", "failed", "left", None}]
    /\ served \subseteq Clients
    /\ replaced \in 0 .. MaxReplacements
    /\ Table!TypeOK

\* The descriptors: the properties of Sockets, for the objects of the program.
OwnedOnce == Table!OwnedOnce

\* Once all have closed what they opened, nothing is left open.
NoLeak == Table!NoLeak

\* The request of a peer is read only with a certificate of the profile, issued
\* by the authority of the session's context, whatever verify_peer and
\* require_peer_certificate say, and whatever the peer checks itself
\* (tls_server.cpp:114-130, tls_profile.cpp:51-58).
OfProfile(cert) ==
    cert # None /\ cert.type = "RSA" /\ cert.bits = 2048 /\ cert.exponent = 65537
Trustworthy(cert, ca) == OfProfile(cert) /\ cert.issuer = ca

ServedAreAdmitted ==
    files.own => \A c \in served : Trustworthy(config[c].cert, met[c].ca)

\* An initiator writes its request, and the keys in it, only to a server with a
\* certificate of the profile from the initiator's authority, unless verify_peer
\* is off (tls_client.cpp:77-82).
KeysGoToTrusted ==
    \A c \in Clients :
        client[c] = "sent" /\ Own(c) =>
            /\ OfProfile(met[c].cert)
            /\ config[c].verify => met[c].cert.issuer = config[c].ca

\* A session that got as far as the handshake, and whose client does not leave,
\* ends with an answer exactly when the two parties are fit for each other by the
\* files of that session: files replaced before or after it make no difference,
\* and neither does the order in which client and server find out.
Fit(s, c) ==
    /\ c.tls10 \/ "TLS 1.0" \in Versions
    /\ s.ciphers \cap c.ciphers # {}
    /\ c.verify => s.cert.issuer = c.ca
    /\ s.own => s.verify /\ Trustworthy(c.cert, s.ca)
    /\ c.own => OfProfile(s.cert)

AnsweredIffFit ==
    \A c \in Clients :
        (result[c] \in {"answered", "failed"} /\ met[c] # None) =>
            (result[c] = "answered" <=> Fit(met[c], config[c]))

\* A connection of the repository's initiator that the kernel has taken comes to
\* an end, for any configurations, at any change of files and whatever other
\* peers do, unless the process dies or one of them keeps the only thread of the
\* server waiting for ever.
ConnectionsEnd ==
    []<>~Blocked =>
        \A c \in Clients :
            client[c] = "connected" /\ Own(c)
                ~> (result[c] # None \/ pc = "terminated")
=============================================================================
