--------------------------- MODULE TlsSessionProofs ---------------------------
(***************************************************************************)
(* The threads of TlsSession, for any number of clients, configurations,   *)
(* changes of files and descriptors.                                       *)
(***************************************************************************)
EXTENDS TlsSession, TLAPS

\* The class with the theorems about it; Table of TlsSession has its definitions.
Class == INSTANCE SocketsProofs

-----------------------------------------------------------------------------
(***************************************************************************)
(* What the threads do to sockets is what the class Socket offers.         *)
(***************************************************************************)
LEMMA MembersAreObjects ==
  /\ Listener \in Objects
  /\ Session \in Objects
  /\ \A c \in Clients : c \in Objects
PROOF
  BY DEF Objects

\* The server touches descriptors only as a Socket does.
LEMMA ServerUsesSockets == Server => [Table!Next]_table
PROOF
  <1> SUFFICES ASSUME Server PROVE [Table!Next]_table
    OBVIOUS
  <1>1. CASE Boot \/ Accept \/ CloseListener \/ Stopped \/ CloseSession \/ SessionClosed
    BY <1>1, MembersAreObjects
    DEF Boot, Accept, CloseListener, Stopped, CloseSession, SessionClosed, Table!Next
  <1>2. CASE ~(Boot \/ Accept \/ CloseListener \/ Stopped \/ CloseSession \/ SessionClosed)
    BY <1>2
    DEF Server, BootFails, AcceptFails, Terminate, MakeContext, ContextFails, Leave,
        Handshake, HandshakeFails, Validate, ValidateFails, Read, ReadFails, Write,
        WriteFails, table
  <1> QED
    BY <1>1, <1>2

\* So does each client.
LEMMA ClientUsesSockets ==
  ASSUME NEW c \in Clients, Client(c) PROVE [Table!Next]_table
PROOF
  <1>1. CASE MakeSocket(c) \/ CloseClient(c) \/ ClientDone(c)
    BY <1>1, MembersAreObjects DEF MakeSocket, CloseClient, ClientDone, Table!Next
  <1>2. CASE ~(MakeSocket(c) \/ CloseClient(c) \/ ClientDone(c))
    BY <1>2
    DEF Client, MakeSocketFails, Connect, ConnectFails, HandshakeRefused, Send,
        SendFails, Distrust, Receive, ReceiveFails, Depart, Finish, table
  <1> QED
    BY <1>1, <1>2

\* And so every step.
LEMMA StepUsesSockets == [Next]_vars => [Table!Next]_table
PROOF
  BY ServerUsesSockets, ClientUsesSockets
  DEF Next, Stop, Break, SelectFails, BreakPipe, SendBreaksPipe, Terminate,
      ReplaceFiles, vars, table

\* The invariant of the class, for the objects of the program.
LEMMA SocketsInv == Spec => []Class!IInv
PROOF
  <1>1. Init => Class!IInv
    BY Class!InitInv, SessionAssumption
    DEF Init, Table!Init, Class!Init, Table!NoFd, Class!NoFd
  <1>2. Class!IInv /\ [Next]_vars => Class!IInv'
    <2>1. Table!Next => Class!Next
      BY DEF Table!Next, Class!Next, Table!Create, Class!Create,
             Table!IsLowestFree, Class!IsLowestFree, Table!SysClose, Class!SysClose,
             Table!Forget, Class!Forget, Table!Destroy, Class!Destroy,
             Table!MoveConstruct, Class!MoveConstruct,
             Table!MoveAssign, Class!MoveAssign, Table!NoFd, Class!NoFd
    <2> QED
      BY <2>1, Class!StepInv, StepUsesSockets DEF table, Class!table
  <1> QED
    BY <1>1, <1>2, PTL DEF Spec
-----------------------------------------------------------------------------
(***************************************************************************)
(* The checks of both parties, each as a predicate of the two              *)
(* configurations that met.                                                *)
(***************************************************************************)
Admits(s, c) == s.own => ValidProfile(Presented(s, c))
Trusting(s, c) == c.own => ValidProfile(s.cert)
Agree(s, c) == HandshakeSucceeds(s, c) /\ Admits(s, c) /\ Trusting(s, c)

\* The two are fit for each other exactly when the handshake and the checks of
\* both parties pass.
LEMMA FitIsAgreement ==
  ASSUME NEW s \in ServerConfigs, Builds(s), NEW c
  PROVE  Fit(s, c) <=> Agree(s, c)
PROOF
  <1>1. s.tls10 /\ (s.own \/ (~s.verify /\ s.cert # None))
    BY SessionAssumption
  <1>2. s.cert # None
    BY <1>1 DEF Builds, ContextBuilds, ValidProfile
  <1>3. \A x : ValidProfile(x) <=> OfProfile(x)
    BY DEF ValidProfile, OfProfile
  <1>4. VersionsOf(s) \cap VersionsOf(c) # {} <=> (c.tls10 \/ "TLS 1.0" \in Versions)
    BY <1>1 DEF VersionsOf
  <1>5. PeerAccepted(c, FALSE, s.cert) <=> (c.verify => s.cert.issuer = c.ca)
    BY <1>2 DEF PeerAccepted
  <1>6. CASE s.own
    <2>1. ValidProfile(Presented(s, c)) <=> s.verify /\ OfProfile(c.cert)
      BY <1>3 DEF Presented, OfProfile
    <2>2. s.verify /\ OfProfile(c.cert) =>
             (PeerAccepted(s, TRUE, Presented(s, c)) <=> c.cert.issuer = s.ca)
      BY DEF PeerAccepted, Presented, OfProfile
    <2> QED
      BY <1>3, <1>4, <1>5, <1>6, <2>1, <2>2
      DEF Fit, Agree, Admits, Trusting, HandshakeSucceeds, Trustworthy
  <1>7. CASE ~s.own
    <2>1. PeerAccepted(s, TRUE, Presented(s, c))
      BY <1>1, <1>7 DEF PeerAccepted
    <2> QED
      BY <1>3, <1>4, <1>5, <1>7, <2>1
      DEF Fit, Agree, Admits, Trusting, HandshakeSucceeds
  <1> QED
    BY <1>6, <1>7

-----------------------------------------------------------------------------
(***************************************************************************)
(* The inductive invariant.                                                *)
(***************************************************************************)

\* Where the server is: connections are served one at a time, each once, and the
\* steps of a session come after its checks.
PhaseInv ==
  /\ \A i \in DOMAIN backlog : conn[backlog[i]] = "queued"
  /\ \A i, j \in DOMAIN backlog : backlog[i] = backlog[j] => i = j
  /\ pc \in {"context", "handshake"} => conn[current] = "open"
  /\ pc \in {"validate", "read", "write"} =>
        /\ conn[current] = "secure"
        /\ met[current] = ctx
  /\ pc \in {"read", "write"} => Admits(ctx, config[current])
  /\ pc = "write" => current \in served
  /\ ctx # None => Builds(ctx) /\ (files.own => ctx.own)

\* What a connection remembers of its handshake.
MetInv ==
  \A c \in Clients :
    /\ met[c] # None =>
          /\ conn[c] \in {"secure", "refused", "replied", "closed"}
          /\ Builds(met[c])
          /\ files.own => met[c].own
          /\ conn[c] = "refused" => ~HandshakeSucceeds(met[c], config[c]) \/ Left(c)
          /\ conn[c] # "refused" => HandshakeSucceeds(met[c], config[c])
    /\ conn[c] \in {"secure", "refused", "replied"} => met[c] # None

\* Where a client is, and what it and the server have looked at by then.
ClientInv ==
  \A c \in Clients :
    /\ client[c] \in {"new", "socket"} => conn[c] = "none"
    /\ conn[c] \in {"queued", "open"} => client[c] = "connected"
    /\ client[c] = "sent" =>
          met[c] # None /\ conn[c] # "refused" /\ Trusting(met[c], config[c])
    /\ c \in served =>
          /\ met[c] # None /\ conn[c] \in {"secure", "replied", "closed"}
          /\ Admits(met[c], config[c]) /\ Trusting(met[c], config[c])
    /\ life[c] = "closing" => client[c] = "ending" /\ Own(c)

\* How an exchange ends, seen from the two sides.
OutcomeInv ==
  /\ \A c \in Clients :
       /\ result[c] # None <=> client[c] \in {"ending", "done"} \/ Left(c)
       /\ result[c] = "answered" => conn[c] = "replied"
       /\ result[c] = "failed" /\ met[c] # None => ~Agree(met[c], config[c])
       /\ conn[c] = "replied" => Agree(met[c], config[c])
       /\ conn[c] = "closed" /\ met[c] # None =>
             ~Agree(met[c], config[c]) \/ Left(c)
  /\ pc = "closing" /\ conn[current] = "secure" =>
        ~Agree(met[current], config[current]) \/ Left(current)

\* The inductive invariant.
IInv == TypeOK /\ PhaseInv /\ MetInv /\ ClientInv /\ OutcomeInv

\* The process starts with no connection and no session.
LEMMA InitIInv == Init => IInv
PROOF
  <1> SUFFICES ASSUME Init PROVE IInv
    OBVIOUS
  <1>1. TypeOK
    BY SessionAssumption DEF Init, TypeOK, Table!Init, Table!TypeOK, Table!NoFd
  <1>2. PhaseInv
    BY DEF Init, PhaseInv
  <1>3. MetInv
    BY DEF Init, MetInv
  <1>4. ClientInv
    BY MembersAreObjects DEF Init, ClientInv, Table!Init
  <1>5. OutcomeInv
    BY SessionAssumption DEF Init, OutcomeInv, Left
  <1> QED
    BY <1>1, <1>2, <1>3, <1>4, <1>5 DEF IInv

-----------------------------------------------------------------------------
(***************************************************************************)
(* Every step preserves it: one step of the proof for each action.         *)
(***************************************************************************)

\* The steps of the server keep the invariant.
LEMMA ServerInv == ASSUME IInv, Table!TypeOK', Server PROVE IInv'
PROOF
  <1> USE SessionAssumption, MembersAreObjects
      DEF IInv, TypeOK, Table!TypeOK, PhaseInv, MetInv, ClientInv, OutcomeInv,
          Own, Left, server, clients, wire, environment, table
  <1>1. CASE Boot
    BY <1>1 DEF Boot, Table!Create
  <1>2. CASE BootFails
    BY <1>2 DEF BootFails, Terminate
  <1>3. CASE Accept
    BY <1>3 DEF Accept, Table!Create
  <1>4. CASE AcceptFails
    BY <1>4 DEF AcceptFails, Terminate
  <1>5. CASE CloseListener
    BY <1>5 DEF CloseListener, Table!SysClose, Table!Forget
  <1>6. CASE Stopped
    BY <1>6 DEF Stopped, Table!Destroy
  <1>7. CASE MakeContext
    BY <1>7 DEF MakeContext
  <1>8. CASE ContextFails
    BY <1>8 DEF ContextFails, Leave
  <1>9. CASE Handshake
    BY <1>9 DEF Handshake
  <1>10. CASE HandshakeFails
    BY <1>10 DEF HandshakeFails, Agree
  <1>11. CASE Validate
    BY <1>11 DEF Validate, Admitted, Admits
  <1>12. CASE ValidateFails
    BY <1>12 DEF ValidateFails, Leave, Admitted, Admits, Agree
  <1>13. CASE Read
    BY <1>13 DEF Read, Trusting
  <1>14. CASE ReadFails
    BY <1>14 DEF ReadFails, Leave
  <1>15. CASE Write
    BY <1>15 DEF Write, Leave, Agree
  <1>16. CASE WriteFails
    BY <1>16 DEF WriteFails, Leave
  <1>17. CASE CloseSession
    BY <1>17 DEF CloseSession, Table!SysClose, Table!Forget
  <1>18. CASE SessionClosed
    BY <1>18 DEF SessionClosed, Table!Destroy
  <1> QED
    BY <1>1, <1>2, <1>3, <1>4, <1>5, <1>6, <1>7, <1>8, <1>9,
       <1>10, <1>11, <1>12, <1>13, <1>14, <1>15, <1>16, <1>17, <1>18 DEF Server

\* So do the steps of each client.
LEMMA ClientStepInv ==
  ASSUME IInv, Table!TypeOK', NEW c \in Clients, Client(c) PROVE IInv'
PROOF
  <1> USE SessionAssumption, MembersAreObjects
      DEF IInv, TypeOK, Table!TypeOK, PhaseInv, MetInv, ClientInv, OutcomeInv,
          Own, Left, server, clients, wire, environment, table
  <1>1. ~Left(c)
    BY DEF Client
  <1>2. CASE MakeSocket(c)
    BY <1>2 DEF MakeSocket, Table!Create
  <1>3. CASE MakeSocketFails(c)
    BY <1>3 DEF MakeSocketFails
  <1>4. CASE Connect(c)
    BY <1>1, <1>4 DEF Connect
  <1>5. CASE ConnectFails(c)
    BY <1>1, <1>5 DEF ConnectFails, Finish
  <1>6. CASE HandshakeRefused(c)
    BY <1>1, <1>6 DEF HandshakeRefused, Finish, Agree
  <1>7. CASE Send(c)
    BY <1>1, <1>7 DEF Send, SecuredWith, Trusts, Trusting
  <1>8. CASE SendFails(c)
    BY <1>1, <1>8 DEF SendFails, SecuredWith, Trusts, Finish, Trusting
  <1>9. CASE Depart(c)
    BY <1>1, <1>9 DEF Depart
  <1>10. CASE Distrust(c)
    BY <1>1, <1>10 DEF Distrust, SecuredWith, Trusts, Finish, Trusting, Agree
  <1>11. CASE Receive(c)
    BY <1>1, <1>11 DEF Receive, Finish
  <1>12. CASE ReceiveFails(c)
    BY <1>1, <1>12 DEF ReceiveFails, Finish
  <1>13. CASE CloseClient(c)
    BY <1>13 DEF CloseClient, Table!SysClose, Table!Forget
  <1>14. CASE ClientDone(c)
    <2>1. CASE Own(c)
      BY <1>14, <2>1 DEF ClientDone, Table!Destroy
    <2>2. CASE ~Own(c)
      BY <1>14, <2>2 DEF ClientDone
    <2> QED
      BY <2>1, <2>2
  <1> QED
    BY <1>2, <1>3, <1>4, <1>5, <1>6, <1>7, <1>8, <1>9, <1>10, <1>11,
       <1>12, <1>13, <1>14 DEF Client

\* And so every step.
LEMMA StepInv == ASSUME IInv, Table!TypeOK', [Next]_vars PROVE IInv'
PROOF
  <1>1. ASSUME NEW c \in Clients, Client(c) PROVE IInv'
    BY <1>1, ClientStepInv
  <1> USE DEF IInv, TypeOK, PhaseInv, MetInv, ClientInv, OutcomeInv, Own, Left,
              server, clients, wire, environment, table
  <1>2. CASE Stop \/ Break
    BY <1>2 DEF Stop, Break, SelectFails, BreakPipe, SendBreaksPipe, Terminate
  <1>3. CASE ReplaceFiles
    <2>1. files'.own = files.own /\ files' \in ServerConfigs
      BY <1>3 DEF ReplaceFiles
    <2>2. TypeOK'
      BY <1>3, <2>1, SessionAssumption DEF ReplaceFiles
    <2>3. PhaseInv' /\ MetInv'
      BY <1>3, <2>1 DEF ReplaceFiles
    <2> QED
      BY <1>3, <2>2, <2>3 DEF ReplaceFiles
  <1>4. CASE UNCHANGED vars
    BY <1>4 DEF vars, Table!TypeOK
  <1> QED
    BY <1>1, <1>2, <1>3, <1>4, ServerInv DEF Next

\* Both invariants, of the sockets and of the sessions.
THEOREM Invariant == Spec => []IInv
PROOF
  <1>1. Class!IInv => Table!TypeOK
    BY DEF Class!IInv, Class!TypeOK, Table!TypeOK, Class!NoFd, Table!NoFd
  <1> QED
    BY <1>1, InitIInv, StepInv, SocketsInv, PTL DEF Spec

-----------------------------------------------------------------------------
(***************************************************************************)
(* The properties.                                                         *)
(***************************************************************************)

\* The server and the clients keep their types, with a client and a context at
\* exactly the steps of a session that have one.
THEOREM TypeCorrect == Spec => []TypeOK
PROOF
  <1>1. IInv => TypeOK
    BY DEF IInv
  <1> QED
    BY <1>1, Invariant, PTL

\* A descriptor that a thread may use or close is open and its own.
THEOREM DescriptorsAreOwned == Spec => []OwnedOnce
PROOF
  <1>1. Class!IInv => OwnedOnce
    BY DEF Class!IInv, Class!OwnedOnce, Class!NoFd, Class!Holds, OwnedOnce,
           Table!OwnedOnce, Table!NoFd, Table!Holds
  <1> QED
    BY <1>1, SocketsInv, PTL

\* Every open descriptor has an object that will close it.
THEOREM NothingLeaks == Spec => []NoLeak
PROOF
  <1>1. Class!IInv => NoLeak
    BY DEF Class!IInv, Class!NoLeak, Class!Holds, NoLeak, Table!NoLeak, Table!Holds
  <1> QED
    BY <1>1, SocketsInv, PTL

\* The request of a peer is read only with a certificate of the profile from the
\* authority of the session's context, whatever the flags say.
THEOREM ServedHaveCertificates == Spec => []ServedAreAdmitted
PROOF
  <1>1. IInv => ServedAreAdmitted
    <2> SUFFICES ASSUME IInv, files.own, NEW c \in served
                 PROVE  Trustworthy(config[c].cert, met[c].ca)
      BY DEF ServedAreAdmitted
    <2>1. /\ c \in Clients /\ met[c] \in ServerConfigs /\ met[c].own
          /\ HandshakeSucceeds(met[c], config[c])
          /\ Admits(met[c], config[c])
      BY DEF IInv, TypeOK, MetInv, ClientInv
    <2> QED
      BY <2>1
      DEF Admits, HandshakeSucceeds, ValidProfile, Presented, PeerAccepted,
          Trustworthy, OfProfile
  <1> QED
    BY <1>1, Invariant, PTL

\* An initiator writes the keys only to a server it has verified.
THEOREM KeysGoToTheVerified == Spec => []KeysGoToTrusted
PROOF
  <1>1. IInv => KeysGoToTrusted
    <2> SUFFICES ASSUME IInv, NEW c \in Clients, client[c] = "sent", Own(c)
                 PROVE  /\ OfProfile(met[c].cert)
                        /\ config[c].verify => met[c].cert.issuer = config[c].ca
      BY DEF KeysGoToTrusted
    <2>1. Trusting(met[c], config[c]) /\ HandshakeSucceeds(met[c], config[c])
      BY DEF IInv, MetInv, ClientInv
    <2> QED
      BY <2>1
      DEF Own, Trusting, HandshakeSucceeds, ValidProfile, PeerAccepted, OfProfile
  <1> QED
    BY <1>1, Invariant, PTL

\* Whoever gets as far as a handshake and does not leave is answered exactly when
\* the two are fit for each other by the files of that session.
THEOREM TheFitAreAnswered == Spec => []AnsweredIffFit
PROOF
  <1>1. IInv => AnsweredIffFit
    <2> SUFFICES ASSUME IInv, NEW c \in Clients,
                        result[c] \in {"answered", "failed"}, met[c] # None
                 PROVE  result[c] = "answered" <=> Fit(met[c], config[c])
      BY DEF AnsweredIffFit
    <2>1. Fit(met[c], config[c]) <=> Agree(met[c], config[c])
      BY FitIsAgreement DEF IInv, TypeOK, MetInv
    <2> QED
      BY <2>1 DEF IInv, OutcomeInv
  <1> QED
    BY <1>1, Invariant, PTL
=============================================================================
