\* Two clients of any configuration, one change of the server's files, and three
\* descriptors for the listener, the session and the clients' sockets.
SPECIFICATION Spec
CONSTANTS
    None = None
    c1 = c1
    c2 = c2
    Clients = {c1, c2}
    Listener = Listener
    Session = Session
    Fds = {0, 1, 2}
    MaxReplacements = 1
    Versions <- MCVersions
    ServerConfigs <- MCServerConfigs
    ClientConfigs <- MCClientConfigs
INVARIANTS
    TypeOK
    OwnedOnce
    NoLeak
    ServedAreAdmitted
    KeysGoToTrusted
    AnsweredIffFit
PROPERTIES
    ConnectionsEnd
\* The server stops or terminates, the clients finish.
CHECK_DEADLOCK FALSE
