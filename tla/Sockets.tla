------------------------------- MODULE Sockets -------------------------------
(***************************************************************************)
(* The Socket class, src/transport/socket.cpp, over the descriptor table   *)
(* of the process, which all its threads share: a number that is closed is *)
(* given out again by the next socket or accept of any thread.             *)
(*                                                                         *)
(* Each object is used by one thread. The steps of one thread that others  *)
(* can come between are the two of close, ::close(fd_) and fd_ = -1.       *)
(***************************************************************************)
EXTENDS Integers

CONSTANTS Objects,      \* the Socket objects of the process
          Fds           \* the descriptors the process may still open: naturals

VARIABLES open,         \* the descriptors that are open
          fd,           \* fd_ of each object
          life          \* "none" outside its lifetime, "live", and "closing"
                        \* between the two steps of close

table == <<open, fd, life>>

NoFd == -1

Init == /\ open = {}
        /\ fd = [o \in Objects |-> NoFd]
        /\ life = [o \in Objects |-> "none"]

\* Room in the table: otherwise ::socket and ::accept fail, and make_tcp_socket
\* and accept throw without an object.
HasRoom == open # Fds

\* The kernel gives out the lowest number.
IsLowestFree(f) == f \in Fds \ open /\ \A g \in Fds \ open : f <= g

\* make_tcp_socket and accept return a Socket that is built in place.
Create(o) ==
    /\ life[o] = "none"
    /\ \E f \in Fds :
          /\ IsLowestFree(f)
          /\ open' = open \cup {f}
          /\ fd' = [fd EXCEPT ![o] = f]
    /\ life' = [life EXCEPT ![o] = "live"]

\* The first step of close, which the destructor and the assignment call too.
SysClose(o) ==
    /\ life[o] = "live"
    /\ fd[o] # NoFd
    /\ open' = open \ {fd[o]}
    /\ life' = [life EXCEPT ![o] = "closing"]
    /\ UNCHANGED fd

\* Mutant of Forget: fd_ keeps the number.
ForgetNothing(o) ==
    /\ life[o] = "closing"
    /\ life' = [life EXCEPT ![o] = "live"]
    /\ UNCHANGED <<open, fd>>

\* The second step of close.
Forget(o) ==
    /\ life[o] = "closing"
    /\ fd' = [fd EXCEPT ![o] = NoFd]
    /\ life' = [life EXCEPT ![o] = "live"]
    /\ UNCHANGED open

\* Mutant of Destroy: the destructor does not close.
DestroyOpen(o) ==
    /\ life[o] = "live"
    /\ fd' = [fd EXCEPT ![o] = NoFd]
    /\ life' = [life EXCEPT ![o] = "none"]
    /\ UNCHANGED open

\* The destructor, when its close has nothing left to do.
Destroy(o) ==
    /\ life[o] = "live"
    /\ fd[o] = NoFd
    /\ life' = [life EXCEPT ![o] = "none"]
    /\ UNCHANGED <<open, fd>>

\* Socket(Socket&&), which leaves the other object without a descriptor.
MoveConstruct(o, other) ==
    /\ life[o] = "none"
    /\ life[other] = "live"
    /\ fd' = [fd EXCEPT ![o] = fd[other], ![other] = NoFd]
    /\ life' = [life EXCEPT ![o] = "live"]
    /\ UNCHANGED open

\* operator=(Socket&&), once the close it begins with is done; an assignment to
\* itself does nothing.
MoveAssign(o, other) ==
    /\ o # other
    /\ life[o] = "live" /\ fd[o] = NoFd
    /\ life[other] = "live"
    /\ fd' = [fd EXCEPT ![o] = fd[other], ![other] = NoFd]
    /\ UNCHANGED <<open, life>>

Next == \E o \in Objects :
           \/ Create(o) \/ SysClose(o) \/ Forget(o) \/ Destroy(o)
           \/ \E other \in Objects : MoveConstruct(o, other) \/ MoveAssign(o, other)

Spec == Init /\ [][Next]_table

-----------------------------------------------------------------------------
TypeOK == /\ open \subseteq Fds
          /\ fd \in [Objects -> Fds \cup {NoFd}]
          /\ life \in [Objects -> {"none", "live", "closing"}]

\* The descriptors of an object that may be used: a closing one has given its
\* number back.
Holds(o, f) == life[o] = "live" /\ fd[o] = f

\* A descriptor an object may use or close is open and no other object's: close
\* and the destructor, which closes again, never close what another thread has
\* opened in between.
OwnedOnce ==
    \A o \in Objects :
        life[o] = "live" /\ fd[o] # NoFd =>
            /\ fd[o] \in open
            /\ \A p \in Objects : Holds(p, fd[o]) => p = o

\* Every open descriptor has an object that will close it: none is leaked when
\* an exception ends a session (tls_server.cpp:102) or a request.
NoLeak == \A f \in open : \E o \in Objects : Holds(o, f)
=============================================================================
