---------------------------- MODULE SocketsProofs ----------------------------
(***************************************************************************)
(* The properties of Sockets, for any objects and any table, moves         *)
(* included.                                                               *)
(***************************************************************************)
EXTENDS Sockets, TLAPS

\* The inductive invariant: ownership and the absence of leaks need each other.
IInv == TypeOK /\ OwnedOnce /\ NoLeak /\ NoFd \notin Fds

\* No object and no open descriptor is a good start.
LEMMA InitInv == ASSUME Fds \subseteq Nat PROVE Init => IInv
PROOF
  BY DEF Init, IInv, TypeOK, OwnedOnce, NoLeak, NoFd

\* The number is free, so no live object has it.
LEMMA CreateInv == ASSUME IInv, NEW o \in Objects, Create(o) PROVE IInv'
PROOF
  <1> USE DEF IInv
  <1>1. PICK f \in Fds : /\ f \notin open
                         /\ open' = open \cup {f}
                         /\ fd' = [fd EXCEPT ![o] = f]
    BY DEF Create, IsLowestFree
  <1>2. life[o] = "none" /\ life' = [life EXCEPT ![o] = "live"]
    BY DEF Create
  <1>3. TypeOK'
    BY <1>1, <1>2 DEF TypeOK
  <1>4. \A p \in Objects : life[p] = "live" => fd[p] # f
    BY <1>1 DEF OwnedOnce
  <1>5. OwnedOnce'
    BY <1>1, <1>2, <1>4 DEF TypeOK, OwnedOnce, Holds
  <1>6. NoLeak'
    BY <1>1, <1>2 DEF TypeOK, NoLeak, Holds
  <1> QED
    BY <1>3, <1>5, <1>6

\* Only the object itself holds the number that is given back.
LEMMA SysCloseInv == ASSUME IInv, NEW o \in Objects, SysClose(o) PROVE IInv'
PROOF
  <1> USE DEF IInv, SysClose
  <1>1. TypeOK'
    BY DEF TypeOK
  <1>2. OwnedOnce'
    BY DEF TypeOK, OwnedOnce, Holds
  <1>3. NoLeak'
    BY DEF TypeOK, NoLeak, Holds
  <1> QED
    BY <1>1, <1>2, <1>3

\* fd_ becomes -1 while the object still is of no account.
LEMMA ForgetInv == ASSUME IInv, NEW o \in Objects, Forget(o) PROVE IInv'
PROOF
  <1> USE DEF IInv, Forget
  <1>1. TypeOK'
    BY DEF TypeOK
  <1>2. OwnedOnce'
    BY DEF TypeOK, OwnedOnce, Holds
  <1>3. NoLeak'
    BY DEF TypeOK, NoLeak, Holds
  <1> QED
    BY <1>1, <1>2, <1>3

\* An object that goes closes the descriptor it owns, and no other.
LEMMA DestroyInv == ASSUME IInv, NEW o \in Objects, Destroy(o) PROVE IInv'
PROOF
  <1> USE DEF IInv, Destroy
  <1>1. TypeOK'
    BY DEF TypeOK
  <1>2. OwnedOnce'
    BY DEF TypeOK, OwnedOnce, Holds
  <1>3. NoLeak'
    BY DEF TypeOK, NoLeak, Holds
  <1> QED
    BY <1>1, <1>2, <1>3

\* A descriptor goes from one live object to one that had none: both moves.
LEMMA HandOverInv ==
  ASSUME IInv, NEW o \in Objects, NEW other \in Objects, o # other,
         life[o] # "live" \/ fd[o] = NoFd,
         life[other] = "live",
         fd' = [fd EXCEPT ![o] = fd[other], ![other] = NoFd],
         life' = [life EXCEPT ![o] = "live"],
         open' = open
  PROVE  IInv'
PROOF
  <1> USE DEF IInv
  <1>1. TypeOK'
    BY DEF TypeOK
  <1>2. OwnedOnce'
    BY DEF TypeOK, OwnedOnce, Holds
  <1>3. NoLeak'
    BY DEF TypeOK, NoLeak, Holds
  <1> QED
    BY <1>1, <1>2, <1>3

\* Every operation of the class keeps the invariant.
LEMMA StepInv == IInv /\ [Next]_table => IInv'
PROOF
  <1> SUFFICES ASSUME IInv, [Next]_table PROVE IInv'
    OBVIOUS
  <1>1. ASSUME NEW o \in Objects, Create(o) \/ SysClose(o) \/ Forget(o) \/ Destroy(o)
        PROVE  IInv'
    BY <1>1, CreateInv, SysCloseInv, ForgetInv, DestroyInv
  <1>2. ASSUME NEW o \in Objects, NEW other \in Objects, MoveConstruct(o, other)
        PROVE  IInv'
    BY <1>2, HandOverInv DEF MoveConstruct
  <1>3. ASSUME NEW o \in Objects, NEW other \in Objects, MoveAssign(o, other)
        PROVE  IInv'
    <2>1. life' = [life EXCEPT ![o] = "live"]
      BY <1>3 DEF MoveAssign, IInv, TypeOK
    <2> QED
      BY <1>3, <2>1, HandOverInv DEF MoveAssign
  <1>4. CASE UNCHANGED table
    BY <1>4 DEF table, IInv, TypeOK, OwnedOnce, NoLeak, Holds
  <1> QED
    BY <1>1, <1>2, <1>3, <1>4 DEF Next

\* The invariant holds whatever threads do with their objects.
THEOREM Invariant == ASSUME Fds \subseteq Nat PROVE Spec => []IInv
PROOF
  BY InitInv, StepInv, PTL DEF Spec

\* Through moves, closes and destructors of any number of threads, a descriptor
\* that an object may use is its own.
THEOREM DescriptorsAreOwned == ASSUME Fds \subseteq Nat PROVE Spec => []OwnedOnce
PROOF
  <1>1. IInv => OwnedOnce
    BY DEF IInv
  <1> QED
    BY <1>1, Invariant, PTL

\* And an open descriptor always has an object that closes it.
THEOREM NothingLeaks == ASSUME Fds \subseteq Nat PROVE Spec => []NoLeak
PROOF
  <1>1. IInv => NoLeak
    BY DEF IInv
  <1> QED
    BY <1>1, Invariant, PTL
=============================================================================
