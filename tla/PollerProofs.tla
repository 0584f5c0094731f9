---------------------------- MODULE PollerProofs ----------------------------
(***************************************************************************)
(* The event loop for any number of environments: the types of Poller and  *)
(* its three safety properties, in one inductive invariant.                *)
(*                                                                         *)
(* That poll_once finds an action for every event and that a batch only    *)
(* removes what is registered follow from each other's bookkeeping         *)
(* (BatchInv).  That a client which is there stays polled needs to know    *)
(* whose descriptor is whose: a descriptor has one socket (FilesInv), a    *)
(* client that waits for the next poll_once already owns its descriptor    *)
(* (AddedInv), and a client nothing has ended is alone on it (OwnerInv),   *)
(* so that the descriptors a batch has doomed serve only clients that have *)
(* ended or gone (DoomedInv).                                              *)
(***************************************************************************)
EXTENDS Poller, FiniteSetTheorems, SequenceTheorems, WellFoundedInduction, TLAPS

-----------------------------------------------------------------------------
(* Sequences, and the lowest free descriptor *)

\* What a sequence holds.
LEMMA Holds ==
  ASSUME NEW S, NEW s \in Seq(S), NEW t \in Seq(S), NEW x \in S
  PROVE  /\ Range(s) \subseteq S /\ Range(<<>>) = {}
         /\ Range(s) = {} => s = <<>>
         /\ Range(s \o t) = Range(s) \cup Range(t)
         /\ Range(Append(s, x)) = Range(s) \cup {x}
<1>1. Range(s) \subseteq S
  BY RangeOfSeq, Zenon
<1>2. Range(<<>>) = {} /\ (Range(s) = {} => s = <<>>)
  <2>1. Range(<<>>) = {}
    BY DEF Range
  <2>2. ASSUME s # <<>>  PROVE  Range(s) # {}
    <3>1. Len(s) \in Nat \ {0} /\ DOMAIN s = 1 .. Len(s)
      BY <2>2, LenProperties, EmptySeq
    <3>2. s[1] \in Range(s)
      BY <3>1 DEF Range
    <3> QED
      BY <3>2
  <2> QED
    BY <2>1, <2>2
<1>3. Range(s \o t) = Range(s) \cup Range(t)
  BY RangeConcatenation, Zenon
<1>4. Range(Append(s, x)) = Range(s) \cup {x}
  <2>1. <<x>> \in Seq(S) /\ Range(<<x>>) = {x}
    BY DEF Range
  <2>2. PICK one \in Seq(S) : one = <<x>>
    BY <2>1
  <2>4. Range(s \o one) = Range(s) \cup Range(one)
    BY RangeConcatenation, Zenon
  <2>3. Append(s, x) = s \o <<x>>
    OBVIOUS
  <2> QED
    BY <2>1, <2>2, <2>3, <2>4
<1> QED
  BY <1>1, <1>2, <1>3, <1>4

\* The first element and the others.
LEMMA HeadAndTail ==
  ASSUME NEW S, NEW s \in Seq(S), s # <<>>
  PROVE  /\ 1 \in DOMAIN s /\ Head(s) = s[1] /\ Head(s) \in S /\ Tail(s) \in Seq(S)
         /\ \A k \in DOMAIN Tail(s) : k + 1 \in DOMAIN s /\ Tail(s)[k] = s[k + 1]
<1>1. Len(s) \in Nat \ {0} /\ DOMAIN s = 1 .. Len(s)
  BY LenProperties, EmptySeq
<1> QED
  BY <1>1

\* Among descriptors that are free there is a lowest one.
LEMMA Lowest ==
  ASSUME NEW T, T \subseteq Nat, T # {}
  PROVE  \E n \in T : \A m \in T : n <= m
<1> DEFINE Upto == {0 .. m : m \in T}
<1>1. Upto \subseteq FiniteSubsetsOf(Nat) /\ Upto # {}
  <2>1. \A m \in T : 0 .. m \in SUBSET Nat /\ IsFiniteSet(0 .. m)
    BY FS_Interval
  <2> QED
    BY <2>1 DEF FiniteSubsetsOf
<1>2. IsWellFoundedOn(StrictSubsetOrdering(Nat), FiniteSubsetsOf(Nat))
  BY FS_StrictSubsetOrderingWellFounded, Zenon
<1>3. PICK x \in Upto : \A y \in Upto : <<y, x>> \notin StrictSubsetOrdering(Nat)
  <2> HIDE DEF Upto
  <2> QED
    BY <1>1, <1>2, WFMin, Zenon
<1>4. PICK n \in T : x = 0 .. n
  BY <1>3
<1>5. ASSUME NEW m \in T, m < n
      PROVE  FALSE
  <2>1. 0 .. m \in Upto /\ 0 .. m \subseteq 0 .. n /\ n \in 0 .. n /\ n \notin 0 .. m
    BY <1>5
  <2>2. <<0 .. m, 0 .. n>> \in StrictSubsetOrdering(Nat)
    BY <2>1 DEF StrictSubsetOrdering
  <2> QED
    BY <1>3, <1>4, <2>1, <2>2
<1> QED
  BY <1>5

-----------------------------------------------------------------------------
(* The invariant *)

\* An action of socket s on descriptor f, polled already or in the next poll_once.
At(s, f) == s \in Range(actions[f]) \cup Range(action_to_add[f])

\* A batch and the actions left of it are about registered descriptors with actions.
BatchInv ==
    /\ RegisteredHasAction /\ RemovalsRegistered
    /\ \A e \in events : e.fd \in registered_fd
    /\ \A k \in DOMAIN todo :
          todo[k].fd \in registered_fd /\ todo[k].sock \in Range(actions[todo[k].fd])

\* A descriptor belongs to one socket, and of the clients only accepted ones have any.
FilesInv ==
    /\ files[NetlinkFd] = NetlinkSock /\ files[UnixFd] = UnixSock
    /\ \A f, g \in Fds : files[f] = files[g] /\ files[f] # None => f = g
    /\ \A f \in Fds : files[f] \in Clients => files[f] \in accepted

AcceptedInv ==
    /\ \A f \in Fds, c \in Clients : At(c, f) => c \in accepted
    /\ \A i \in Sids : client_from_sock[i] \in accepted \cup {None}

\* A client that waits for the next poll_once has its descriptor, and nothing else
\* that could close it knows it.
AddedInv ==
    \A f \in Fds : \A s \in Range(action_to_add[f]) :
        /\ files[f] = s
        /\ \A g \in Fds : s \notin Range(actions[g])
        /\ \A i \in Sids : client_from_sock[i] # s

\* A client that nothing has ended is alone on its descriptor.
OwnerInv ==
    \A c \in Clients \ (ended \cup reused), f \in Fds :
        At(c, f) => files[f] = c /\ \A s \in Socks : At(s, f) => s = c

\* The descriptors this batch removes serve no client that must be kept.
Doomed == fd_to_remove \cup {e.fd : e \in {d \in events : d.err}}
DoomedInv ==
    \A f \in Doomed, c \in Clients : At(c, f) => c \in ended \cup reused \/ peer[c] # "open"

IInv == /\ TypeOK /\ BatchInv /\ FilesInv /\ AcceptedInv /\ AddedInv /\ OwnerInv
        /\ DoomedInv /\ ClientsKept

\* The typing the steps below use.
LEMMA Types ==
  ASSUME TypeOK
  PROVE  /\ actions \in [Fds -> Seq(Socks)] /\ action_to_add \in [Fds -> Seq(Socks)]
         /\ fd_to_remove \subseteq Fds /\ registered_fd \subseteq Fds
         /\ events \subseteq [fd : Fds, err : BOOLEAN]
         /\ todo \in Seq([fd : Fds, sock : Socks])
         /\ files \in [Fds -> Socks \cup {None}] /\ connected \in [Clients -> BOOLEAN]
         /\ client_from_sock \in [Sids -> Clients \cup {None}]
         /\ Clients \subseteq Socks /\ None \notin Socks
         /\ NetlinkSock \notin Clients /\ UnixSock \notin Clients
  BY SocksAssumption DEF TypeOK, Socks

LEMMA DescriptorFacts ==
  /\ Fds \subseteq Nat /\ NetlinkFd \in Fds /\ UnixFd \in Fds /\ NetlinkFd # UnixFd
  /\ IsFiniteSet(Fds) /\ Cardinality(Fds) = Cardinality(Clients) + 2
<1>1. Cardinality(Clients) \in Nat
  BY SocksAssumption, FS_CardinalityType
<1>2. IsFiniteSet(Fds) /\ Cardinality(Fds) = Cardinality(Clients) + 2
  BY <1>1, FS_Interval DEF Fds
<1> QED
  BY <1>1, <1>2 DEF Fds, NetlinkFd, UnixFd

\* While a client waits for accept there is a free descriptor, and accept takes one.
LEMMA FreeDescriptor ==
  ASSUME TypeOK, FilesInv, NEW c \in Clients, c \notin accepted
  PROVE  LowestFree \in Fds /\ files[LowestFree] = None
<1> DEFINE others == Clients \ {c}
           some == others \cup {NetlinkSock}
           users == some \cup {UnixSock}
           free == {f \in Fds : files[f] = None}
<1>1. free # {}
  <2> SUFFICES ASSUME free = {}  PROVE  FALSE
    OBVIOUS
  <2>1. files \in [Fds -> users]
    <3>1. \A f \in Fds : files[f] \in Socks /\ files[f] # c
      BY Types DEF FilesInv
    <3> QED
      BY <3>1, Types DEF Socks
  <2>2. IsFiniteSet(users) /\ Cardinality(users) < Cardinality(Fds)
    <3>1. IsFiniteSet(Clients) /\ Cardinality(Clients) \in Nat
      BY SocksAssumption, FS_CardinalityType
    <3>2. IsFiniteSet(others) /\ Cardinality(others) = Cardinality(Clients) - 1
      BY <3>1, FS_RemoveElement
    <3>3. /\ IsFiniteSet(some)
          /\ Cardinality(some) = IF NetlinkSock \in others THEN Cardinality(others)
                                                           ELSE Cardinality(others) + 1
      <4> HIDE DEF others
      <4> QED
        BY <3>2, FS_AddElement, Zenon
    <3>4. /\ IsFiniteSet(users)
          /\ Cardinality(users) = IF UnixSock \in some THEN Cardinality(some)
                                                        ELSE Cardinality(some) + 1
      <4> HIDE DEF some
      <4> QED
        BY <3>3, FS_AddElement, Zenon
    <3>5. Cardinality(some) \in Nat /\ Cardinality(users) \in Nat
      BY <3>3, <3>4, FS_CardinalityType
    <3> HIDE DEF others, some, users
    <3> QED
      BY <3>1, <3>2, <3>3, <3>4, <3>5, DescriptorFacts
  <2>3. PICK f \in Fds, g \in Fds : f # g /\ files[f] = files[g]
    <3> HIDE DEF users
    <3>1. PICK table \in [Fds -> users] : table = files
      BY <2>1
    <3>2. IsFiniteSet(Fds) /\ IsFiniteSet(users) /\ Cardinality(users) < Cardinality(Fds)
      BY <2>2, DescriptorFacts
    <3>3. \E f, g \in Fds : f # g /\ table[f] = table[g]
      BY <3>2, FS_PigeonHole
    <3> QED
      BY <3>1, <3>3
  <2> QED
    BY <2>3 DEF FilesInv
<1>2. PICK n \in free : \A m \in free : n <= m
  <2>1. free \subseteq Nat
    BY DescriptorFacts
  <2> HIDE DEF free
  <2> QED
    BY <1>1, <2>1, Lowest
<1>3. n \in Fds /\ files[n] = None /\ \A g \in 1 .. n - 1 : files[g] # None
  <2>1. n \in Fds /\ Cardinality(Clients) \in Nat
    BY SocksAssumption, FS_CardinalityType
  <2>2. \A g \in 1 .. n - 1 : g \in Fds /\ ~(n <= g)
    BY <2>1 DEF Fds
  <2> QED
    BY <1>2, <2>2
<1> QED
  BY <1>3 DEF LowestFree

\* The socket whose callback runs has an action on the descriptor of the event.
LEMMA RunningIsAt ==
  ASSUME IInv, NEW s, Running(s)
  PROVE  /\ s \in Socks /\ todo # <<>>
         /\ Head(todo).fd \in registered_fd /\ Head(todo).fd \in Fds
         /\ s \in Range(actions[Head(todo).fd])
<1>1. todo # <<>> /\ Head(todo).sock = s /\ todo \in Seq([fd : Fds, sock : Socks]) /\ BatchInv
  BY Types DEF IInv, Running
<1>2. 1 \in DOMAIN todo /\ Head(todo) = todo[1] /\ Head(todo) \in [fd : Fds, sock : Socks]
  BY <1>1, HeadAndTail, Zenon
<1> QED
  BY <1>1, <1>2 DEF BatchInv

\* What a callback returned: the rest of todo stays, and at most its descriptor is
\* to be removed.
LEMMA ReturnedKeeps ==
  ASSUME IInv, NEW s, Running(s), NEW status, Returned(status)
  PROVE  /\ todo' \in Seq([fd : Fds, sock : Socks])
         /\ \A k \in DOMAIN todo' : \E l \in DOMAIN todo : todo'[k] = todo[l]
         /\ status = "Continue" => fd_to_remove' = fd_to_remove
         /\ status # "Continue" => fd_to_remove' = fd_to_remove \cup {Head(todo).fd}
<1>1. todo # <<>> /\ todo \in Seq([fd : Fds, sock : Socks])
  BY Types DEF IInv, Running
<1>2. CASE status = "Continue"
  <2>1. todo' = Tail(todo) /\ fd_to_remove' = fd_to_remove
    BY <1>2 DEF Returned
  <2>2. \A k \in DOMAIN Tail(todo) : k + 1 \in DOMAIN todo /\ Tail(todo)[k] = todo[k + 1]
    BY <1>1
  <2> QED
    BY <1>1, <1>2, <2>1, <2>2
<1>3. CASE status # "Continue"
  BY <1>3 DEF Returned
<1> QED
  BY <1>2, <1>3

-----------------------------------------------------------------------------
(* The callbacks *)

\* A callback that accepts no client leaves the actions alone.  It may free the
\* descriptor of a client nothing waits for, end the client it serves, and cache one.
LEMMA CallbackKeeps ==
  ASSUME IInv, NEW s, Running(s), TypeOK',
         NEW status, Returned(status) \/ (todo' = todo /\ fd_to_remove' = fd_to_remove),
         UNCHANGED <<actions, action_to_add, registered_fd, events, accepted, reused>>,
         ended \subseteq ended',
         s \in Clients /\ status # "Continue" => s \in ended',
         \A c \in Clients : peer'[c] = "open" => peer[c] = "open",
         \A f \in Fds : files'[f] = files[f]
                        \/ /\ files'[f] = None /\ files[f] \in Clients
                           /\ \A g \in Fds : files[f] \notin Range(action_to_add[g])
                           /\ files[f] \in ended' \/ \A g \in Fds : ~At(files[f], g),
         \A i \in Sids : client_from_sock'[i] = client_from_sock[i]
                         \/ /\ client_from_sock'[i] \in accepted
                            /\ \A g \in Fds : client_from_sock'[i] \notin Range(action_to_add[g])
  PROVE  IInv'
<1> USE DEF IInv
<1>1. /\ actions \in [Fds -> Seq(Socks)] /\ action_to_add \in [Fds -> Seq(Socks)]
      /\ fd_to_remove \subseteq Fds /\ registered_fd \subseteq Fds
      /\ files \in [Fds -> Socks \cup {None}] /\ Clients \subseteq Socks /\ None \notin Socks
      /\ NetlinkSock \notin Clients /\ UnixSock \notin Clients
  BY Types
<1>2. \A f \in Fds : Range(action_to_add[f]) \subseteq Socks /\ Range(actions[f]) \subseteq Socks
  BY <1>1, RangeOfSeq
<1>3. \A c, f : At(c, f)' <=> At(c, f)
  BY DEF At
<1> DEFINE here == Head(todo).fd
<1>4. /\ s \in Socks /\ here \in registered_fd /\ here \in Fds /\ At(s, here)
      /\ \A k \in DOMAIN todo' : \E l \in DOMAIN todo : todo'[k] = todo[l]
      /\ status = "Continue" => fd_to_remove' = fd_to_remove
      /\ status # "Continue" => fd_to_remove' \subseteq fd_to_remove \cup {here}
  BY RunningIsAt, ReturnedKeeps DEF At
<1> HIDE DEF here
<1>5. BatchInv'
  <2>1. BatchInv
    OBVIOUS
  <2>2. RegisteredHasAction' /\ RemovalsRegistered'
    BY <1>4, <2>1 DEF BatchInv, RegisteredHasAction, RemovalsRegistered, FdsOf
  <2>3. \A k \in DOMAIN todo' :
          todo'[k].fd \in registered_fd /\ todo'[k].sock \in Range(actions[todo'[k].fd])
    BY <1>4, <2>1 DEF BatchInv
  <2> QED
    BY <2>1, <2>2, <2>3 DEF BatchInv
<1>6. FilesInv'
  BY <1>1, DescriptorFacts DEF FilesInv
<1>7. AcceptedInv'
  BY <1>3 DEF AcceptedInv
<1>8. AddedInv'
  <2> SUFFICES ASSUME NEW f \in Fds, NEW c \in Range(action_to_add[f])
               PROVE  /\ files'[f] = c
                      /\ \A g \in Fds : c \notin Range(actions[g])
                      /\ \A i \in Sids : client_from_sock'[i] # c
    BY DEF AddedInv
  <2> QED
    BY DEF AddedInv
<1>9. OwnerInv'
  <2> SUFFICES ASSUME NEW c \in Clients \ (ended' \cup reused), NEW f \in Fds, At(c, f)
               PROVE  files'[f] = c /\ \A d \in Socks : At(d, f) => d = c
    BY <1>3 DEF OwnerInv
  <2>1. files[f] = c /\ \A d \in Socks : At(d, f) => d = c
    BY DEF OwnerInv
  <2> QED
    BY <2>1
<1>10. DoomedInv'
  <2> SUFFICES ASSUME NEW f \in Doomed', NEW c \in Clients, At(c, f), peer'[c] = "open",
                      c \notin ended' \cup reused
               PROVE  FALSE
    BY <1>3 DEF DoomedInv
  <2>1. f \notin Doomed
    BY DEF DoomedInv
  <2>2. status # "Continue" /\ f = here
    BY <1>4, <2>1 DEF Doomed
  <2>3. s = c
    BY <1>4, <2>2 DEF OwnerInv
  <2> QED
    BY <2>2, <2>3
<1>11. ClientsKept'
  <2>1. Polled' = Polled /\ accepted \subseteq Clients
    BY DEF Polled, SocksOf, TypeOK
  <2> QED
    BY <2>1 DEF ClientsKept
<1> QED
  BY <1>5, <1>6, <1>7, <1>8, <1>9, <1>10, <1>11

\* The callbacks that accept nobody.
LEMMA CallbackStep ==
  ASSUME IInv,
         \/ \E status \in Statuses : ReadNetlink(status)
         \/ \E i \in Sids : ForwardMeasure(i)
         \/ \E c \in Clients :
              \/ ReadEndOfFile(c) \/ ReadPartOfBody(c)
              \/ \E status \in Statuses : RefuseClient(c, status) \/ ReadClient(c, status)
              \/ \E i \in Sids : ReadMeasure(c, i)
  PROVE  IInv'
<1> USE DEF IInv
<1>1. /\ actions \in [Fds -> Seq(Socks)] /\ action_to_add \in [Fds -> Seq(Socks)]
      /\ fd_to_remove \subseteq Fds /\ files \in [Fds -> Socks \cup {None}]
      /\ connected \in [Clients -> BOOLEAN] /\ client_from_sock \in [Sids -> Clients \cup {None}]
      /\ Clients \subseteq Socks /\ None \notin Socks
      /\ NetlinkSock \notin Clients /\ UnixSock \notin Clients
      /\ ended \subseteq accepted /\ reused \subseteq accepted /\ accepted \subseteq Clients
      /\ peer \in [Clients -> {"new", "connecting", "open", "gone", "refused"}]
  BY Types DEF TypeOK
<1>2. ASSUME NEW status, NEW s, Running(s), Returned(status)
      PROVE  /\ todo' \in Seq([fd : Fds, sock : Socks]) /\ fd_to_remove' \subseteq Fds
             /\ s \in Clients => s \in accepted /\ \A g \in Fds : s \notin Range(action_to_add[g])
  <2>1. Head(todo).fd \in Fds /\ s \in Range(actions[Head(todo).fd])
    BY <1>2, RunningIsAt
  <2>2. todo' \in Seq([fd : Fds, sock : Socks])
    BY <1>2, ReturnedKeeps
  <2>3. fd_to_remove' \subseteq Fds
    BY <1>1, <1>2, <2>1, ReturnedKeeps
  <2> QED
    BY <2>1, <2>2, <2>3 DEF AcceptedInv, AddedInv, At
<1>3. ASSUME NEW status \in Statuses, ReadNetlink(status)
      PROVE  IInv'
  <2>1. /\ Running(NetlinkSock) /\ Returned(status)
        /\ UNCHANGED <<actions, action_to_add, registered_fd, pc, events, sockets, peer, history>>
    BY <1>3 DEF ReadNetlink
  <2>2. TypeOK'
    BY <1>2, <2>1 DEF TypeOK, sockets, history
  <2> QED
    BY <1>1, <2>1, <2>2, CallbackKeeps DEF sockets, history
<1>4. ASSUME NEW i \in Sids, ForwardMeasure(i)
      PROVE  IInv'
  <2>1. PICK c : c = client_from_sock[i]
    OBVIOUS
  <2>2. /\ Running(NetlinkSock) /\ Returned("Continue") /\ c # None
        /\ files' = Closed(files, c) /\ connected' = [connected EXCEPT ![c] = FALSE]
        /\ ended' = ended \cup {c}
        /\ UNCHANGED <<actions, action_to_add, registered_fd, pc, events,
                       client_from_sock, peer, accepted, reused>>
    BY <1>4, <2>1 DEF ForwardMeasure
  <2>3. c \in accepted /\ \A g \in Fds : c \notin Range(action_to_add[g])
    BY <2>1, <2>2 DEF AcceptedInv, AddedInv
  <2>4. \A f \in Fds : files'[f] = IF files[f] = c THEN None ELSE files[f]
    BY <2>2 DEF Closed
  <2>5. TypeOK'
    <3>1. files' \in [Fds -> Socks \cup {None}]
      BY <1>1, <2>2 DEF Closed
    <3> QED
      BY <1>1, <1>2, <2>2, <2>3, <3>1 DEF TypeOK
  <2>6. \A f \in Fds : files'[f] = files[f]
                       \/ /\ files'[f] = None /\ files[f] \in Clients
                          /\ \A g \in Fds : files[f] \notin Range(action_to_add[g])
                          /\ files[f] \in ended' \/ \A g \in Fds : ~At(files[f], g)
    BY <1>1, <2>2, <2>3, <2>4
  <2> QED
    BY <2>2, <2>5, <2>6, CallbackKeeps
<1>5. ASSUME NEW c \in Clients, ReadEndOfFile(c)
      PROVE  IInv'
  <2>1. /\ Running(c) /\ Returned("Cancel")
        /\ files' = Closed(files, c) /\ connected' = [connected EXCEPT ![c] = FALSE]
        /\ ended' = ended \cup {c}
        /\ UNCHANGED <<actions, action_to_add, registered_fd, pc, events,
                       client_from_sock, peer, accepted, reused>>
    BY <1>5 DEF ReadEndOfFile
  <2>2. c \in accepted /\ \A g \in Fds : c \notin Range(action_to_add[g])
    BY <1>2, <2>1
  <2>3. \A f \in Fds : files'[f] = IF files[f] = c THEN None ELSE files[f]
    BY <2>1 DEF Closed
  <2>4. TypeOK'
    <3>1. files' \in [Fds -> Socks \cup {None}]
      BY <1>1, <2>1 DEF Closed
    <3> QED
      BY <1>1, <1>2, <2>1, <2>2, <3>1 DEF TypeOK
  <2>5. \A f \in Fds : files'[f] = files[f]
                       \/ /\ files'[f] = None /\ files[f] \in Clients
                          /\ \A g \in Fds : files[f] \notin Range(action_to_add[g])
                          /\ files[f] \in ended' \/ \A g \in Fds : ~At(files[f], g)
    BY <1>1, <2>1, <2>2, <2>3
  <2> QED
    BY <2>1, <2>4, <2>5, CallbackKeeps
<1>6. ASSUME NEW c \in Clients, NEW status \in Statuses, RefuseClient(c, status)
      PROVE  IInv'
  <2>1. /\ Running(UnixSock) /\ Returned(status)
        /\ peer' = [peer EXCEPT ![c] = "refused"]
        /\ UNCHANGED <<actions, action_to_add, registered_fd, pc, events, sockets, history>>
    BY <1>6 DEF RefuseClient
  <2>2. TypeOK'
    BY <1>1, <1>2, <2>1 DEF TypeOK, sockets, history
  <2> QED
    BY <1>1, <2>1, <2>2, CallbackKeeps DEF sockets, history
<1>7. ASSUME NEW c \in Clients, NEW status \in Statuses, ReadClient(c, status)
      PROVE  IInv'
  <2>1. /\ Running(c) /\ Returned(status)
        /\ ended' = IF status = "Continue" THEN ended ELSE ended \cup {c}
        /\ UNCHANGED <<actions, action_to_add, registered_fd, pc, events, sockets, peer,
                       accepted, reused>>
    BY <1>7 DEF ReadClient
  <2>2. TypeOK'
    BY <1>1, <1>2, <2>1 DEF TypeOK, sockets
  <2> QED
    BY <1>1, <2>1, <2>2, CallbackKeeps DEF sockets
<1>8. ASSUME NEW c \in Clients, NEW i \in Sids, ReadMeasure(c, i)
      PROVE  IInv'
  <2>1. PICK cached : cached = [client_from_sock EXCEPT ![i] = c]
    OBVIOUS
  <2>2. /\ Running(c) /\ Returned("Continue")
        /\ client_from_sock' = cached /\ files' = Collected(files, actions, cached)
        /\ UNCHANGED <<actions, action_to_add, registered_fd, pc, events, connected,
                       peer, history>>
    BY <1>8, <2>1 DEF ReadMeasure
  <2>3. c \in accepted /\ \A g \in Fds : c \notin Range(action_to_add[g])
    BY <1>2, <2>2
  <2>4. \A f \in Fds : files'[f] = files[f]
                       \/ /\ files'[f] = None /\ files[f] \in Clients
                          /\ \A g \in Fds : ~At(files[f], g)
    BY <2>2 DEF Collected, SocksOf, At
  <2>5. TypeOK'
    <3>1. files' \in [Fds -> Socks \cup {None}]
      BY <1>1, <2>2 DEF Collected
    <3>2. client_from_sock' \in [Sids -> Clients \cup {None}]
      BY <1>1, <2>1, <2>2
    <3> QED
      BY <1>1, <1>2, <2>2, <3>1, <3>2 DEF TypeOK, history
  <2>6. \A j \in Sids : client_from_sock'[j] = client_from_sock[j] \/ client_from_sock'[j] = c
    BY <1>1, <2>1, <2>2
  <2>7. \A f \in Fds : files'[f] = files[f]
                       \/ /\ files'[f] = None /\ files[f] \in Clients
                          /\ \A g \in Fds : files[f] \notin Range(action_to_add[g])
                          /\ \A g \in Fds : ~At(files[f], g)
    BY <2>4 DEF At
  <2>8. UNCHANGED <<actions, action_to_add, registered_fd, events, accepted, ended, reused>>
        /\ peer' = peer
    BY <2>2 DEF history
  <2>9. \A j \in Sids : client_from_sock'[j] = client_from_sock[j]
                         \/ /\ client_from_sock'[j] \in accepted
                            /\ \A g \in Fds : client_from_sock'[j] \notin Range(action_to_add[g])
    BY <2>3, <2>6
  <2> QED
    BY <2>2, <2>5, <2>7, <2>8, <2>9, CallbackKeeps
<1>9. ASSUME NEW c \in Clients, ReadPartOfBody(c)
      PROVE  IInv'
  <2>1. /\ Running(c) /\ todo' = todo /\ fd_to_remove' = fd_to_remove /\ pc' = "spin"
        /\ files' = Closed(files, c) /\ connected' = [connected EXCEPT ![c] = FALSE]
        /\ ended' = ended \cup {c}
        /\ UNCHANGED <<actions, action_to_add, registered_fd, events, client_from_sock, peer,
                       accepted, reused>>
    BY <1>9 DEF ReadPartOfBody, poller
  <2>2. c \in accepted /\ \A g \in Fds : c \notin Range(action_to_add[g])
    BY <2>1, RunningIsAt DEF AcceptedInv, AddedInv, At
  <2>3. \A f \in Fds : files'[f] = IF files[f] = c THEN None ELSE files[f]
    BY <2>1 DEF Closed
  <2>4. TypeOK'
    <3>1. files' \in [Fds -> Socks \cup {None}]
      BY <1>1, <2>1 DEF Closed
    <3> QED
      BY <1>1, <2>1, <2>2, <3>1 DEF TypeOK
  <2>5. \A f \in Fds : files'[f] = files[f]
                       \/ /\ files'[f] = None /\ files[f] \in Clients
                          /\ \A g \in Fds : files[f] \notin Range(action_to_add[g])
                          /\ files[f] \in ended' \/ \A g \in Fds : ~At(files[f], g)
    BY <1>1, <2>1, <2>2, <2>3
  <2> QED
    BY <2>1, <2>4, <2>5, CallbackKeeps
<1> QED
  BY <1>3, <1>4, <1>5, <1>6, <1>7, <1>8, <1>9

\* accept gives a new client a descriptor that was free, and it waits for the next
\* poll_once.
LEMMA AcceptStep ==
  ASSUME IInv, NEW c \in Clients, Accept(c)
  PROVE  IInv'
<1> USE DEF IInv
<1>1. /\ actions \in [Fds -> Seq(Socks)] /\ action_to_add \in [Fds -> Seq(Socks)]
      /\ registered_fd \subseteq Fds /\ files \in [Fds -> Socks \cup {None}]
      /\ connected \in [Clients -> BOOLEAN] /\ client_from_sock \in [Sids -> Clients \cup {None}]
      /\ Clients \subseteq Socks /\ None \notin Socks
      /\ NetlinkSock \notin Clients /\ UnixSock \notin Clients
      /\ ended \subseteq accepted /\ reused \subseteq accepted /\ accepted \subseteq Clients
      /\ peer \in [Clients -> {"new", "connecting", "open", "gone", "refused"}]
  BY Types DEF TypeOK
<1>2. PICK f : f = LowestFree
  OBVIOUS
<1>3. /\ Running(UnixSock) /\ Waiting(c) /\ Returned("Continue")
      /\ files' = [files EXCEPT ![f] = c] /\ connected' = [connected EXCEPT ![c] = TRUE]
      /\ action_to_add' = [action_to_add EXCEPT ![f] = Append(@, c)]
      /\ peer' = [peer EXCEPT ![c] = IF @ = "connecting" THEN "open" ELSE @]
      /\ accepted' = accepted \cup {c}
      /\ reused' = IF f \in FdsOf(actions) THEN reused \cup {c} ELSE reused
      /\ UNCHANGED <<actions, registered_fd, pc, events, client_from_sock, ended>>
  BY <1>2 DEF Accept
<1>4. c \notin accepted /\ f \in Fds /\ files[f] = None
  BY <1>2, <1>3, FreeDescriptor DEF Waiting
<1>5. /\ todo' \in Seq([fd : Fds, sock : Socks]) /\ fd_to_remove' = fd_to_remove
      /\ \A k \in DOMAIN todo' : \E l \in DOMAIN todo : todo'[k] = todo[l]
  BY <1>3, ReturnedKeeps
<1>6. \A g \in Fds : Range(action_to_add[g]) \subseteq Socks /\ Range(actions[g]) \subseteq Socks
  BY <1>1, RangeOfSeq
<1>7. /\ action_to_add' \in [Fds -> Seq(Socks)]
      /\ \A g \in Fds : g # f => action_to_add'[g] = action_to_add[g] /\ files'[g] = files[g]
      /\ files'[f] = c
  BY <1>1, <1>3, <1>4
<1>8. Range(action_to_add[f]) = {} /\ Range(action_to_add'[f]) = {c}
  <2>1. Range(action_to_add[f]) = {}
    BY <1>1, <1>4, <1>6 DEF AddedInv
  <2>2. action_to_add'[f] = Append(action_to_add[f], c)
    BY <1>1, <1>3, <1>4
  <2>3. Range(Append(action_to_add[f], c)) = Range(action_to_add[f]) \cup {c}
    BY <1>1, <1>4, Holds
  <2> QED
    BY <2>1, <2>2, <2>3
<1>9. /\ \A s, g : g \in Fds => (At(s, g)' <=> At(s, g) \/ (s = c /\ g = f))
      /\ \A g \in Fds : ~At(c, g) /\ c \notin Range(actions[g])
      /\ \A s : At(s, f) => s \in Range(actions[f])
  BY <1>3, <1>4, <1>7, <1>8 DEF At, AcceptedInv
<1>10. TypeOK'
  BY <1>1, <1>3, <1>4, <1>5, <1>7 DEF TypeOK
<1>11. BatchInv'
  <2>1. BatchInv
    OBVIOUS
  <2>2. \A k \in DOMAIN todo' :
          todo'[k].fd \in registered_fd /\ todo'[k].sock \in Range(actions[todo'[k].fd])
    BY <1>5, <2>1 DEF BatchInv
  <2> QED
    BY <1>3, <1>5, <2>1, <2>2 DEF BatchInv, RegisteredHasAction, RemovalsRegistered, FdsOf
<1>12. FilesInv'
  <2>1. \A g \in Fds : files[g] # c
    BY <1>4 DEF FilesInv
  <2>2. f # NetlinkFd /\ f # UnixFd
    BY <1>1, <1>4 DEF FilesInv, Socks
  <2> QED
    BY <1>3, <1>4, <1>7, <2>1, <2>2, DescriptorFacts DEF FilesInv
<1>13. AcceptedInv'
  BY <1>3, <1>9 DEF AcceptedInv
<1>14. AddedInv'
  <2>0. actions' = actions /\ client_from_sock' = client_from_sock
    BY <1>3
  <2> SUFFICES ASSUME NEW g \in Fds, NEW s \in Range(action_to_add'[g])
               PROVE  /\ files'[g] = s
                      /\ \A h \in Fds : s \notin Range(actions[h])
                      /\ \A i \in Sids : client_from_sock[i] # s
    BY <2>0 DEF AddedInv
  <2>1. CASE g = f
    <3>1. s = c
      BY <1>8, <2>1
    <3>2. \A i \in Sids : client_from_sock[i] # c
      BY <1>1, <1>4 DEF AcceptedInv
    <3> QED
      BY <1>7, <1>9, <2>1, <3>1, <3>2
  <2>2. CASE g # f
    BY <1>7, <2>2 DEF AddedInv
  <2> QED
    BY <2>1, <2>2
<1>15. OwnerInv'
  <2> SUFFICES ASSUME NEW d \in Clients \ (ended \cup reused'), NEW g \in Fds, At(d, g)'
               PROVE  files'[g] = d /\ \A s \in Socks : At(s, g)' => s = d
    BY <1>3 DEF OwnerInv
  <2>1. CASE d = c
    <3>1. g = f
      BY <1>9, <2>1
    <3>2. actions[f] = <<>>
      BY <1>3, <1>4, <2>1 DEF FdsOf
    <3>3. Range(actions[f]) = {}
      BY <3>2 DEF Range
    <3> QED
      BY <1>7, <1>9, <2>1, <3>1, <3>3
  <2>2. CASE d # c
    <3>1. At(d, g) /\ d \notin ended \cup reused
      BY <1>3, <1>9, <2>2
    <3>2. files[g] = d /\ \A s \in Socks : At(s, g) => s = d
      BY <3>1 DEF OwnerInv
    <3>3. g # f
      BY <1>1, <1>4, <3>2
    <3> QED
      BY <1>7, <1>9, <3>2, <3>3
  <2> QED
    BY <2>1, <2>2
<1>16. DoomedInv'
  <2> SUFFICES ASSUME NEW g \in Doomed, NEW d \in Clients, At(d, g)', peer'[d] = "open",
                      d \notin ended \cup reused'
               PROVE  FALSE
    BY <1>3, <1>5 DEF DoomedInv, Doomed
  <2>1. g \in registered_fd /\ g \in Fds /\ actions[g] # <<>>
    BY <1>1 DEF Doomed, BatchInv, RegisteredHasAction, RemovalsRegistered, FdsOf
  <2>2. CASE d = c
    <3>1. g = f
      BY <1>9, <2>1, <2>2
    <3> QED
      BY <1>3, <2>1, <2>2, <3>1 DEF FdsOf
  <2>3. CASE d # c
    BY <1>1, <1>3, <1>9, <2>1, <2>3 DEF DoomedInv
  <2> QED
    BY <2>2, <2>3
<1>17. ClientsKept'
  <2>1. \A s : s \in Polled <=> \E g \in Fds : At(s, g)
    BY DEF Polled, SocksOf, At
  <2>2. \A s : s \in Polled' <=> \E g \in Fds : At(s, g)'
    BY DEF Polled, SocksOf, At
  <2>3. Polled' = Polled \cup {c}
    BY <1>4, <1>9, <2>1, <2>2
  <2> QED
    BY <1>1, <1>3, <2>3 DEF ClientsKept
<1> QED
  BY <1>10, <1>11, <1>12, <1>13, <1>14, <1>15, <1>16, <1>17

\* poll_once polls what was added, and reports errors of descriptors that are closed
\* or whose client is gone.
LEMMA PollStep ==
  ASSUME IInv, PollOnce
  PROVE  IInv'
<1> USE DEF IInv
<1>1. /\ actions \in [Fds -> Seq(Socks)] /\ action_to_add \in [Fds -> Seq(Socks)]
      /\ fd_to_remove \subseteq Fds /\ registered_fd \subseteq Fds
      /\ files \in [Fds -> Socks \cup {None}] /\ Clients \subseteq Socks /\ None \notin Socks
      /\ todo \in Seq([fd : Fds, sock : Socks]) /\ accepted \subseteq Clients
  BY Types DEF TypeOK
<1>2. PICK fds, readable :
        /\ fds = registered_fd \cup FdsOf(Added) /\ readable \in SUBSET MayRead(fds)
        /\ actions' = Added /\ action_to_add' = NoActions /\ registered_fd' = fds
        /\ events' = [fd : Errors(fds), err : {TRUE}] \cup [fd : readable, err : {FALSE}]
        /\ pc' \in {"poll", "serve"}
        /\ UNCHANGED <<fd_to_remove, todo, sockets, peer, history>>
  BY DEF PollOnce
<1>3. fds \subseteq Fds /\ Errors(fds) \subseteq fds /\ readable \subseteq fds
  BY <1>1, <1>2 DEF FdsOf, Errors, MayRead
<1>4. /\ events' \subseteq [fd : Fds, err : BOOLEAN]
      /\ \A e \in events' : e.fd \in fds /\ (e.err => e.fd \in Errors(fds))
  BY <1>2, <1>3
<1>5. \A f \in Fds : /\ actions'[f] = actions[f] \o action_to_add[f] /\ action_to_add'[f] = <<>>
                     /\ actions'[f] \in Seq(Socks)
  BY <1>1, <1>2, ConcatProperties DEF Added, NoActions
<1>6. \A f \in Fds : /\ Range(actions'[f]) = Range(actions[f]) \cup Range(action_to_add[f])
                     /\ Range(action_to_add'[f]) = {}
  <2>1. \A f \in Fds : Range(actions[f] \o action_to_add[f])
                         = Range(actions[f]) \cup Range(action_to_add[f])
    BY <1>1, RangeConcatenation
  <2>2. Range(<<>>) = {}
    BY DEF Range
  <2> QED
    BY <1>5, <2>1, <2>2
<1>7. \A s, f : f \in Fds => (At(s, f)' <=> At(s, f))
  BY <1>6 DEF At
<1>8. TypeOK'
  <2>1. actions' \in [Fds -> Seq(Socks)] /\ action_to_add' \in [Fds -> Seq(Socks)]
    <3>1. \A f \in Fds : actions[f] \o action_to_add[f] \in Seq(Socks)
      BY <1>1, ConcatProperties
    <3>2. <<>> \in Seq(Socks)
      BY EmptySeq
    <3> QED
      BY <1>2, <3>1, <3>2 DEF Added, NoActions
  <2> QED
    BY <1>2, <1>3, <1>4, <2>1 DEF TypeOK, sockets, history
<1>9. BatchInv'
  <2>1. RegisteredHasAction'
    BY <1>1, <1>2, <1>3, <1>5 DEF BatchInv, RegisteredHasAction, FdsOf, Added
  <2>2. \A k \in DOMAIN todo :
          todo[k].fd \in fds /\ todo[k].sock \in Range(actions'[todo[k].fd])
    BY <1>1, <1>2, <1>6 DEF BatchInv
  <2> QED
    BY <1>2, <1>4, <2>1, <2>2 DEF BatchInv, RemovalsRegistered
<1>10. FilesInv' /\ AcceptedInv' /\ AddedInv'
  BY <1>2, <1>6, <1>7 DEF FilesInv, AcceptedInv, AddedInv, sockets, history
<1>11. OwnerInv'
  BY <1>2, <1>7 DEF OwnerInv, sockets, history
<1>12. DoomedInv'
  <2> SUFFICES ASSUME NEW f \in Doomed', NEW c \in Clients, At(c, f), peer[c] = "open",
                      c \notin ended \cup reused
               PROVE  FALSE
    <3>1. Doomed' \subseteq Fds
      <4>1. fd_to_remove' = fd_to_remove /\ \A e \in events' : e.fd \in Fds
        BY <1>2, <1>3, <1>4
      <4> QED
        BY <1>1, <4>1 DEF Doomed
    <3>2. peer' = peer /\ ended' = ended /\ reused' = reused
      BY <1>2 DEF history
    <3> QED
      BY <1>7, <3>1, <3>2 DEF DoomedInv
  <2>1. f \notin Doomed
    BY DEF DoomedInv
  <2>2. f \in Errors(fds)
    BY <1>2, <1>4, <2>1 DEF Doomed
  <2>3. files[f] = c
    BY <1>3, <2>2 DEF OwnerInv
  <2> QED
    BY <1>1, <2>2, <2>3 DEF Errors
<1>13. ClientsKept'
  <2>1. \A s : s \in Polled <=> \E g \in Fds : At(s, g)
    BY DEF Polled, SocksOf, At
  <2>2. \A s : s \in Polled' <=> \E g \in Fds : At(s, g)'
    BY DEF Polled, SocksOf, At
  <2>3. Polled' = Polled
    BY <1>7, <2>1, <2>2
  <2> QED
    BY <1>2, <2>3 DEF ClientsKept, history
<1> QED
  BY <1>8, <1>9, <1>10, <1>11, <1>12, <1>13

\* An event is taken off the batch: an error is noted for removal, any other begins
\* the actions of its descriptor.
LEMMA EventStep ==
  ASSUME IInv, NEW e \in events, ErrorEvent(e) \/ ReadEvent(e)
  PROVE  IInv'
<1> USE DEF IInv
<1>1. /\ actions \in [Fds -> Seq(Socks)] /\ events \subseteq [fd : Fds, err : BOOLEAN]
      /\ fd_to_remove \subseteq Fds /\ e.fd \in Fds /\ e.fd \in registered_fd
  BY Types DEF BatchInv
<1>2. /\ events' = events \ {e}
      /\ UNCHANGED <<actions, action_to_add, registered_fd, pc, sockets, peer, history>>
  BY DEF ErrorEvent, ReadEvent, poller
<1>3. \A s, f : At(s, f)' <=> At(s, f)
  BY <1>2 DEF At
<1>4. /\ fd_to_remove' \subseteq fd_to_remove \cup {e.fd} /\ Doomed' \subseteq Doomed
  <2>1. CASE ErrorEvent(e)
    BY <1>2, <2>1 DEF ErrorEvent, AfterError, Doomed
  <2>2. CASE ReadEvent(e)
    BY <1>2, <2>2 DEF ReadEvent, poller, Doomed
  <2> QED
    BY <2>1, <2>2
<1>5. /\ todo' \in Seq([fd : Fds, sock : Socks])
      /\ \A k \in DOMAIN todo' :
           todo'[k].fd \in registered_fd /\ todo'[k].sock \in Range(actions[todo'[k].fd])
  <2>1. CASE ErrorEvent(e)
    BY <2>1, Types DEF ErrorEvent, BatchInv
  <2>2. CASE ReadEvent(e)
    <3>1. PICK fd \in Fds, acts \in Seq(Socks) : fd = e.fd /\ acts = actions[fd]
      BY <1>1
    <3>2. todo' = [k \in DOMAIN acts |-> [fd |-> fd, sock |-> acts[k]]]
      BY <2>2, <3>1 DEF ReadEvent, ActionsOf, Action
    <3>3. /\ DOMAIN acts = 1 .. Len(acts) /\ Len(acts) \in Nat
          /\ \A k \in DOMAIN acts : acts[k] \in Socks
      BY LenProperties, ElementOfSeq
    <3>4. \A k \in DOMAIN acts : [fd |-> fd, sock |-> acts[k]] \in [fd : Fds, sock : Socks]
      BY <3>3
    <3>5. todo' \in Seq([fd : Fds, sock : Socks])
      <4>1. PICK R : R = [fd : Fds, sock : Socks]
        OBVIOUS
      <4>2. PICK n \in Nat : n = Len(acts)
        BY <3>3
      <4>3. todo' \in [1 .. n -> R]
        BY <3>2, <3>3, <3>4, <4>1, <4>2
      <4>4. todo' \in Seq(R)
        BY <4>3, IsASeq
      <4> QED
        BY <4>1, <4>4
    <3>6. \A k \in DOMAIN acts : acts[k] \in Range(acts)
      BY DEF Range
    <3> QED
      BY <1>1, <3>1, <3>2, <3>5, <3>6
  <2> QED
    BY <2>1, <2>2
<1>6. TypeOK'
  BY <1>1, <1>2, <1>4, <1>5 DEF TypeOK, sockets, history
<1>7. BatchInv'
  BY <1>1, <1>2, <1>4, <1>5 DEF BatchInv, RegisteredHasAction, RemovalsRegistered, FdsOf
<1>8. FilesInv' /\ AcceptedInv' /\ AddedInv' /\ OwnerInv'
  BY <1>2, <1>3 DEF FilesInv, AcceptedInv, AddedInv, OwnerInv, sockets, history
<1>9. DoomedInv'
  BY <1>2, <1>3, <1>4 DEF DoomedInv, history
<1>10. ClientsKept'
  BY <1>2 DEF ClientsKept, Polled, SocksOf, history
<1> QED
  BY <1>6, <1>7, <1>8, <1>9, <1>10

\* The removals of the batch take every action of their descriptors along, and the
\* sockets nothing refers to any more close.
LEMMA RemoveStep ==
  ASSUME IInv, NEW done \in SUBSET Fds, RemoveActions(done)
  PROVE  IInv'
<1> USE DEF IInv
<1>1. /\ actions \in [Fds -> Seq(Socks)] /\ action_to_add \in [Fds -> Seq(Socks)]
      /\ fd_to_remove \subseteq Fds /\ registered_fd \subseteq Fds
      /\ files \in [Fds -> Socks \cup {None}] /\ Clients \subseteq Socks /\ None \notin Socks
      /\ NetlinkSock \notin Clients /\ UnixSock \notin Clients /\ accepted \subseteq Clients
  BY Types DEF TypeOK
<1>2. /\ events = {} /\ todo = <<>> /\ done \subseteq fd_to_remove
      /\ done = fd_to_remove \/ fd_to_remove \ (done \cup registered_fd) # {}
      /\ actions' = Kept(done) /\ registered_fd' = registered_fd \ done /\ fd_to_remove' = {}
      /\ files' = Collected(files, Kept(done), client_from_sock) /\ pc' = "poll"
      /\ UNCHANGED <<action_to_add, events, todo, connected, client_from_sock, peer, history>>
  BY DEF RemoveActions, StillRegistered, Left
<1>3. done = fd_to_remove
  BY <1>2 DEF BatchInv, RemovalsRegistered
<1>4. /\ \A f \in Fds : actions'[f] = IF f \in done THEN <<>> ELSE actions[f]
      /\ actions' \in [Fds -> Seq(Socks)]
  <2>1. <<>> \in Seq(Socks)
    BY EmptySeq
  <2> QED
    BY <1>1, <1>2, <2>1 DEF Kept
<1>5. \A f \in Fds : Range(actions'[f]) = IF f \in done THEN {} ELSE Range(actions[f])
  <2>1. Range(<<>>) = {}
    BY DEF Range
  <2> QED
    BY <1>4, <2>1
<1>6. \A s, f : f \in Fds =>
         /\ At(s, f)' => At(s, f)
         /\ At(s, f) /\ f \notin done => At(s, f)'
  BY <1>2, <1>5 DEF At
<1>7. \A f \in Fds :
         \/ files'[f] = files[f]
         \/ /\ files'[f] = None /\ files[f] \in Clients
            /\ \A g \in Fds : files[f] \notin Range(action_to_add[g])
            /\ \A s : s = files[f] => \A g \in Fds : ~At(s, g)'
  <2>1. \A s : s \in SocksOf(Kept(done)) \cup SocksOf(action_to_add)
                <=> \E g \in Fds : At(s, g)'
    BY <1>2 DEF SocksOf, At
  <2> DEFINE referred == SocksOf(Kept(done)) \cup SocksOf(action_to_add)
                           \cup {client_from_sock[i] : i \in Sids}
  <2>2. \A f \in Fds : files'[f] = IF files[f] \in Clients \ referred THEN None ELSE files[f]
    BY <1>2 DEF Collected
  <2>3. ASSUME NEW f \in Fds, files[f] \notin referred
        PROVE  /\ \A g \in Fds : files[f] \notin Range(action_to_add[g])
               /\ \A s : s = files[f] => \A g \in Fds : ~At(s, g)'
    <3>1. \A s : s = files[f] => \A g \in Fds : ~At(s, g)'
      BY <2>1, <2>3
    <3> QED
      BY <2>3, <3>1 DEF SocksOf
  <2> HIDE DEF referred
  <2> QED
    BY <2>2, <2>3
<1>8. TypeOK'
  <2>1. files' \in [Fds -> Socks \cup {None}]
    BY <1>1, <1>2 DEF Collected
  <2> QED
    BY <1>1, <1>2, <1>4, <2>1 DEF TypeOK, history
<1>9. BatchInv'
  BY <1>1, <1>2, <1>4 DEF BatchInv, RegisteredHasAction, RemovalsRegistered, FdsOf
<1>10. FilesInv'
  BY <1>1, <1>2, <1>7, DescriptorFacts DEF FilesInv, history
<1>11. AcceptedInv'
  BY <1>2, <1>6 DEF AcceptedInv, history
<1>12. AddedInv'
  <2> SUFFICES ASSUME NEW f \in Fds, NEW s \in Range(action_to_add[f])
               PROVE  /\ files'[f] = s
                      /\ \A g \in Fds : s \notin Range(actions'[g])
                      /\ \A i \in Sids : client_from_sock[i] # s
    BY <1>2 DEF AddedInv
  <2>1. /\ files[f] = s /\ \A g \in Fds : s \notin Range(actions[g])
        /\ \A i \in Sids : client_from_sock[i] # s
    BY DEF AddedInv
  <2> QED
    BY <1>5, <1>7, <2>1
<1>13. OwnerInv'
  <2> SUFFICES ASSUME NEW c \in Clients \ (ended \cup reused), NEW f \in Fds, At(c, f)'
               PROVE  files'[f] = c /\ \A d \in Socks : At(d, f)' => d = c
    BY <1>2 DEF OwnerInv, history
  <2>1. files[f] = c /\ \A d \in Socks : At(d, f) => d = c
    BY <1>6 DEF OwnerInv
  <2>2. files'[f] = c
    <3>1. ~\A g \in Fds : ~At(c, g)'
      OBVIOUS
    <3>2. \/ files'[f] = files[f]
          \/ \A s : s = files[f] => \A g \in Fds : ~At(s, g)'
      BY <1>7
    <3> QED
      BY <2>1, <3>1, <3>2
  <2>3. \A d \in Socks : At(d, f)' => d = c
    BY <1>6, <2>1
  <2> QED
    BY <2>2, <2>3
<1>14. DoomedInv'
  BY <1>2 DEF DoomedInv, Doomed
<1>15. ClientsKept'
  <2>1. \A s : s \in Polled <=> \E g \in Fds : At(s, g)
    BY DEF Polled, SocksOf, At
  <2>2. \A s : s \in Polled' <=> \E g \in Fds : At(s, g)'
    BY DEF Polled, SocksOf, At
  <2> SUFFICES ASSUME NEW c \in accepted \ (ended \cup reused), peer[c] = "open"
               PROVE  c \in Polled'
    BY <1>2 DEF ClientsKept, history
  <2>3. PICK g \in Fds : At(c, g)
    BY <2>1 DEF ClientsKept
  <2>4. g \notin done
    BY <1>1, <1>3, <2>3 DEF DoomedInv, Doomed
  <2> QED
    BY <1>6, <2>2, <2>3, <2>4
<1> QED
  BY <1>8, <1>9, <1>10, <1>11, <1>12, <1>13, <1>14, <1>15

\* An environment connects or goes away.
LEMMA PeerStep ==
  ASSUME IInv, NEW c \in Clients, Connect(c) \/ Disconnect(c)
  PROVE  IInv'
<1> USE DEF IInv
<1>1. /\ peer' \in [Clients -> {"new", "connecting", "open", "gone", "refused"}]
      /\ \A d \in Clients : peer'[d] = "open" => peer[d] = "open"
      /\ UNCHANGED <<poller, batch, sockets, history>> /\ accepted \subseteq Clients
  BY DEF Connect, Disconnect, TypeOK
<1>2. TypeOK' /\ BatchInv' /\ FilesInv' /\ AcceptedInv' /\ AddedInv' /\ OwnerInv'
  BY <1>1 DEF TypeOK, BatchInv, FilesInv, AcceptedInv, AddedInv, OwnerInv, At,
              RegisteredHasAction, RemovalsRegistered, poller, batch, sockets, history
<1>3. DoomedInv' /\ ClientsKept'
  BY <1>1 DEF DoomedInv, Doomed, ClientsKept, Polled, SocksOf, At, poller, batch, history
<1> QED
  BY <1>2, <1>3

\* main opens the netlink socket and the unix socket.
LEMMA InitInv ==
  ASSUME Init
  PROVE  IInv
<1>1. /\ actions = NoActions /\ fd_to_remove = {} /\ registered_fd = {}
      /\ action_to_add = [f \in Fds |-> IF f = NetlinkFd THEN <<NetlinkSock>>
                                        ELSE IF f = UnixFd THEN <<UnixSock>> ELSE <<>>]
      /\ events = {} /\ todo = <<>>
      /\ files = [f \in Fds |-> IF f = NetlinkFd THEN NetlinkSock
                                ELSE IF f = UnixFd THEN UnixSock ELSE None]
      /\ client_from_sock = [i \in Sids |-> None]
      /\ accepted = {} /\ ended = {} /\ reused = {}
  BY DescriptorFacts DEF Init, NoActions
<1>2. /\ NetlinkFd \in Fds /\ UnixFd \in Fds /\ NetlinkFd # UnixFd
      /\ NetlinkSock # UnixSock /\ NetlinkSock # None /\ UnixSock # None
      /\ NetlinkSock \notin Clients /\ UnixSock \notin Clients /\ None \notin Clients
  BY DescriptorFacts, SocksAssumption
<1>3. /\ \A f \in Fds : Range(actions[f]) = {}
      /\ \A f \in Fds : Range(action_to_add[f]) = IF f = NetlinkFd THEN {NetlinkSock}
                                                  ELSE IF f = UnixFd THEN {UnixSock} ELSE {}
  <2>1. Range(<<>>) = {}
    BY DEF Range
  <2>2. \A s : Range(<<s>>) = {s}
    <3> TAKE s
    <3>1. DOMAIN <<s>> = {1} /\ <<s>>[1] = s
      OBVIOUS
    <3> QED
      BY <3>1 DEF Range
  <2> QED
    BY <1>1, <2>1, <2>2 DEF NoActions
<1>4. TypeOK
  <2>1. actions \in [Fds -> Seq(Socks)] /\ action_to_add \in [Fds -> Seq(Socks)]
    <3>1. NetlinkSock \in Socks /\ UnixSock \in Socks
      BY DEF Socks
    <3>2. <<>> \in Seq(Socks) /\ <<NetlinkSock>> \in Seq(Socks) /\ <<UnixSock>> \in Seq(Socks)
      BY <3>1
    <3> QED
      BY <1>1, <3>2 DEF NoActions
  <2>2. files \in [Fds -> Socks \cup {None}]
    BY <1>1 DEF Socks
  <2> QED
    BY <1>1, <2>1, <2>2, EmptySeq DEF TypeOK, Init
<1>5. BatchInv
  BY <1>1 DEF BatchInv, RegisteredHasAction, RemovalsRegistered
<1>6. FilesInv
  BY <1>1, <1>2 DEF FilesInv
<1>7. AcceptedInv /\ AddedInv /\ OwnerInv
  <2>1. \A f \in Fds, c \in Clients : ~At(c, f)
    BY <1>2, <1>3 DEF At
  <2>2. AcceptedInv /\ OwnerInv
    BY <1>1, <2>1 DEF AcceptedInv, OwnerInv
  <2>3. AddedInv
    <3> SUFFICES ASSUME NEW f \in Fds, NEW s \in Range(action_to_add[f])
                 PROVE  /\ files[f] = s
                        /\ \A g \in Fds : s \notin Range(actions[g])
                        /\ \A i \in Sids : client_from_sock[i] # s
      BY DEF AddedInv
    <3>1. (f = NetlinkFd /\ s = NetlinkSock) \/ (f = UnixFd /\ s = UnixSock)
      BY <1>3
    <3>2. files[f] = s /\ s # None
      BY <1>1, <1>2, <3>1
    <3> QED
      BY <1>1, <1>3, <3>2
  <2> QED
    BY <2>2, <2>3
<1>8. DoomedInv /\ ClientsKept
  BY <1>1 DEF DoomedInv, Doomed, ClientsKept
<1> QED
  BY <1>4, <1>5, <1>6, <1>7, <1>8 DEF IInv

\* The invariant of the loop, whatever the environments do meanwhile.
THEOREM PollerInvariant == Spec => []IInv
<1>1. Init => IInv
  BY InitInv
<1>2. IInv /\ [Next]_vars => IInv'
  <2> SUFFICES ASSUME IInv, [Next]_vars  PROVE  IInv'
    OBVIOUS
  <2>1. CASE \E c \in Clients : Connect(c) \/ Disconnect(c)
    BY <2>1, PeerStep
  <2>2. CASE PollOnce
    BY <2>2, PollStep
  <2>3. CASE \E e \in events : ErrorEvent(e) \/ ReadEvent(e)
    BY <2>3, EventStep
  <2>4. CASE \E c \in Clients : Accept(c)
    BY <2>4, AcceptStep
  <2>5. CASE Callback /\ ~\E c \in Clients : Accept(c)
    <3>1. \/ \E status \in Statuses : ReadNetlink(status)
          \/ \E i \in Sids : ForwardMeasure(i)
          \/ \E c \in Clients :
              \/ ReadEndOfFile(c) \/ ReadPartOfBody(c)
              \/ \E status \in Statuses : RefuseClient(c, status) \/ ReadClient(c, status)
              \/ \E i \in Sids : ReadMeasure(c, i)
      BY <2>5 DEF Callback
    <3> QED
      BY <3>1, CallbackStep
  <2>6. CASE \E done \in SUBSET Fds : RemoveActions(done)
    BY <2>6, RemoveStep
  <2>7. CASE UNCHANGED vars
    <3> USE <2>7 DEF vars, poller, batch, sockets, history
    <3>1. TypeOK' /\ BatchInv' /\ FilesInv'
      BY DEF IInv, TypeOK, BatchInv, FilesInv, RegisteredHasAction, RemovalsRegistered
    <3>2. AcceptedInv' /\ AddedInv' /\ OwnerInv'
      BY DEF IInv, AcceptedInv, AddedInv, OwnerInv, At
    <3>3. DoomedInv' /\ ClientsKept'
      BY DEF IInv, DoomedInv, Doomed, At, ClientsKept, Polled, SocksOf
    <3> QED
      BY <3>1, <3>2, <3>3 DEF IInv
  <2>8. CASE ReadSpins
    BY <2>7, <2>8 DEF ReadSpins
  <2> QED
    BY <2>1, <2>2, <2>3, <2>4, <2>5, <2>6, <2>7, <2>8 DEF Next, Polling
<1> QED
  BY <1>1, <1>2, PTL DEF Spec

-----------------------------------------------------------------------------
(* What the loop promises *)

\* Descriptors, actions and the sockets behind them stay well formed.
THEOREM TypeCorrect == Spec => []TypeOK
<1>1. IInv => TypeOK
  BY DEF IInv
<1> QED
  BY <1>1, PollerInvariant, PTL

\* RegisteredHasAction of poll_once: there is an action for every descriptor poll()
\* reports.
THEOREM EventsHaveActions == Spec => []RegisteredHasAction
<1>1. IInv => RegisteredHasAction
  BY DEF IInv, BatchInv
<1> QED
  BY <1>1, PollerInvariant, PTL

\* RemovalsRegistered of __remove_action: it meets no descriptor that is not
\* registered, so no removal of a batch is forgotten.
THEOREM NoRemovalForgotten == Spec => []RemovalsRegistered
<1>1. IInv => RemovalsRegistered
  BY DEF IInv, BatchInv
<1> QED
  BY <1>1, PollerInvariant, PTL

\* ClientsKept of the loop: a client that is there, and was not given the descriptor
\* of a closed socket that was still polled, stays polled until its own callback ends
\* it, whatever else is cancelled or closed.
THEOREM LiveClientsStay == Spec => []ClientsKept
<1>1. IInv => ClientsKept
  BY DEF IInv
<1> QED
  BY <1>1, PollerInvariant, PTL
=============================================================================
