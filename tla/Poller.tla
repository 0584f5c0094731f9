------------------------------- MODULE Poller -------------------------------
(***************************************************************************)
(* The controller's event loop (src/python/src/poller.py) and the unix     *)
(* sockets it serves (ipc_socket.py, accept_unix_conn of spine.py).        *)
(*                                                                         *)
(* One thread polls, serves the events of a batch in the order of their    *)
(* file descriptors and then removes what the batch has cancelled.  The    *)
(* environments connect and disconnect at any time in between.  What a     *)
(* callback reads is any message it could be: only what it does to sockets *)
(* and to the poller is kept.  A callback that waits (accept_unix_conn for *)
(* the INIT of a client, write for a client to read) has not been taken    *)
(* yet; one that can never return leaves the loop in "spin".               *)
(*                                                                         *)
(* The process' file descriptors are numbers the system gives out again,   *)
(* the lowest free one first; an object that is not referenced any more    *)
(* closes its descriptor.                                                  *)
(*                                                                         *)
(* The actions are kept by descriptor, which is how the code finds and     *)
(* removes them; the order among different descriptors decides nothing.    *)
(*                                                                         *)
(* A definition with the suffix Slip is a plausible mistake in the         *)
(* definition after it; no behaviour uses it.                              *)
(***************************************************************************)
EXTENDS Naturals, Sequences, FiniteSets, Functions

CONSTANTS
    Clients,                 \* connections of environments
    Sids,                    \* sids a client may be cached for
    NetlinkSock, UnixSock,   \* nl_sock, unix_sock
    None

ASSUME SocksAssumption ==
    /\ IsFiniteSet(Clients)
    /\ NetlinkSock # UnixSock
    /\ {NetlinkSock, UnixSock, None} \cap Clients = {}
    /\ None \notin {NetlinkSock, UnixSock}

Socks == Clients \cup {NetlinkSock, UnixSock}

\* nl_sock is opened first, then unix_sock.
NetlinkFd == 1
UnixFd    == 2
Fds == 1 .. Cardinality(Clients) + 2

VARIABLES
    \* Poller
    actions, action_to_add,  \* for each descriptor, the sockets of its actions in order
    fd_to_remove, registered_fd,
    \* poll_once: where it is, the events left, the actions left for one event
    pc, events, todo,
    \* which socket has a descriptor; IPCSocket.connected
    files, connected,
    client_from_sock,
    \* the environments' side of the connections
    peer,
    \* history: clients put into the poller, clients whose own callback cancelled
    \* them or whose socket the controller closed, clients that got the descriptor
    \* of a closed socket the poller still served
    accepted, ended, reused

poller  == <<actions, action_to_add, fd_to_remove, registered_fd>>
batch   == <<pc, events, todo>>
sockets == <<files, connected, client_from_sock>>
history == <<accepted, ended, reused>>
vars == <<poller, batch, sockets, peer, history>>

Action(fd, sock) == [fd |-> fd, sock |-> sock]
NoActions == [f \in Fds |-> <<>>]
FdsOf(acts)   == {f \in Fds : acts[f] # <<>>}
SocksOf(acts) == UNION {Range(acts[f]) : f \in Fds}
Polled == SocksOf(actions) \cup SocksOf(action_to_add)

\* main
Init ==
    /\ actions = NoActions
    /\ action_to_add = [NoActions EXCEPT ![UnixFd] = <<UnixSock>>, ![NetlinkFd] = <<NetlinkSock>>]
    /\ fd_to_remove = {} /\ registered_fd = {}
    /\ pc = "poll" /\ events = {} /\ todo = <<>>
    /\ files = [f \in Fds |-> IF f = NetlinkFd THEN NetlinkSock
                              ELSE IF f = UnixFd THEN UnixSock ELSE None]
    /\ connected = [c \in Clients |-> FALSE]
    /\ client_from_sock = [s \in Sids |-> None]
    /\ peer = [c \in Clients |-> "new"]
    /\ accepted = {} /\ ended = {} /\ reused = {}

\* close: the descriptor is free at once.
Closed(table, c) == [f \in Fds |-> IF table[f] = c THEN None ELSE table[f]]

\* The descriptors of clients nothing refers to are free as well.
Collected(table, acts, cached) ==
    LET referred == SocksOf(acts) \cup SocksOf(action_to_add) \cup {cached[s] : s \in Sids}
    IN  [f \in Fds |-> IF table[f] \in Clients \ referred THEN None ELSE table[f]]

-----------------------------------------------------------------------------
(* The environments *)

Connect(c) ==
    /\ peer[c] = "new"
    /\ peer' = [peer EXCEPT ![c] = "connecting"]
    /\ UNCHANGED <<poller, batch, sockets, history>>

Disconnect(c) ==
    /\ peer[c] \in {"connecting", "open"}
    /\ peer' = [peer EXCEPT ![c] = "gone"]
    /\ UNCHANGED <<poller, batch, sockets, history>>

-----------------------------------------------------------------------------
(* poll_once *)

\* What poll() must report: a registered descriptor that is closed or hung up is an
\* error.  Any other may be readable, unix_sock when a connection waits for accept.
Errors(fds) ==
    {f \in fds : files[f] = None \/ (files[f] \in Clients /\ peer[files[f]] = "gone")}

Waiting(c) == c \notin accepted /\ peer[c] \in {"connecting", "gone"}
MayRead(fds) ==
    {f \in fds \ Errors(fds) : files[f] = UnixSock => \E c \in Clients : Waiting(c)}

\* New actions are registered with their descriptor unless it is registered already.
AddedSlip == action_to_add
Added == [f \in Fds |-> actions[f] \o action_to_add[f]]

PollOnce ==
    LET fds == registered_fd \cup FdsOf(Added)
    IN  /\ pc = "poll"
        /\ actions' = Added /\ action_to_add' = NoActions
        /\ registered_fd' = fds
        /\ \E readable \in SUBSET MayRead(fds) :
              /\ events' = [fd : Errors(fds), err : {TRUE}] \cup [fd : readable, err : {FALSE}]
              /\ pc' = IF Errors(fds) \cup readable = {} THEN "poll" ELSE "serve"
        /\ UNCHANGED <<fd_to_remove, todo, sockets, peer, history>>

\* sorted(events)
IsNext(e) == e \in events /\ \A d \in events : e.fd <= d.fd

ActionsOf(fd) == [k \in DOMAIN actions[fd] |-> Action(fd, actions[fd][k])]

AfterErrorSlip(fd) == fd_to_remove
AfterError(fd) == fd_to_remove \cup {fd}

\* An error removes the descriptor; no action has an error callback.  The code takes
\* the first action of the descriptor without asking whether there is one.
ErrorEvent(e) ==
    /\ pc = "serve" /\ todo = <<>> /\ IsNext(e) /\ e.err
    /\ events' = events \ {e}
    /\ fd_to_remove' = AfterError(e.fd)
    /\ UNCHANGED <<actions, action_to_add, registered_fd, pc, todo, sockets, peer, history>>

ReadEvent(e) ==
    /\ pc = "serve" /\ todo = <<>> /\ IsNext(e) /\ ~e.err
    /\ events' = events \ {e}
    /\ todo' = ActionsOf(e.fd)
    /\ UNCHANGED <<poller, pc, sockets, peer, history>>

\* What the callback's result does: Continue goes on with the next action of the
\* descriptor; Cancel and an exception remove the descriptor and skip the rest.
Returned(status) ==
    IF status = "Continue"
      THEN todo' = Tail(todo) /\ UNCHANGED fd_to_remove
      ELSE todo' = <<>> /\ fd_to_remove' = fd_to_remove \cup {Head(todo).fd}

Running(sock) == pc = "serve" /\ todo # <<>> /\ Head(todo).sock = sock

\* read_netlink_message: a measurement is written to the client of its sid, and the
\* write closes the client's socket when the environment is gone.
ReadNetlink(status) ==
    /\ Running(NetlinkSock)
    /\ Returned(status)
    /\ UNCHANGED <<actions, action_to_add, registered_fd, pc, events, sockets, peer, history>>

ForwardMeasure(s) ==
    LET c == client_from_sock[s]
    IN  /\ Running(NetlinkSock)
        /\ c # None /\ connected[c] /\ peer[c] = "gone"
        /\ files' = Closed(files, c)
        /\ connected' = [connected EXCEPT ![c] = FALSE]
        /\ ended' = ended \cup {c}
        /\ Returned("Continue")
        /\ UNCHANGED <<actions, action_to_add, registered_fd, pc, events,
                       client_from_sock, peer, accepted, reused>>

\* accept: the lowest free descriptor
LowestFree == CHOOSE f \in Fds : files[f] = None /\ \A g \in 1 .. f - 1 : files[g] # None

\* accept_unix_conn with an INIT message: the client waits in action_to_add for the
\* next poll_once.
Accept(c) ==
    /\ Running(UnixSock)
    /\ Waiting(c)
    /\ files' = [files EXCEPT ![LowestFree] = c]
    /\ connected' = [connected EXCEPT ![c] = TRUE]
    /\ action_to_add' = [action_to_add EXCEPT ![LowestFree] = Append(@, c)]
    /\ peer' = [peer EXCEPT ![c] = IF @ = "connecting" THEN "open" ELSE @]
    /\ accepted' = accepted \cup {c}
    /\ reused' = IF LowestFree \in FdsOf(actions) THEN reused \cup {c} ELSE reused
    /\ Returned("Continue")
    /\ UNCHANGED <<actions, registered_fd, pc, events, client_from_sock, ended>>

\* A first message that is not an INIT is answered by dropping the connection.  One
\* that is malformed raises, whether its client is there or not, and so does a
\* connection that is closed before its INIT: json.loads(None).
RefuseClient(c, status) ==
    /\ Running(UnixSock)
    /\ Waiting(c)
    /\ status # "Cancel"
    /\ peer' = [peer EXCEPT ![c] = "refused"]
    /\ Returned(status)
    /\ UNCHANGED <<actions, action_to_add, registered_fd, pc, events, sockets, history>>

\* read_unix_message.  A socket that is not connected any more, TERMINATE and a wrong
\* type cancel; a message that is not understood raises, and so does one of which only
\* the header has arrived (the handler of EAGAIN reads data before it is assigned).
\* End of file closes the socket and cancels.
ReadClient(c, status) ==
    /\ Running(c)
    /\ connected[c] \/ status = "Cancel"
    /\ ended' = IF status = "Continue" THEN ended ELSE ended \cup {c}
    /\ Returned(status)
    /\ UNCHANGED <<actions, action_to_add, registered_fd, pc, events, sockets, peer,
                   accepted, reused>>

ReadEndOfFile(c) ==
    /\ Running(c)
    /\ connected[c] /\ peer[c] = "gone"
    /\ files' = Closed(files, c)
    /\ connected' = [connected EXCEPT ![c] = FALSE]
    /\ ended' = ended \cup {c}
    /\ Returned("Cancel")
    /\ UNCHANGED <<actions, action_to_add, registered_fd, pc, events,
                   client_from_sock, peer, accepted, reused>>

\* The body arrives in parts and the next one is not there yet: read closes the socket
\* and goes on to receive from it, where every further error is caught by the same loop.
ReadPartOfBody(c) ==
    /\ Running(c)
    /\ connected[c] /\ peer[c] = "open"
    /\ files' = Closed(files, c)
    /\ connected' = [connected EXCEPT ![c] = FALSE]
    /\ ended' = ended \cup {c}
    /\ pc' = "spin"
    /\ UNCHANGED <<poller, events, todo, client_from_sock, peer, accepted, reused>>

\* while read_len < data_len
ReadSpins == pc = "spin" /\ UNCHANGED vars

\* A MEASURE request caches the client for its sid.
ReadMeasure(c, s) ==
    LET cached == [client_from_sock EXCEPT ![s] = c]
    IN  /\ Running(c)
        /\ connected[c]
        /\ client_from_sock' = cached
        /\ files' = Collected(files, actions, cached)
        /\ Returned("Continue")
        /\ UNCHANGED <<actions, action_to_add, registered_fd, pc, events, connected,
                       peer, history>>

\* __remove_action takes the descriptors in any order and stops at one that is not
\* registered; what is left is forgotten by clear().
LeftSlip(done) == done
Left(done) == {}
StillRegisteredSlip(done) == registered_fd
StillRegistered(done) == registered_fd \ done

Kept(done) == [f \in Fds |-> IF f \in done THEN <<>> ELSE actions[f]]

RemoveActions(done) ==
    /\ pc = "serve" /\ events = {} /\ todo = <<>>
    /\ done \subseteq fd_to_remove \cap registered_fd
    /\ done = fd_to_remove \/ fd_to_remove \ (done \cup registered_fd) # {}
    /\ actions' = Kept(done)
    /\ registered_fd' = StillRegistered(done)
    /\ fd_to_remove' = Left(done)
    /\ files' = Collected(files, actions', client_from_sock)
    /\ pc' = "poll"
    /\ UNCHANGED <<action_to_add, events, todo, connected, client_from_sock, peer, history>>

-----------------------------------------------------------------------------
Statuses == {"Continue", "Cancel", "raised"}

Callback ==
    \/ \E status \in Statuses : ReadNetlink(status)
    \/ \E s \in Sids : ForwardMeasure(s)
    \/ \E c \in Clients :
        \/ Accept(c)
        \/ ReadEndOfFile(c)
        \/ ReadPartOfBody(c)
        \/ \E status \in Statuses : RefuseClient(c, status) \/ ReadClient(c, status)
        \/ \E s \in Sids : ReadMeasure(c, s)

Polling ==
    \/ PollOnce
    \/ \E e \in events : ErrorEvent(e) \/ ReadEvent(e)
    \/ \E done \in SUBSET Fds : RemoveActions(done)

Next ==
    \/ \E c \in Clients : Connect(c) \/ Disconnect(c)
    \/ Polling
    \/ Callback
    \/ ReadSpins

Spec == Init /\ [][Next]_vars

\* The thread keeps polling between callbacks: polling() has no way out, poll() has a
\* timeout, and nothing else in poll_once waits.  Whether a callback returns is up to
\* the environments.
FairSpec == Spec /\ WF_vars(Polling)

-----------------------------------------------------------------------------
(* Correctness *)

TypeOK ==
    /\ actions \in [Fds -> Seq(Socks)] /\ action_to_add \in [Fds -> Seq(Socks)]
    /\ fd_to_remove \subseteq Fds /\ registered_fd \subseteq Fds
    /\ pc \in {"poll", "serve", "spin"}
    /\ events \subseteq [fd : Fds, err : BOOLEAN]
    /\ todo \in Seq([fd : Fds, sock : Socks])
    /\ files \in [Fds -> Socks \cup {None}]
    /\ connected \in [Clients -> BOOLEAN]
    /\ client_from_sock \in [Sids -> Clients \cup {None}]
    /\ peer \in [Clients -> {"new", "connecting", "open", "gone", "refused"}]
    /\ ended \subseteq accepted /\ reused \subseteq accepted
    /\ accepted \subseteq Clients

\* poll_once finds an action for every descriptor poll() reports, also when one was
\* closed and given out again while the batch was served: otherwise actions[0]
\* (poller.py:164) raises outside the try and ends the controller's only thread.
RegisteredHasAction == registered_fd \subseteq FdsOf(actions)

\* __remove_action never meets a descriptor that is not registered, where it would
\* stop and forget the other removals of the batch (poller.py:81-83).
RemovalsRegistered == fd_to_remove \subseteq registered_fd

\* "accept new conn and register to poller" (spine.py:191): a client whose
\* environment is there stays with the poller until its own callback cancels it,
\* whatever else the batches cancel and whatever other sockets are closed meanwhile.
\* Nothing is said of a client that was given the descriptor of a closed socket the
\* poller still had an action for: it can be removed along with that action.
ClientsKept ==
    \A c \in accepted \ (ended \cup reused) : peer[c] = "open" => c \in Polled

\* The descriptor of c's action has been given to another client, which is there.
HiddenBy(c, d) == \E f \in Fds : c \in Range(actions[f]) /\ files[f] = d /\ peer[d] = "open"

\* Every callback returns: a client that connects sends its INIT or goes away
\* (spine.py:185), clients read what is written to them (ipc_socket.py:209-216), and
\* bodies arrive in one piece (ipc_socket.py:70-89).
CallbacksReturn == WF_vars(Callback) /\ [](pc # "spin")

\* As long as callbacks return, the action of an environment that went away is removed
\* in the end, by the error or the end of file its descriptor reports, also when its
\* socket was closed by a write and when a batch removes several: it stays only while
\* another client that is there has its descriptor.
DeadClientsRemoved ==
    CallbacksReturn =>
        \A c \in Clients :
            peer[c] = "gone" /\ c \in Polled
                ~> c \notin Polled \/ \E d \in Clients \ {c} : HiddenBy(c, d)

=============================================================================
