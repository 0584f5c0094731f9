----------------------------- MODULE Controller -----------------------------
(***************************************************************************)
(* The user-space controller (src/python/src/spine.py, spine_flow.py).     *)
(* One thread polls the netlink socket of the kernel and the unix sockets  *)
(* of the environments and handles one message at a time, so a handler is  *)
(* one action.  Environments (the RL side) may send any message at any     *)
(* time; one from an environment that is not registered changes nothing.   *)
(*                                                                         *)
(* The kernel is reduced to what it promises here: a slot (sid) is free or *)
(* carries a connection to some dst_port; a connection announces itself    *)
(* with CREATE, a release sends RELEASE, a MEASURE request is answered.    *)
(* The netlink socket is a queue.  Python's hash() of an environment's id  *)
(* is taken to be injective.                                               *)
(*                                                                         *)
(* A definition with the suffix Slip is a plausible mistake in the         *)
(* definition after it; no behaviour uses it.                              *)
(***************************************************************************)
EXTENDS Naturals, Sequences

CONSTANTS Envs, Ports, FlowIds,
    Sids,            \* sids the kernel assigns, from 1
    None,            \* a key that is not in the dictionary
    MaxQueue         \* bound: netlink messages waiting for the controller

ASSUME NoneAssumption ==
    None \notin Envs \cup Ports \cup FlowIds \cup Sids
ASSUME SidsAssumption == Sids \subseteq Nat \ {0} /\ MaxQueue \in Nat

VARIABLES
    \* EnvFlows
    flows_per_env,          \* registered environments
    dst_port_to_env_id, sock_id_to_env_id,
    \* ActiveFlowMap of each environment
    kernel_flows,           \* sid to dst_port of its Flow
    flow_id_to_sock_id, dst_port_to_flow_id,
    \* spine.py
    client_from_sock,       \* the environment that last asked for a sid
    \* the kernel's side
    conn,                   \* sid to dst_port of its connection
    announced,              \* sids whose connection has sent its CREATE
    asked,                  \* sids with a MEASURE request to answer
    adrift,                 \* a request is being staged for a connection that is gone
    netlink                 \* messages to the controller

envFlows   == <<flows_per_env, dst_port_to_env_id, sock_id_to_env_id>>
activeMaps == <<kernel_flows, flow_id_to_sock_id, dst_port_to_flow_id>>
kernel     == <<conn, announced, asked, adrift>>
vars == <<envFlows, activeMaps, client_from_sock, kernel, netlink>>

NoFlows    == [s \in Sids |-> None]
NoSockIds  == [f \in FlowIds |-> None]
NoPorts    == [p \in Ports |-> None]

Init ==
    /\ flows_per_env = {}
    /\ dst_port_to_env_id = NoPorts
    /\ sock_id_to_env_id = NoFlows
    /\ kernel_flows = [e \in Envs |-> NoFlows]
    /\ flow_id_to_sock_id = [e \in Envs |-> NoSockIds]
    /\ dst_port_to_flow_id = [e \in Envs |-> NoPorts]
    /\ client_from_sock = NoFlows
    /\ conn = NoFlows
    /\ announced = {} /\ asked = {} /\ adrift = FALSE
    /\ netlink = <<>>

FreshMapsSlip(e) ==
    /\ kernel_flows' = [kernel_flows EXCEPT ![e] = NoFlows]
    /\ dst_port_to_flow_id' = [dst_port_to_flow_id EXCEPT ![e] = NoPorts]
    /\ UNCHANGED flow_id_to_sock_id
\* ActiveFlowMap(): what the maps of e become when it is created or dropped
FreshMaps(e) ==
    /\ kernel_flows' = [kernel_flows EXCEPT ![e] = NoFlows]
    /\ flow_id_to_sock_id' = [flow_id_to_sock_id EXCEPT ![e] = NoSockIds]
    /\ dst_port_to_flow_id' = [dst_port_to_flow_id EXCEPT ![e] = NoPorts]

-----------------------------------------------------------------------------
(* The kernel *)

Post(m) ==
    /\ Len(netlink) < MaxQueue
    /\ netlink' = Append(netlink, m)

\* A connection takes a free slot.
Connect(s, p) ==
    /\ conn[s] = None
    /\ conn' = [conn EXCEPT ![s] = p]
    /\ UNCHANGED <<envFlows, activeMaps, client_from_sock, announced, asked, adrift,
                   netlink>>

\* It announces itself at once or, while the sends fail, later, under the sid the
\* controller shall use (conn->index, not the array index).
CreateSidSlip(s) == s - 1
CreateSid(s) == s

Announce(s) ==
    /\ conn[s] # None /\ s \notin announced
    /\ announced' = announced \cup {s}
    /\ Post([type |-> "CREATE", sock_id |-> CreateSid(s), id |-> s, dst_port |-> conn[s]])
    /\ UNCHANGED <<envFlows, activeMaps, client_from_sock, conn, asked, adrift>>

\* write_release_msg: the header names sid 0, the payload the released sid.  A
\* RELEASE that cannot be sent is not sent again.  A request for s may be on its way
\* through spine_read_msg just then; the model does not tell it from one that is staged.
Disconnect(s) ==
    /\ conn[s] # None
    /\ conn' = [conn EXCEPT ![s] = None]
    /\ announced' = announced \ {s}
    /\ asked' = asked \ {s}
    /\ adrift' \in {adrift, adrift \/ s \in asked}
    /\ \/ Post([type |-> "RELEASE", sock_id |-> 0, id |-> s, dst_port |-> None])
       \/ UNCHANGED netlink
    /\ UNCHANGED <<envFlows, activeMaps, client_from_sock>>

\* Such a request raises the flag of whatever connection has the memory by then.
RequestLands(s) ==
    /\ adrift /\ adrift' = FALSE
    /\ conn[s] # None
    /\ asked' = asked \cup {s}
    /\ UNCHANGED <<envFlows, activeMaps, client_from_sock, conn, announced, netlink>>

\* An announced connection answers at its next ACK, or drops the request.
AnswerMeasure(s) ==
    /\ s \in asked \cap announced
    /\ asked' = asked \ {s}
    /\ \/ Post([type |-> "MEASURE", sock_id |-> s, id |-> s, dst_port |-> None])
       \/ UNCHANGED netlink
    /\ UNCHANGED <<envFlows, activeMaps, client_from_sock, conn, announced, adrift>>

-----------------------------------------------------------------------------
(* read_netlink_message *)

Arrives(type) ==
    /\ netlink # <<>>
    /\ Head(netlink).type = type
    /\ netlink' = Tail(netlink)

\* try_associate: the flow id registered for the port, unless it has a sid
AssociatesSlip(e, p) ==
    /\ dst_port_to_flow_id[e][p] # None
    /\ flow_id_to_sock_id[e][dst_port_to_flow_id[e][p]] # None
Associates(e, p) ==
    /\ dst_port_to_flow_id[e][p] # None
    /\ flow_id_to_sock_id[e][dst_port_to_flow_id[e][p]] = None

\* add_flow_with_sockId refuses a sid it still knows.
IsNewSlip(e, s) == TRUE
IsNew(e, s) == kernel_flows[e][s] = None

\* CREATE is dropped when no registered environment has claimed the port.
NlCreate ==
    LET s == Head(netlink).sock_id
        p == Head(netlink).dst_port
        e == dst_port_to_env_id[p]
        known == e # None /\ e \in flows_per_env
        new == known /\ IsNew(e, s)
    IN  /\ Arrives("CREATE")
        /\ kernel_flows' = IF new THEN [kernel_flows EXCEPT ![e][s] = p] ELSE kernel_flows
        /\ flow_id_to_sock_id' =
               IF new /\ Associates(e, p)
                 THEN [flow_id_to_sock_id EXCEPT ![e][dst_port_to_flow_id[e][p]] = s]
                 ELSE flow_id_to_sock_id
        /\ sock_id_to_env_id' =
               IF known /\ sock_id_to_env_id[s] = None
                 THEN [sock_id_to_env_id EXCEPT ![s] = e] ELSE sock_id_to_env_id
        /\ UNCHANGED <<flows_per_env, dst_port_to_env_id, dst_port_to_flow_id,
                       client_from_sock, kernel>>

\* The answer goes to the cached client; without one the lookup raises.
NlMeasure ==
    /\ Arrives("MEASURE")
    /\ UNCHANGED <<envFlows, activeMaps, client_from_sock, kernel>>

\* The cached environment of the sid in the header is dropped.
NlRelease ==
    LET s == Head(netlink).sock_id
    IN  /\ Arrives("RELEASE")
        /\ sock_id_to_env_id' =
               [x \in Sids |-> IF x = s THEN None ELSE sock_id_to_env_id[x]]
        /\ UNCHANGED <<flows_per_env, dst_port_to_env_id, activeMaps,
                       client_from_sock, kernel>>

-----------------------------------------------------------------------------
(* accept_unix_conn and read_unix_message *)

\* INIT of a new client; the environment may have been here before.
EnvInit(e) ==
    /\ flows_per_env' = flows_per_env \cup {e}
    /\ FreshMaps(e)
    /\ UNCHANGED <<dst_port_to_env_id, sock_id_to_env_id, client_from_sock,
                   kernel, netlink>>

\* bind_port_to_env: the first environment keeps the port.
PortOwnerSlip(p, e) == e
PortOwner(p, e) == IF dst_port_to_env_id[p] = None THEN e ELSE dst_port_to_env_id[p]

EnvStart(e, f, p) ==
    /\ e \in flows_per_env
    /\ dst_port_to_env_id' = [dst_port_to_env_id EXCEPT ![p] = PortOwner(p, e)]
    /\ dst_port_to_flow_id' =
           IF dst_port_to_flow_id[e][p] = None
             THEN [dst_port_to_flow_id EXCEPT ![e][p] = f] ELSE dst_port_to_flow_id
    /\ UNCHANGED <<flows_per_env, sock_id_to_env_id, kernel_flows,
                   flow_id_to_sock_id, client_from_sock, kernel, netlink>>

\* remove_flow_by_flowId, remove_flow_by_sockId and release_port_to_env: a flow
\* without a sid is not found, and so neither is its port.
EnvEnd(e, f) ==
    LET s == flow_id_to_sock_id[e][f]
        found == s # None /\ kernel_flows[e][s] # None
        p == kernel_flows[e][s]
    IN  /\ e \in flows_per_env
        /\ flow_id_to_sock_id' = [flow_id_to_sock_id EXCEPT ![e][f] = None]
        /\ IF found
             THEN /\ kernel_flows' = [kernel_flows EXCEPT ![e][s] = None]
                  /\ dst_port_to_flow_id' = [dst_port_to_flow_id EXCEPT ![e][p] = None]
                  /\ dst_port_to_env_id' = [dst_port_to_env_id EXCEPT ![p] = None]
             ELSE UNCHANGED <<kernel_flows, dst_port_to_flow_id, dst_port_to_env_id>>
        /\ UNCHANGED <<flows_per_env, sock_id_to_env_id, client_from_sock,
                       kernel, netlink>>

\* remove_all_env_flows and release_env
KeptBindingsSlip(e) == dst_port_to_env_id
KeptBindings(e) ==
    [p \in Ports |-> IF dst_port_to_env_id[p] = e THEN None ELSE dst_port_to_env_id[p]]

EnvTerminate(e) ==
    /\ e \in flows_per_env
    /\ flows_per_env' = flows_per_env \ {e}
    /\ FreshMaps(e)
    /\ dst_port_to_env_id' = KeptBindings(e)
    /\ sock_id_to_env_id' =
           [s \in Sids |-> IF sock_id_to_env_id[s] = e THEN None ELSE sock_id_to_env_id[s]]
    /\ UNCHANGED <<client_from_sock, kernel, netlink>>

\* The client is cached for the sid, then the request (there may be none) goes to the
\* kernel, which stages it for the connection that has the sid now (or see Disconnect).
ClientsSlip(s, e) == client_from_sock
ClientsFirstSlip(s, e) ==
    [client_from_sock EXCEPT ![s] = IF @ = None THEN e ELSE @]
Clients(s, e) == [client_from_sock EXCEPT ![s] = e]

EnvMeasure(e, f, request) ==
    LET s == flow_id_to_sock_id[e][f]
    IN  /\ e \in flows_per_env
        /\ s # None
        /\ client_from_sock' = Clients(s, e)
        /\ asked' = IF request /\ conn[s] # None THEN asked \cup {s} ELSE asked
        /\ UNCHANGED <<envFlows, activeMaps, conn, announced, adrift, netlink>>

\* ALIVE sends the action to the sid of the flow and changes nothing here.
EnvAlive(e, f) ==
    /\ e \in flows_per_env
    /\ flow_id_to_sock_id[e][f] # None
    /\ UNCHANGED <<envFlows, activeMaps, client_from_sock, kernel, netlink>>

Next ==
    \/ \E s \in Sids, p \in Ports : Connect(s, p)
    \/ \E s \in Sids : Announce(s) \/ Disconnect(s) \/ RequestLands(s) \/ AnswerMeasure(s)
    \/ NlCreate \/ NlMeasure \/ NlRelease
    \/ \E e \in Envs :
        \/ EnvInit(e) \/ EnvTerminate(e)
        \/ \E f \in FlowIds :
             \/ \E p \in Ports : EnvStart(e, f, p)
             \/ EnvEnd(e, f)
             \/ \E request \in BOOLEAN : EnvMeasure(e, f, request)
             \/ EnvAlive(e, f)

Spec == Init /\ [][Next]_vars

-----------------------------------------------------------------------------
(* Correctness *)

Messages == [type : {"CREATE", "RELEASE", "MEASURE"}, sock_id : Sids \cup {0},
             id : Sids, dst_port : Ports \cup {None}]

TypeOK ==
    /\ flows_per_env \subseteq Envs
    /\ dst_port_to_env_id \in [Ports -> Envs \cup {None}]
    /\ sock_id_to_env_id \in [Sids -> Envs \cup {None}]
    /\ kernel_flows \in [Envs -> [Sids -> Ports \cup {None}]]
    /\ flow_id_to_sock_id \in [Envs -> [FlowIds -> Sids \cup {None}]]
    /\ dst_port_to_flow_id \in [Envs -> [Ports -> FlowIds \cup {None}]]
    /\ client_from_sock \in [Sids -> Envs \cup {None}]
    /\ conn \in [Sids -> Ports \cup {None}]
    /\ announced \subseteq Sids /\ asked \subseteq Sids /\ adrift \in BOOLEAN
    /\ netlink \in Seq(Messages)
    /\ \A k \in DOMAIN netlink :
          /\ netlink[k].type # "RELEASE" => netlink[k].sock_id \in Sids
          /\ netlink[k].type = "CREATE" => netlink[k].dst_port \in Ports

\* The four maps agree ("they should exists in these two maps",
\* spine_flow.py:104): a flow with a sid is known as a kernel flow, the port of that
\* kernel flow is registered for this flow and bound to this environment.  So no two
\* flows of an environment share a sid, and END finds and frees what START bound,
\* whatever CREATE messages of released or reused sids arrive in between.
AssociationsAgree ==
    \A e \in Envs, f \in FlowIds :
        LET s == flow_id_to_sock_id[e][f]
        IN  s # None =>
              /\ e \in flows_per_env
              /\ kernel_flows[e][s] # None
              /\ dst_port_to_flow_id[e][kernel_flows[e][s]] = f
              /\ dst_port_to_env_id[kernel_flows[e][s]] = e

\* CREATE never meets a port bound to an environment that is gone, across
\* TERMINATE, a second INIT and ports two environments compete for.
BoundToRegistered ==
    \A p \in Ports : dst_port_to_env_id[p] # None => dst_port_to_env_id[p] \in flows_per_env

=============================================================================
