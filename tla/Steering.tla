------------------------------ MODULE Steering ------------------------------
(***************************************************************************)
(* The controller and the kernel's connections composed, along the path of *)
(* an action or a request: environment, controller, the connection that    *)
(* has the sid now, and back.  The handlers and the kernel's side are      *)
(* those of Controller; here the controller may also crash and be started  *)
(* again while the kernel keeps its connections, and an exception in a     *)
(* netlink handler makes the poller give up the netlink socket.            *)
(*                                                                         *)
(* An action is staged by the sender's own system call, so it reaches the  *)
(* connection the sid names in the same step (EnvAlive); a connection that *)
(* closes during that call is Datapath's subject, and here only what the   *)
(* controller sees of it: a reply nobody asked for (RequestLands).         *)
(***************************************************************************)
EXTENDS Controller

VARIABLES
    listening,     \* the netlink socket is polled
    \* history
    origins,       \* for each message under way, the environment whose request it answers
    asker,         \* for each sid with a request to answer, who asked and may know
    abandoned,     \* sids of connections that closed before environment e ended its flow
    stray,         \* sids whose client is cached for such a flow
    orphaned       \* a request was left to a later controller, or to another connection

history == <<origins, asker, abandoned, stray, orphaned>>
steeringVars == <<vars, listening, history>>

SteeringInit ==
    /\ Init
    /\ listening = TRUE
    /\ origins = <<>>
    /\ asker = NoFlows
    /\ abandoned = [e \in Envs |-> {}]
    /\ stray = {} /\ orphaned = FALSE

\* origins grows and shrinks with the netlink queue.
Posts(origin) ==
    origins' = IF netlink' = netlink THEN origins ELSE Append(origins, origin)

-----------------------------------------------------------------------------
(* The kernel *)

KernelConnects(s, p) ==
    /\ Connect(s, p)
    /\ UNCHANGED <<listening, history>>

KernelAnnounces(s) ==
    /\ Announce(s)
    /\ Posts(None)
    /\ UNCHANGED <<listening, asker, abandoned, stray, orphaned>>

\* The flow of e on this sid has not ended, or may still begin.
CreateUnderWay(s) ==
    \E k \in DOMAIN netlink : netlink[k].type = "CREATE" /\ netlink[k].sock_id = s
Unended(e, s) == kernel_flows[e][s] # None \/ CreateUnderWay(s)

KernelDisconnects(s) ==
    /\ Disconnect(s)
    /\ Posts(None)
    /\ asker' = [asker EXCEPT ![s] = None]
    /\ abandoned' = [e \in Envs |->
           IF Unended(e, s) THEN abandoned[e] \cup {s} ELSE abandoned[e]]
    /\ UNCHANGED <<listening, stray, orphaned>>

KernelAnswers(s) ==
    /\ AnswerMeasure(s)
    /\ Posts(asker[s])
    /\ asker' = [asker EXCEPT ![s] = None]
    /\ UNCHANGED <<listening, abandoned, stray, orphaned>>

\* The request that lands on s was made for another sid.
KernelTakesStray(s) ==
    /\ RequestLands(s)
    /\ orphaned' = TRUE
    /\ UNCHANGED <<listening, origins, asker, abandoned, stray>>

-----------------------------------------------------------------------------
(* The controller *)

Reads ==
    /\ listening
    /\ netlink # <<>>
    /\ origins' = Tail(origins)

ReadsCreate ==
    /\ Reads
    /\ NlCreate
    /\ UNCHANGED <<listening, asker, abandoned, stray, orphaned>>

\* client_from_sock[sock_id] raises when nobody is cached; the poller then removes
\* the action of the netlink socket for good.
ReadsMeasure ==
    /\ Reads
    /\ NlMeasure
    /\ listening' = (client_from_sock[Head(netlink).sock_id] # None)
    /\ UNCHANGED <<asker, abandoned, stray, orphaned>>

ReadsRelease ==
    /\ Reads
    /\ NlRelease
    /\ UNCHANGED <<listening, asker, abandoned, stray, orphaned>>

\* A message of an environment; what e forgets is not abandoned any more.
Forgets(e) == [abandoned EXCEPT ![e] = {s \in @ : Unended(e, s)' }]

EnvSends(e) ==
    /\ \/ EnvInit(e) \/ EnvTerminate(e)
       \/ \E f \in FlowIds : EnvEnd(e, f) \/ EnvAlive(e, f)
       \/ \E f \in FlowIds, p \in Ports : EnvStart(e, f, p)
    /\ abandoned' = Forgets(e)
    /\ UNCHANGED <<listening, origins, asker, stray, orphaned>>

EnvAsks(e, f, request) ==
    LET s == flow_id_to_sock_id[e][f]
    IN  /\ EnvMeasure(e, f, request)
        /\ asker' = IF request /\ conn[s] # None
             THEN [asker EXCEPT ![s] = IF s \in abandoned[e] THEN None ELSE e] ELSE asker
        /\ stray' = IF s \in abandoned[e] THEN stray \cup {s} ELSE stray \ {s}
        /\ UNCHANGED <<listening, origins, abandoned, orphaned>>

\* A crash and a new start: the maps are empty and the netlink socket is a new one.
\* What the kernel was told, and has announced, it does not forget.
Restart ==
    /\ listening' = TRUE
    /\ flows_per_env' = {}
    /\ dst_port_to_env_id' = NoPorts
    /\ sock_id_to_env_id' = NoFlows
    /\ kernel_flows' = [e \in Envs |-> NoFlows]
    /\ flow_id_to_sock_id' = [e \in Envs |-> NoSockIds]
    /\ dst_port_to_flow_id' = [e \in Envs |-> NoPorts]
    /\ client_from_sock' = NoFlows
    /\ netlink' = <<>> /\ origins' = <<>>
    /\ abandoned' = [e \in Envs |-> {}]
    /\ stray' = {}
    /\ orphaned' = (orphaned \/ asked # {})
    /\ UNCHANGED <<kernel, asker>>

SteeringNext ==
    \/ \E s \in Sids, p \in Ports : KernelConnects(s, p)
    \/ \E s \in Sids : KernelAnnounces(s) \/ KernelDisconnects(s) \/ KernelTakesStray(s)
                     \/ KernelAnswers(s)
    \/ ReadsCreate \/ ReadsMeasure \/ ReadsRelease
    \/ \E e \in Envs : EnvSends(e)
    \/ \E e \in Envs, f \in FlowIds, request \in BOOLEAN : EnvAsks(e, f, request)
    \/ Restart

\* The poller comes back to a netlink socket it polls, as long as its callbacks return
\* (CallbacksReturn of Poller).
SteeringSpec ==
    /\ SteeringInit /\ [][SteeringNext]_steeringVars
    /\ WF_steeringVars(ReadsCreate \/ ReadsMeasure \/ ReadsRelease)

-----------------------------------------------------------------------------
(* Correctness *)

\* Only its own END and TERMINATE take a port from an environment, although END unbinds
\* whatever port the maps lead it to (spine_flow.py:105); a crash takes them all.
OthersPortsKept ==
    [][\A p \in Ports, e \in Envs :
          dst_port_to_env_id[p] = e /\ dst_port_to_env_id'[p] # e
            => EnvTerminate(e) \/ Restart \/ \E f \in FlowIds : EnvEnd(e, f)]_steeringVars

\* An action or request of a flow reaches the connection the flow was started for,
\* unless that connection was closed before END: then, and only then, it may reach
\* the next connection on the same sid (spine.py:178).  No crash, lost message or
\* second INIT opens another way.
MisdirectedOnlyIfAbandoned ==
    \A e \in Envs, f \in FlowIds :
        LET s == flow_id_to_sock_id[e][f]
        IN  s # None /\ conn[s] \notin {None, kernel_flows[e][s]} => s \in abandoned[e]

\* "we generally don't need request-id to align request and reply" (spine.py:157):
\* the reply goes to the environment that asked, unless the client was cached for a
\* flow whose connection is gone, or the request was one.
RepliesReachAsker ==
    [][ReadsMeasure =>
          LET s == Head(netlink).sock_id
          IN  Head(origins) = None \/ client_from_sock[s] \in {None, Head(origins)}
              \/ s \in stray]_steeringVars

\* The netlink socket is given up (spine.py:103 raises when nobody is cached for the sid
\* of a reply) only when a request was pending while the controller was started again, or
\* when one hit another connection than its own: closing, reusing a sid, TERMINATE and
\* a second INIT never leave a reply without a client, however late it is.
SocketKept == listening \/ orphaned

Waiting(e, f, p) ==
    /\ e \in flows_per_env /\ dst_port_to_env_id[p] = e
    /\ dst_port_to_flow_id[e][p] = f /\ flow_id_to_sock_id[e][f] = None

\* A CREATE under way when START has claimed its port gives the waiting flow its sid,
\* whatever is read before it, unless the environment gives the flow up, an earlier CREATE
\* with the same sid takes its place or the netlink socket is given up.
CreateAssociates ==
    \A e \in Envs, f \in FlowIds, p \in Ports, s \in Sids :
        /\ Waiting(e, f, p) /\ kernel_flows[e][s] = None
        /\ \E k \in DOMAIN netlink :
              netlink[k] = [type |-> "CREATE", sock_id |-> s, id |-> s, dst_port |-> p]
        ~> ~Waiting(e, f, p) \/ kernel_flows[e][s] \notin {None, p} \/ ~listening

=============================================================================
