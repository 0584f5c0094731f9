--------------------------- MODULE SteeringProofs ---------------------------
(***************************************************************************)
(* The controller, for every number of environments, ports, flows and sids *)
(* and a netlink queue of every length.  First Controller alone: its maps  *)
(* agree.  Then Steering: where actions, requests and replies end up,      *)
(* across crashes and starts of the controller.                            *)
(*                                                                         *)
(* The second argument follows one sid.  A flow holds it either for the    *)
(* connection that has it now, with no CREATE left under way that could    *)
(* give it to another flow, or its own connection is gone and the sid is   *)
(* abandoned (SidInv).  A request is only counted for an environment that  *)
(* holds the sid in the first way, so whoever is cached when the reply     *)
(* arrives is that environment or a stray (AskInv).                        *)
(***************************************************************************)
EXTENDS Steering, SequenceTheorems, TLAPS

-----------------------------------------------------------------------------
(* The maps of the controller *)

\* The part of TypeOK the maps need.
MapsTypeOK ==
    /\ flows_per_env \subseteq Envs
    /\ dst_port_to_env_id \in [Ports -> Envs \cup {None}]
    /\ kernel_flows \in [Envs -> [Sids -> Ports \cup {None}]]
    /\ flow_id_to_sock_id \in [Envs -> [FlowIds -> Sids \cup {None}]]
    /\ dst_port_to_flow_id \in [Envs -> [Ports -> FlowIds \cup {None}]]

\* ... and the part the two ends of the netlink socket need.
WireTypeOK ==
    /\ sock_id_to_env_id \in [Sids -> Envs \cup {None}]
    /\ client_from_sock \in [Sids -> Envs \cup {None}]
    /\ conn \in [Sids -> Ports \cup {None}]
    /\ announced \subseteq Sids /\ asked \subseteq Sids /\ adrift \in BOOLEAN
    /\ netlink \in Seq(Messages)

MessagesOK ==
    \A k \in DOMAIN netlink :
        /\ netlink[k].type # "RELEASE" => netlink[k].sock_id \in Sids
        /\ netlink[k].type = "CREATE" => netlink[k].dst_port \in Ports

\* TypeOK is these three parts.
LEMMA TypeParts == TypeOK <=> MapsTypeOK /\ WireTypeOK /\ MessagesOK
  BY DEF TypeOK, MapsTypeOK, WireTypeOK, MessagesOK

\* The inductive invariant: an association is only made for a port that is bound, and
\* a binding is only given up together with the associations that rest on it.
Inv == TypeOK /\ AssociationsAgree /\ BoundToRegistered

\* No map has an entry when the controller starts.
LEMMA InitInv == Init => Inv
<1> SUFFICES ASSUME Init  PROVE  Inv
  OBVIOUS
<1> USE NoneAssumption DEF Init, NoFlows, NoSockIds, NoPorts
<1>1. MapsTypeOK
  BY DEF MapsTypeOK
<1>2. WireTypeOK
  BY EmptySeq DEF WireTypeOK
<1>3. MessagesOK
  BY EmptySeq DEF MessagesOK
<1>4. AssociationsAgree /\ BoundToRegistered
  BY DEF AssociationsAgree, BoundToRegistered
<1> QED
  BY <1>1, <1>2, <1>3, <1>4, TypeParts DEF Inv

\* What the first message of the queue may be.
LEMMA HeadMessage ==
  ASSUME TypeOK, netlink # <<>>
  PROVE  /\ Head(netlink) \in Messages /\ Tail(netlink) \in Seq(Messages)
         /\ Head(netlink).type # "RELEASE" => Head(netlink).sock_id \in Sids
         /\ Head(netlink).type = "CREATE" => Head(netlink).dst_port \in Ports
<1>1. netlink \in Seq(Messages) /\ MessagesOK
  BY DEF TypeOK, MessagesOK
<1>2. Head(netlink) \in Messages /\ Tail(netlink) \in Seq(Messages)
  BY <1>1, HeadTailProperties
<1>3. Head(netlink) = netlink[1] /\ 1 \in DOMAIN netlink
  BY <1>1
<1> QED
  BY <1>1, <1>2, <1>3 DEF MessagesOK

\* Taking a message off the queue or putting a good one on it keeps the queue good.
LEMMA QueueStep ==
  ASSUME TypeOK
  PROVE  /\ netlink # <<>> /\ netlink' = Tail(netlink) => netlink' \in Seq(Messages) /\ MessagesOK'
         /\ \A m \in Messages :
              /\ m.type # "RELEASE" => m.sock_id \in Sids
              /\ m.type = "CREATE" => m.dst_port \in Ports
              /\ netlink' = Append(netlink, m)
              => netlink' \in Seq(Messages) /\ MessagesOK'
<1>1. netlink \in Seq(Messages) /\ MessagesOK
  BY DEF TypeOK, MessagesOK
<1>2. ASSUME netlink # <<>>, netlink' = Tail(netlink)
      PROVE  netlink' \in Seq(Messages) /\ MessagesOK'
  <2>1. /\ netlink' \in Seq(Messages)
        /\ Len(netlink') = Len(netlink) - 1
        /\ \A k \in 1 .. Len(netlink') : netlink'[k] = netlink[k + 1]
    BY <1>1, <1>2, HeadTailProperties
  <2>2. \A k \in DOMAIN netlink' : k + 1 \in DOMAIN netlink /\ netlink'[k] = netlink[k + 1]
    BY <1>1, <2>1
  <2> QED
    BY <1>1, <2>1, <2>2 DEF MessagesOK
<1>3. ASSUME NEW m \in Messages, m.type # "RELEASE" => m.sock_id \in Sids,
             m.type = "CREATE" => m.dst_port \in Ports, netlink' = Append(netlink, m)
      PROVE  netlink' \in Seq(Messages) /\ MessagesOK'
  <2>1. /\ netlink' \in Seq(Messages)
        /\ \A k \in DOMAIN netlink' : netlink'[k] = m \/ (k \in DOMAIN netlink /\ netlink'[k] = netlink[k])
    <3>1. /\ netlink' \in Seq(Messages)
          /\ Len(netlink') = Len(netlink) + 1
          /\ \A k \in 1 .. Len(netlink) : netlink'[k] = netlink[k]
          /\ netlink'[Len(netlink) + 1] = m
      BY <1>1, <1>3, AppendProperties
    <3>2. /\ Len(netlink) \in Nat /\ DOMAIN netlink = 1 .. Len(netlink)
          /\ DOMAIN netlink' = 1 .. Len(netlink')
      BY <1>1, <3>1, LenProperties
    <3>3. \A k \in DOMAIN netlink' : k = Len(netlink) + 1 \/ k \in 1 .. Len(netlink)
      BY <3>1, <3>2
    <3>4. ASSUME NEW k \in DOMAIN netlink'
          PROVE  netlink'[k] = m \/ (k \in DOMAIN netlink /\ netlink'[k] = netlink[k])
      <4>1. CASE k = Len(netlink) + 1
        BY <3>1, <4>1, Zenon
      <4>2. CASE k \in 1 .. Len(netlink)
        BY <3>1, <3>2, <4>2, Zenon
      <4> QED
        BY <3>3, <4>1, <4>2
    <3> QED
      BY <3>1, <3>4, Zenon
  <2> QED
    BY <1>1, <1>3, <2>1 DEF MessagesOK
<1> QED
  BY <1>2, <1>3

\* The kernel's own steps leave the maps alone and keep the wire well formed.
LEMMA KernelStep ==
  ASSUME Inv, NEW s \in Sids,
         \/ \E p \in Ports : Connect(s, p)
         \/ Announce(s) \/ Disconnect(s) \/ RequestLands(s) \/ AnswerMeasure(s)
  PROVE  Inv'
<1>1. TypeOK /\ MapsTypeOK /\ WireTypeOK /\ MessagesOK /\ AssociationsAgree /\ BoundToRegistered
  BY TypeParts DEF Inv
<1>2. UNCHANGED <<envFlows, activeMaps, client_from_sock>>
  BY DEF Connect, Announce, Disconnect, RequestLands, AnswerMeasure
<1>3. MapsTypeOK' /\ AssociationsAgree' /\ BoundToRegistered'
  BY <1>1, <1>2 DEF MapsTypeOK, AssociationsAgree, BoundToRegistered, envFlows, activeMaps
<1>4. /\ conn' \in [Sids -> Ports \cup {None}] /\ announced' \subseteq Sids
      /\ asked' \subseteq Sids /\ adrift' \in BOOLEAN
  BY <1>1 DEF WireTypeOK, Connect, Announce, Disconnect, RequestLands, AnswerMeasure
<1>5. netlink' \in Seq(Messages) /\ MessagesOK'
  <2>1. CASE UNCHANGED netlink
    BY <1>1, <2>1 DEF WireTypeOK, MessagesOK
  <2>2. CASE Announce(s)
    <3> DEFINE m == [type |-> "CREATE", sock_id |-> s, id |-> s, dst_port |-> conn[s]]
    <3>1. conn[s] \in Ports /\ netlink' = Append(netlink, m)
      BY <1>1, <2>2 DEF Announce, Post, CreateSid, WireTypeOK
    <3>2. m \in Messages /\ m.sock_id \in Sids /\ m.dst_port \in Ports
      BY <3>1 DEF Messages
    <3> QED
      BY <1>1, <3>1, <3>2, QueueStep
  <2>3. ASSUME NEW t \in {"RELEASE", "MEASURE"}, NEW x \in {0, s},
               t # "RELEASE" => x = s,
               Post([type |-> t, sock_id |-> x, id |-> s, dst_port |-> None])
        PROVE  netlink' \in Seq(Messages) /\ MessagesOK'
    <3> DEFINE m == [type |-> t, sock_id |-> x, id |-> s, dst_port |-> None]
    <3>1. m \in Messages /\ (m.type # "RELEASE" => m.sock_id \in Sids) /\ m.type # "CREATE"
      BY <2>3 DEF Messages
    <3>2. netlink' = Append(netlink, m)
      BY <2>3 DEF Post
    <3> QED
      BY <1>1, <3>1, <3>2, QueueStep
  <2> QED
    BY <2>1, <2>2, <2>3 DEF Connect, Disconnect, RequestLands, AnswerMeasure
<1>6. WireTypeOK'
  BY <1>1, <1>2, <1>4, <1>5 DEF WireTypeOK, envFlows
<1> QED
  BY <1>3, <1>5, <1>6, TypeParts DEF Inv, TypeOK, MapsTypeOK, WireTypeOK, MessagesOK

\* A CREATE adds at most one association: of a sid the environment does not know to a
\* flow without one, for a port bound to the environment (read_netlink_message,
\* add_flow_with_sockId, try_associate).
LEMMA CreateStep ==
  ASSUME Inv, NlCreate
  PROVE  MapsTypeOK' /\ AssociationsAgree' /\ BoundToRegistered'
<1> DEFINE s == Head(netlink).sock_id
           p == Head(netlink).dst_port
           e == dst_port_to_env_id[p]
           f == dst_port_to_flow_id[e][p]
           new == e # None /\ e \in flows_per_env /\ IsNew(e, s)
<1>1. MapsTypeOK /\ AssociationsAgree /\ BoundToRegistered
  BY TypeParts DEF Inv
<1>2. s \in Sids /\ p \in Ports /\ s # None /\ p # None
  BY HeadMessage, NoneAssumption DEF Inv, NlCreate, Arrives
<1>3. UNCHANGED <<flows_per_env, dst_port_to_env_id, dst_port_to_flow_id>>
  BY DEF NlCreate
<1>4. /\ kernel_flows' = IF new THEN [kernel_flows EXCEPT ![e][s] = p] ELSE kernel_flows
      /\ flow_id_to_sock_id' = IF new /\ Associates(e, p)
                                 THEN [flow_id_to_sock_id EXCEPT ![e][f] = s]
                                 ELSE flow_id_to_sock_id
  BY DEF NlCreate
<1> HIDE DEF s, p
<1>5. CASE ~new
  <2>1. UNCHANGED <<kernel_flows, flow_id_to_sock_id>>
    BY <1>4, <1>5
  <2> HIDE DEF e, f, new
  <2> QED
    BY <1>1, <1>3, <2>1 DEF MapsTypeOK, AssociationsAgree, BoundToRegistered
<1>6. CASE new
  <2>1. e \in Envs /\ e \in flows_per_env /\ kernel_flows[e][s] = None
    BY <1>1, <1>6 DEF MapsTypeOK, IsNew
  <2>2. kernel_flows' = [kernel_flows EXCEPT ![e][s] = p]
    BY <1>4, <1>6
  <2>3. \A g \in FlowIds : flow_id_to_sock_id[e][g] # s
    BY <1>1, <1>2, <2>1 DEF AssociationsAgree
  <2>4. f \in FlowIds \cup {None}
    BY <1>1, <1>2, <2>1 DEF MapsTypeOK
  <2> HIDE DEF e
  <2>5. MapsTypeOK'
    BY <1>1, <1>2, <1>3, <1>4, <2>1, <2>2, <2>4 DEF MapsTypeOK, Associates
  <2>6. BoundToRegistered'
    BY <1>1, <1>3 DEF BoundToRegistered
  <2>7. \A d \in Envs, x \in Sids : kernel_flows'[d][x] =
            IF d = e /\ x = s THEN p ELSE kernel_flows[d][x]
    BY <1>1, <1>2, <2>1, <2>2 DEF MapsTypeOK
  <2>8. AssociationsAgree'
    <3> SUFFICES ASSUME NEW d \in Envs, NEW g \in FlowIds, flow_id_to_sock_id'[d][g] # None
                 PROVE  LET x == flow_id_to_sock_id'[d][g]
                        IN  /\ d \in flows_per_env
                            /\ kernel_flows'[d][x] # None
                            /\ dst_port_to_flow_id[d][kernel_flows'[d][x]] = g
                            /\ dst_port_to_env_id[kernel_flows'[d][x]] = d
      BY <1>3 DEF AssociationsAgree
    <3>1. CASE flow_id_to_sock_id'[d][g] = flow_id_to_sock_id[d][g]
      <4> DEFINE x == flow_id_to_sock_id[d][g]
      <4>1. x \in Sids
        BY <1>1, <3>1 DEF MapsTypeOK
      <4>2. ~(d = e /\ x = s)
        BY <2>3
      <4>3. kernel_flows'[d][x] = kernel_flows[d][x]
        BY <2>7, <4>1, <4>2
      <4> QED
        BY <1>1, <3>1, <4>3 DEF AssociationsAgree
    <3>2. CASE flow_id_to_sock_id'[d][g] # flow_id_to_sock_id[d][g]
      <4>1. /\ d = e /\ g = f /\ Associates(e, p)
            /\ flow_id_to_sock_id'[d][g] = s
        BY <1>1, <1>4, <3>2 DEF MapsTypeOK
      <4>2. dst_port_to_env_id[p] = e
        BY DEF e
      <4> QED
        BY <1>2, <2>1, <2>7, <4>1, <4>2
    <3> QED
      BY <3>1, <3>2
  <2> QED
    BY <2>5, <2>6, <2>8
<1> QED
  BY <1>5, <1>6

\* END frees a port together with the one association that rests on it.
LEMMA EndStep ==
  ASSUME Inv, NEW e \in Envs, NEW f \in FlowIds, EnvEnd(e, f)
  PROVE  MapsTypeOK' /\ AssociationsAgree' /\ BoundToRegistered'
<1> DEFINE s == flow_id_to_sock_id[e][f]
           p == kernel_flows[e][s]
<1>1. MapsTypeOK /\ AssociationsAgree /\ BoundToRegistered
  BY TypeParts DEF Inv
<1>2. /\ flows_per_env' = flows_per_env
      /\ flow_id_to_sock_id' = [flow_id_to_sock_id EXCEPT ![e][f] = None]
  BY DEF EnvEnd
<1>3. CASE s = None
  <2>1. UNCHANGED <<kernel_flows, dst_port_to_flow_id, dst_port_to_env_id>>
    BY <1>3 DEF EnvEnd
  <2>2. flow_id_to_sock_id' = flow_id_to_sock_id
    BY <1>1, <1>2, <1>3 DEF MapsTypeOK
  <2> QED
    BY <1>1, <1>2, <2>1, <2>2 DEF MapsTypeOK, AssociationsAgree, BoundToRegistered
<1>4. CASE s # None
  <2>1. /\ s \in Sids /\ p \in Ports /\ p # None
        /\ dst_port_to_flow_id[e][p] = f /\ dst_port_to_env_id[p] = e
    BY <1>1, <1>4 DEF MapsTypeOK, AssociationsAgree
  <2>2. /\ kernel_flows' = [kernel_flows EXCEPT ![e][s] = None]
        /\ dst_port_to_flow_id' = [dst_port_to_flow_id EXCEPT ![e][p] = None]
        /\ dst_port_to_env_id' = [dst_port_to_env_id EXCEPT ![p] = None]
    BY <1>4, <2>1 DEF EnvEnd
  <2> HIDE DEF s, p
  <2>3. MapsTypeOK'
    BY <1>1, <1>2, <2>1, <2>2 DEF MapsTypeOK
  <2>4. BoundToRegistered'
    BY <1>1, <1>2, <2>1, <2>2 DEF MapsTypeOK, BoundToRegistered
  <2>5. AssociationsAgree'
    <3> SUFFICES ASSUME NEW d \in Envs, NEW g \in FlowIds, flow_id_to_sock_id'[d][g] # None
                 PROVE  LET x == flow_id_to_sock_id'[d][g]
                        IN  /\ d \in flows_per_env'
                            /\ kernel_flows'[d][x] # None
                            /\ dst_port_to_flow_id'[d][kernel_flows'[d][x]] = g
                            /\ dst_port_to_env_id'[kernel_flows'[d][x]] = d
      BY DEF AssociationsAgree
    <3> DEFINE x == flow_id_to_sock_id[d][g]
               q == kernel_flows[d][x]
    <3>1. ~(d = e /\ g = f) /\ flow_id_to_sock_id'[d][g] = x
      BY <1>1, <1>2 DEF MapsTypeOK
    <3>2. /\ x \in Sids /\ q \in Ports /\ q # None /\ d \in flows_per_env
          /\ dst_port_to_flow_id[d][q] = g /\ dst_port_to_env_id[q] = d
      BY <1>1, <3>1 DEF MapsTypeOK, AssociationsAgree
    <3>3. q # p
      BY <2>1, <3>1, <3>2
    <3>4. ~(d = e /\ x = s)
      BY <3>1, <3>2, <3>3 DEF p
    <3> HIDE DEF x
    <3>5. kernel_flows'[d][x] = q
      BY <1>1, <2>1, <2>2, <3>2, <3>4 DEF MapsTypeOK
    <3> HIDE DEF q
    <3>6. dst_port_to_flow_id'[d][q] = g /\ dst_port_to_env_id'[q] = d
      BY <1>1, <2>1, <2>2, <3>2, <3>3 DEF MapsTypeOK
    <3> QED
      BY <1>2, <3>1, <3>2, <3>5, <3>6
  <2> QED
    BY <2>3, <2>4, <2>5
<1> QED
  BY <1>3, <1>4

\* START only binds a port nobody has.
LEMMA StartStep ==
  ASSUME Inv, NEW e \in Envs, NEW f \in FlowIds, NEW p \in Ports, EnvStart(e, f, p)
  PROVE  MapsTypeOK' /\ AssociationsAgree' /\ BoundToRegistered'
<1>1. MapsTypeOK /\ AssociationsAgree /\ BoundToRegistered
  BY TypeParts DEF Inv
<1>2. /\ e \in flows_per_env
      /\ UNCHANGED <<flows_per_env, kernel_flows, flow_id_to_sock_id>>
      /\ dst_port_to_env_id' = [dst_port_to_env_id EXCEPT ![p] = PortOwner(p, e)]
      /\ dst_port_to_flow_id' = IF dst_port_to_flow_id[e][p] = None
                                  THEN [dst_port_to_flow_id EXCEPT ![e][p] = f]
                                  ELSE dst_port_to_flow_id
  BY DEF EnvStart
<1>3. MapsTypeOK'
  BY <1>1, <1>2 DEF MapsTypeOK, PortOwner
<1>4. BoundToRegistered'
  BY <1>1, <1>2 DEF MapsTypeOK, BoundToRegistered, PortOwner
<1>5. \A q \in Ports : dst_port_to_env_id[q] # None => dst_port_to_env_id'[q] = dst_port_to_env_id[q]
  BY <1>1, <1>2 DEF MapsTypeOK, PortOwner
<1>6. \A d \in Envs, q \in Ports :
         dst_port_to_flow_id[d][q] # None => dst_port_to_flow_id'[d][q] = dst_port_to_flow_id[d][q]
  BY <1>1, <1>2 DEF MapsTypeOK
<1>7. AssociationsAgree'
  <2> SUFFICES ASSUME NEW d \in Envs, NEW g \in FlowIds, flow_id_to_sock_id[d][g] # None
               PROVE  LET x == flow_id_to_sock_id[d][g]
                      IN  /\ d \in flows_per_env
                          /\ kernel_flows[d][x] # None
                          /\ dst_port_to_flow_id'[d][kernel_flows[d][x]] = g
                          /\ dst_port_to_env_id'[kernel_flows[d][x]] = d
    BY <1>2 DEF AssociationsAgree
  <2> DEFINE x == flow_id_to_sock_id[d][g]
             q == kernel_flows[d][x]
  <2>1. /\ x \in Sids /\ q \in Ports /\ q # None /\ d \in flows_per_env
        /\ dst_port_to_flow_id[d][q] = g /\ dst_port_to_env_id[q] = d
    BY <1>1 DEF MapsTypeOK, AssociationsAgree
  <2>2. g # None /\ d # None
    BY NoneAssumption
  <2> QED
    BY <1>5, <1>6, <2>1, <2>2
<1> QED
  BY <1>3, <1>4, <1>7

\* INIT and TERMINATE drop every association of the environment, TERMINATE its
\* bindings too.
LEMMA FreshStep ==
  ASSUME Inv, NEW e \in Envs, EnvInit(e) \/ EnvTerminate(e)
  PROVE  MapsTypeOK' /\ AssociationsAgree' /\ BoundToRegistered'
<1>1. MapsTypeOK /\ AssociationsAgree /\ BoundToRegistered
  BY TypeParts DEF Inv
<1>2. /\ kernel_flows' = [kernel_flows EXCEPT ![e] = NoFlows]
      /\ flow_id_to_sock_id' = [flow_id_to_sock_id EXCEPT ![e] = NoSockIds]
      /\ dst_port_to_flow_id' = [dst_port_to_flow_id EXCEPT ![e] = NoPorts]
  BY DEF EnvInit, EnvTerminate, FreshMaps
<1>3. \/ /\ flows_per_env' = flows_per_env \cup {e}
         /\ dst_port_to_env_id' = dst_port_to_env_id
      \/ /\ flows_per_env' = flows_per_env \ {e}
         /\ dst_port_to_env_id' = KeptBindings(e)
  BY DEF EnvInit, EnvTerminate
<1>4. MapsTypeOK'
  <2>1. /\ NoFlows \in [Sids -> Ports \cup {None}] /\ NoSockIds \in [FlowIds -> Sids \cup {None}]
        /\ NoPorts \in [Ports -> FlowIds \cup {None}]
    BY DEF NoFlows, NoSockIds, NoPorts
  <2>2. dst_port_to_env_id' \in [Ports -> Envs \cup {None}] /\ flows_per_env' \subseteq Envs
    BY <1>1, <1>3 DEF MapsTypeOK, KeptBindings
  <2> QED
    BY <1>1, <1>2, <2>1, <2>2 DEF MapsTypeOK
<1>5. \A q \in Ports : \/ dst_port_to_env_id'[q] = dst_port_to_env_id[q]
                      \/ (dst_port_to_env_id[q] = e /\ dst_port_to_env_id'[q] = None)
  <2>1. CASE dst_port_to_env_id' = dst_port_to_env_id
    BY <2>1
  <2>2. CASE dst_port_to_env_id' = KeptBindings(e)
    BY <2>2 DEF KeptBindings
  <2> QED
    BY <1>3, <2>1, <2>2
<1>6. BoundToRegistered'
  <2>1. CASE flows_per_env' = flows_per_env \cup {e} /\ dst_port_to_env_id' = dst_port_to_env_id
    BY <1>1, <2>1 DEF BoundToRegistered
  <2>2. CASE flows_per_env' = flows_per_env \ {e} /\ dst_port_to_env_id' = KeptBindings(e)
    <3>1. \A q \in Ports : dst_port_to_env_id'[q] =
              IF dst_port_to_env_id[q] = e THEN None ELSE dst_port_to_env_id[q]
      BY <2>2 DEF KeptBindings
    <3> QED
      BY <1>1, <2>2, <3>1 DEF BoundToRegistered
  <2> QED
    BY <1>3, <2>1, <2>2
<1>7. AssociationsAgree'
  <2> SUFFICES ASSUME NEW d \in Envs, NEW g \in FlowIds, flow_id_to_sock_id'[d][g] # None
               PROVE  LET x == flow_id_to_sock_id'[d][g]
                      IN  /\ d \in flows_per_env'
                          /\ kernel_flows'[d][x] # None
                          /\ dst_port_to_flow_id'[d][kernel_flows'[d][x]] = g
                          /\ dst_port_to_env_id'[kernel_flows'[d][x]] = d
    BY DEF AssociationsAgree
  <2>1. d # e
    BY <1>1, <1>2 DEF MapsTypeOK, NoSockIds
  <2>2. /\ kernel_flows'[d] = kernel_flows[d] /\ flow_id_to_sock_id'[d] = flow_id_to_sock_id[d]
        /\ dst_port_to_flow_id'[d] = dst_port_to_flow_id[d]
    BY <1>1, <1>2, <2>1 DEF MapsTypeOK
  <2> DEFINE x == flow_id_to_sock_id[d][g]
             q == kernel_flows[d][x]
  <2>3. /\ x \in Sids /\ q \in Ports /\ q # None /\ d \in flows_per_env
        /\ dst_port_to_flow_id[d][q] = g /\ dst_port_to_env_id[q] = d
    BY <1>1, <2>2 DEF MapsTypeOK, AssociationsAgree
  <2> HIDE DEF q
  <2>4. dst_port_to_env_id'[q] = d
    BY <1>5, <2>1, <2>3
  <2>5. d \in flows_per_env'
    BY <1>3, <2>1, <2>3
  <2> QED
    BY <2>2, <2>3, <2>4, <2>5 DEF q
<1> QED
  BY <1>4, <1>6, <1>7

\* Every step keeps the invariant.
LEMMA InvStep ==
  ASSUME Inv, [Next]_vars
  PROVE  Inv'
<1>1. /\ TypeOK /\ MapsTypeOK /\ WireTypeOK /\ MessagesOK
      /\ AssociationsAgree /\ BoundToRegistered
  BY TypeParts DEF Inv
<1>2. ASSUME MapsTypeOK', AssociationsAgree', BoundToRegistered', WireTypeOK', MessagesOK'
      PROVE  Inv'
  BY <1>2 DEF Inv, TypeOK, MapsTypeOK, WireTypeOK, MessagesOK
<1>3. ASSUME UNCHANGED <<kernel, netlink, client_from_sock, sock_id_to_env_id>>
      PROVE  WireTypeOK' /\ MessagesOK'
  BY <1>1, <1>3 DEF WireTypeOK, MessagesOK, kernel
<1>4. ASSUME UNCHANGED <<flows_per_env, dst_port_to_env_id, activeMaps>>
      PROVE  MapsTypeOK' /\ AssociationsAgree' /\ BoundToRegistered'
  BY <1>1, <1>4 DEF MapsTypeOK, AssociationsAgree, BoundToRegistered, activeMaps
<1>5. ASSUME netlink # <<>>, netlink' = Tail(netlink), UNCHANGED <<kernel, client_from_sock>>,
             sock_id_to_env_id' \in [Sids -> Envs \cup {None}]
      PROVE  WireTypeOK' /\ MessagesOK'
  BY <1>1, <1>5, QueueStep DEF WireTypeOK, kernel
<1>6. ASSUME NEW s \in Sids, NEW p \in Ports, Connect(s, p)
      PROVE  Inv'
  BY <1>6, KernelStep
<1>7. ASSUME NEW s \in Sids,
             Announce(s) \/ Disconnect(s) \/ RequestLands(s) \/ AnswerMeasure(s)
      PROVE  Inv'
  BY <1>7, KernelStep
<1>8. CASE NlCreate
  <2>1. MapsTypeOK' /\ AssociationsAgree' /\ BoundToRegistered'
    BY <1>8, CreateStep
  <2>2. sock_id_to_env_id' \in [Sids -> Envs \cup {None}]
    <3>1. Head(netlink).sock_id \in Sids /\ Head(netlink).dst_port \in Ports
      BY <1>1, <1>8, HeadMessage DEF NlCreate, Arrives
    <3> QED
      BY <1>1, <1>8, <3>1 DEF NlCreate, WireTypeOK, MapsTypeOK
  <2> QED
    BY <1>2, <1>5, <1>8, <2>1, <2>2 DEF NlCreate, Arrives
<1>9. CASE NlMeasure \/ NlRelease
  <2>1. MapsTypeOK' /\ AssociationsAgree' /\ BoundToRegistered'
    BY <1>4, <1>9 DEF NlMeasure, NlRelease, envFlows
  <2>2. sock_id_to_env_id' \in [Sids -> Envs \cup {None}]
    BY <1>1, <1>9 DEF NlMeasure, NlRelease, envFlows, WireTypeOK
  <2> QED
    BY <1>2, <1>5, <1>9, <2>1, <2>2 DEF NlMeasure, NlRelease, Arrives
<1>10. ASSUME NEW e \in Envs, EnvInit(e) \/ EnvTerminate(e)
       PROVE  Inv'
  <2>1. MapsTypeOK' /\ AssociationsAgree' /\ BoundToRegistered'
    BY <1>10, FreshStep
  <2>2. UNCHANGED <<conn, announced, asked, adrift, netlink, client_from_sock>>
    BY <1>10 DEF EnvInit, EnvTerminate, kernel
  <2>3. sock_id_to_env_id' \in [Sids -> Envs \cup {None}]
    BY <1>1, <1>10 DEF EnvInit, EnvTerminate, WireTypeOK
  <2> QED
    BY <1>1, <1>2, <2>1, <2>2, <2>3 DEF WireTypeOK, MessagesOK
<1>11. ASSUME NEW e \in Envs, NEW f \in FlowIds, NEW p \in Ports, EnvStart(e, f, p)
       PROVE  Inv'
  BY <1>2, <1>3, <1>11, StartStep DEF EnvStart, kernel
<1>12. ASSUME NEW e \in Envs, NEW f \in FlowIds, EnvEnd(e, f)
       PROVE  Inv'
  BY <1>2, <1>3, <1>12, EndStep DEF EnvEnd, kernel
<1>13. ASSUME NEW e \in Envs, NEW f \in FlowIds, NEW request \in BOOLEAN,
              EnvMeasure(e, f, request)
       PROVE  Inv'
  <2>1. MapsTypeOK' /\ AssociationsAgree' /\ BoundToRegistered'
    BY <1>4, <1>13 DEF EnvMeasure, envFlows
  <2>2. UNCHANGED <<conn, announced, adrift, netlink, sock_id_to_env_id>>
    BY <1>13 DEF EnvMeasure, envFlows
  <2>3. flow_id_to_sock_id[e][f] \in Sids
    BY <1>1, <1>13 DEF EnvMeasure, MapsTypeOK
  <2>4. client_from_sock' \in [Sids -> Envs \cup {None}] /\ asked' \subseteq Sids
    BY <1>1, <1>13, <2>3 DEF EnvMeasure, Clients, WireTypeOK
  <2> QED
    BY <1>1, <1>2, <2>1, <2>2, <2>4 DEF WireTypeOK, MessagesOK
<1>14. ASSUME NEW e \in Envs, NEW f \in FlowIds, EnvAlive(e, f)
       PROVE  Inv'
  BY <1>2, <1>3, <1>4, <1>14 DEF EnvAlive, kernel, envFlows
<1>15. CASE UNCHANGED vars
  BY <1>2, <1>3, <1>4, <1>15 DEF vars, kernel, envFlows
<1> QED
  BY <1>6, <1>7, <1>8, <1>9, <1>10, <1>11, <1>12, <1>13, <1>14, <1>15 DEF Next

\* The invariant holds in every reachable state.
THEOREM InvHolds == Spec => []Inv
  BY InitInv, InvStep, PTL DEF Spec

\* Only END and TERMINATE of the environment a port is bound to give it up.
LEMMA PortsKeptStep ==
  ASSUME Inv, Next, NEW p \in Ports, NEW o \in Envs, dst_port_to_env_id[p] = o,
         dst_port_to_env_id'[p] # o
  PROVE  EnvTerminate(o) \/ \E f \in FlowIds : EnvEnd(o, f)
<1>1. MapsTypeOK /\ AssociationsAgree
  BY TypeParts DEF Inv
<1>0. o # None
  BY NoneAssumption
<1>2. ASSUME NEW e \in Envs, NEW f \in FlowIds, NEW q \in Ports, EnvStart(e, f, q)
      PROVE  FALSE
  BY <1>0, <1>1, <1>2 DEF EnvStart, PortOwner, MapsTypeOK
<1>3. ASSUME NEW e \in Envs, NEW f \in FlowIds, EnvEnd(e, f)
      PROVE  e = o
  <2> DEFINE s == flow_id_to_sock_id[e][f]
             q == kernel_flows[e][s]
  <2>1. s # None /\ q # None /\ dst_port_to_env_id' = [dst_port_to_env_id EXCEPT ![q] = None]
    BY <1>3 DEF EnvEnd
  <2>2. dst_port_to_env_id[q] = e
    BY <1>1, <2>1 DEF AssociationsAgree
  <2> HIDE DEF q
  <2>3. p = q
    BY <1>1, <2>1 DEF MapsTypeOK
  <2> QED
    BY <2>2, <2>3
<1>4. ASSUME NEW e \in Envs, EnvTerminate(e)
      PROVE  e = o
  BY <1>1, <1>4 DEF EnvTerminate, KeptBindings, MapsTypeOK
<1> QED
  BY <1>2, <1>3, <1>4 DEF Next, Connect, Announce, Disconnect, RequestLands, AnswerMeasure,
     NlCreate, NlMeasure, NlRelease, EnvInit, EnvMeasure, EnvAlive, envFlows

-----------------------------------------------------------------------------
(* Measurements and their clients *)

\* What is where in a queue once its first message is taken.
LEMMA TailAt ==
  ASSUME NEW S, NEW q \in Seq(S), q # <<>>
  PROVE  /\ Tail(q) \in Seq(S) /\ Len(Tail(q)) = Len(q) - 1
         /\ \A k \in DOMAIN Tail(q) : k + 1 \in DOMAIN q /\ Tail(q)[k] = q[k + 1]
<1>1. /\ Tail(q) \in Seq(S) /\ Len(Tail(q)) = Len(q) - 1
      /\ \A k \in 1 .. Len(Tail(q)) : Tail(q)[k] = q[k + 1]
  BY HeadTailProperties
<1>2. DOMAIN q = 1 .. Len(q) /\ DOMAIN Tail(q) = 1 .. Len(Tail(q)) /\ Len(q) \in Nat
  BY <1>1, LenProperties
<1> QED
  BY <1>1, <1>2

\* ... and once a message is put at its end.
LEMMA AppendAt ==
  ASSUME NEW S, NEW q \in Seq(S), NEW m \in S
  PROVE  /\ Append(q, m) \in Seq(S) /\ Len(Append(q, m)) = Len(q) + 1
         /\ \A k \in DOMAIN Append(q, m) :
               \/ k \in DOMAIN q /\ Append(q, m)[k] = q[k]
               \/ k = Len(q) + 1 /\ Append(q, m)[k] = m
         /\ \A k \in DOMAIN q : k \in DOMAIN Append(q, m) /\ Append(q, m)[k] = q[k]
<1>1. /\ Append(q, m) \in Seq(S) /\ Len(Append(q, m)) = Len(q) + 1
      /\ \A k \in 1 .. Len(q) : Append(q, m)[k] = q[k]
      /\ Append(q, m)[Len(q) + 1] = m
  BY AppendProperties
<1>2. /\ DOMAIN q = 1 .. Len(q) /\ Len(q) \in Nat
      /\ DOMAIN Append(q, m) = 1 .. Len(Append(q, m))
  BY <1>1, LenProperties
<1>3. \A k \in 1 .. Len(q) + 1 : k = Len(q) + 1 \/ k \in 1 .. Len(q)
  BY <1>2
<1>4. 1 .. Len(q) \subseteq 1 .. Len(q) + 1
  BY <1>2
<1> QED
  BY <1>1, <1>2, <1>3, <1>4, Zenon

\* A request only waits for an answer once its client is cached.
MeasureHasClient ==
    \A k \in DOMAIN netlink :
        netlink[k].type = "MEASURE" => client_from_sock[netlink[k].sock_id] # None
ClientInv == MeasureHasClient /\ \A s \in asked : client_from_sock[s] # None

\* The steps of Next but the one that raises another connection's flag
OwnNext ==
    \/ \E s \in Sids, p \in Ports : Connect(s, p)
    \/ \E s \in Sids : Announce(s) \/ Disconnect(s) \/ AnswerMeasure(s)
    \/ NlCreate \/ NlMeasure \/ NlRelease
    \/ \E e \in Envs :
        \/ EnvInit(e) \/ EnvTerminate(e)
        \/ \E f \in FlowIds :
             \/ \E p \in Ports : EnvStart(e, f, p)
             \/ EnvEnd(e, f)
             \/ \E request \in BOOLEAN : EnvMeasure(e, f, request)
             \/ EnvAlive(e, f)

\* Clients are replaced, never dropped, and a MEASURE is only sent for a request.
LEMMA ClientStep ==
  ASSUME Inv, Inv', ClientInv, OwnNext
  PROVE  ClientInv'
<1>1. /\ WireTypeOK /\ MapsTypeOK /\ MessagesOK /\ MeasureHasClient
      /\ \A s \in asked : client_from_sock[s] # None
  BY TypeParts DEF Inv, ClientInv
<1>2. \A s \in Sids : client_from_sock[s] # None => client_from_sock'[s] # None
  <2>1. ASSUME NEW e \in Envs, NEW f \in FlowIds, NEW r \in BOOLEAN, EnvMeasure(e, f, r)
        PROVE  \A s \in Sids : client_from_sock[s] # None => client_from_sock'[s] # None
    BY <1>1, <2>1, NoneAssumption DEF EnvMeasure, Clients, WireTypeOK
  <2> QED
    BY <2>1 DEF OwnNext, Connect, Announce, Disconnect, AnswerMeasure, NlCreate, NlMeasure,
       NlRelease, EnvInit, EnvTerminate, EnvStart, EnvEnd, EnvAlive
<1>3. \A s \in asked' : client_from_sock'[s] # None
  <2>1. CASE asked' \subseteq asked
    BY <1>1, <1>2, <2>1 DEF WireTypeOK
  <2>2. ASSUME NEW e \in Envs, NEW f \in FlowIds, NEW r \in BOOLEAN, EnvMeasure(e, f, r)
        PROVE  \A s \in asked' : client_from_sock'[s] # None
    <3> DEFINE s == flow_id_to_sock_id[e][f]
    <3>1. s \in Sids /\ asked' \subseteq asked \cup {s}
      BY <1>1, <2>2 DEF EnvMeasure, MapsTypeOK
    <3>2. client_from_sock'[s] # None
      BY <1>1, <2>2, <3>1, NoneAssumption DEF EnvMeasure, Clients, WireTypeOK
    <3> QED
      BY <1>1, <1>2, <3>1, <3>2 DEF WireTypeOK
  <2> QED
    BY <2>1, <2>2 DEF OwnNext, Connect, Announce, Disconnect, AnswerMeasure, NlCreate, NlMeasure,
       NlRelease, EnvInit, EnvTerminate, EnvStart, EnvEnd, EnvAlive, kernel
<1>4. ASSUME UNCHANGED netlink
      PROVE  MeasureHasClient'
  <2>1. \A k \in DOMAIN netlink : netlink[k].type = "MEASURE" => netlink[k].sock_id \in Sids
    BY <1>1 DEF MessagesOK
  <2> QED
    BY <1>1, <1>2, <1>4, <2>1 DEF MeasureHasClient
<1>5. ASSUME netlink # <<>>, netlink' = Tail(netlink)
      PROVE  MeasureHasClient'
  <2>1. \A k \in DOMAIN netlink' : k + 1 \in DOMAIN netlink /\ netlink'[k] = netlink[k + 1]
    BY <1>1, <1>5, TailAt DEF WireTypeOK
  <2>2. \A k \in DOMAIN netlink : netlink[k].type = "MEASURE" =>
            netlink[k].sock_id \in Sids /\ client_from_sock'[netlink[k].sock_id] # None
    BY <1>1, <1>2 DEF MessagesOK, MeasureHasClient
  <2> QED
    BY <2>1, <2>2 DEF MeasureHasClient
<1>6. ASSUME NEW m \in Messages, Post(m),
             m.type = "MEASURE" => client_from_sock'[m.sock_id] # None
      PROVE  MeasureHasClient'
  <2>1. \A k \in DOMAIN netlink' :
            netlink'[k] = m \/ (k \in DOMAIN netlink /\ netlink'[k] = netlink[k])
    BY <1>1, <1>6, AppendAt DEF WireTypeOK, Post
  <2>2. \A k \in DOMAIN netlink : netlink[k].type = "MEASURE" =>
            netlink[k].sock_id \in Sids /\ client_from_sock'[netlink[k].sock_id] # None
    BY <1>1, <1>2 DEF MessagesOK, MeasureHasClient
  <2> QED
    BY <1>6, <2>1, <2>2 DEF MeasureHasClient
<1>7. MeasureHasClient'
  <2>1. ASSUME NEW s \in Sids, Announce(s)
        PROVE  MeasureHasClient'
    <3> DEFINE m == [type |-> "CREATE", sock_id |-> s, id |-> s, dst_port |-> conn[s]]
    <3>1. Post(m) /\ m \in Messages /\ m.type # "MEASURE"
      BY <1>1, <2>1 DEF Announce, CreateSid, Messages, WireTypeOK
    <3> QED
      BY <1>6, <3>1
  <2>2. ASSUME NEW s \in Sids, Disconnect(s)
        PROVE  MeasureHasClient'
    <3> DEFINE m == [type |-> "RELEASE", sock_id |-> 0, id |-> s, dst_port |-> None]
    <3>1. (UNCHANGED netlink \/ Post(m)) /\ m \in Messages /\ m.type # "MEASURE"
      BY <2>2 DEF Disconnect, Messages
    <3> QED
      BY <1>4, <1>6, <3>1
  <2>3. ASSUME NEW s \in Sids, AnswerMeasure(s)
        PROVE  MeasureHasClient'
    <3> DEFINE m == [type |-> "MEASURE", sock_id |-> s, id |-> s, dst_port |-> None]
    <3>1. (UNCHANGED netlink \/ Post(m)) /\ m \in Messages /\ m.sock_id = s
      BY <2>3 DEF AnswerMeasure, Messages
    <3>2. client_from_sock'[s] # None
      BY <1>1, <1>2, <2>3 DEF AnswerMeasure
    <3> QED
      BY <1>4, <1>6, <3>1, <3>2
  <2>4. CASE NlCreate \/ NlMeasure \/ NlRelease
    BY <1>5, <2>4 DEF NlCreate, NlMeasure, NlRelease, Arrives
  <2> QED
    BY <1>4, <2>1, <2>2, <2>3, <2>4 DEF OwnNext, Connect, EnvInit, EnvTerminate, EnvStart, EnvEnd,
       EnvMeasure, EnvAlive
<1> QED
  BY <1>3, <1>7 DEF ClientInv

-----------------------------------------------------------------------------
(* Steering: one sid *)

CreateAt(k, s) == netlink[k].type = "CREATE" /\ netlink[k].sock_id = s

\* No environment has a flow of a connection that has this sid now.
Gone(s) == \A e \in Envs : s \in abandoned[e]

HistoryOK ==
    /\ origins \in Seq(Envs \cup {None})
    /\ Len(origins) = Len(netlink)
    /\ asker \in [Sids -> Envs \cup {None}]
    /\ abandoned \in [Envs -> SUBSET Sids]

FlowsOfSid(s) ==
    \A e \in Envs : kernel_flows[e][s] # None =>
        \/ conn[s] = kernel_flows[e][s] /\ s \in announced /\ ~CreateUnderWay(s)
        \/ s \in abandoned[e]

CreatesOfSid(s) ==
    \A k \in DOMAIN netlink : CreateAt(k, s) =>
        \/ /\ conn[s] = netlink[k].dst_port /\ s \in announced
           /\ \A j \in DOMAIN netlink : CreateAt(j, s) => j = k
        \/ Gone(s)

OneHolder(s) ==
    \A c, e \in Envs : kernel_flows[c][s] # None /\ kernel_flows[e][s] # None =>
        c = e \/ s \in abandoned[c] \/ s \in abandoned[e]

SidInv(s) == FlowsOfSid(s) /\ CreatesOfSid(s) /\ OneHolder(s)

\* A reply on this sid can only reach o, or a stray.
Belongs(s, o) ==
    /\ \A e \in Envs \ {o} : kernel_flows[e][s] # None => s \in abandoned[e]
    /\ client_from_sock[s] \in {None, o} \/ s \in stray

Answers(k, s) ==
    netlink[k].type = "MEASURE" /\ netlink[k].sock_id = s /\ origins[k] # None

AskerOfSid(s) ==
    asker[s] # None => s \in announced /\ ~CreateUnderWay(s) /\ Belongs(s, asker[s])

RepliesOfSid(s) ==
    \A k \in DOMAIN netlink : Answers(k, s) =>
        (\A j \in DOMAIN netlink : j <= k => ~CreateAt(j, s)) /\ Belongs(s, origins[k])

AskInv(s) == AskerOfSid(s) /\ RepliesOfSid(s)

PathInv == HistoryOK /\ \A s \in Sids : SidInv(s) /\ AskInv(s)

SteeringInv == Inv /\ PathInv

-----------------------------------------------------------------------------
(* The queue and the origins of its messages *)

\* The k-th message after the step is the (k + d)-th before it.
Old(k, d) ==
    /\ k + d \in DOMAIN netlink
    /\ netlink'[k] = netlink[k + d] /\ origins'[k] = origins[k + d]

\* A message that is read takes its origin with it.
LEMMA QueueRead ==
  ASSUME Inv, HistoryOK, Reads, netlink' = Tail(netlink)
  PROVE  /\ origins' \in Seq(Envs \cup {None}) /\ Len(origins') = Len(netlink')
         /\ \A k \in DOMAIN netlink' : k \in Nat /\ Old(k, 1)
<1>1. netlink \in Seq(Messages) /\ netlink # <<>>
  BY DEF Inv, TypeOK, Reads
<1>2. /\ origins \in Seq(Envs \cup {None}) /\ Len(origins) = Len(netlink)
      /\ origins' = Tail(origins)
  BY DEF HistoryOK, Reads
<1>3. Len(netlink) \in Nat /\ Len(netlink) # 0
  BY <1>1
<1>4. origins # <<>>
  BY <1>2, <1>3
<1>5. /\ netlink' \in Seq(Messages) /\ Len(netlink') = Len(netlink) - 1
      /\ \A k \in DOMAIN netlink' : k + 1 \in DOMAIN netlink /\ netlink'[k] = netlink[k + 1]
  BY <1>1, TailAt
<1>6. /\ origins' \in Seq(Envs \cup {None}) /\ Len(origins') = Len(origins) - 1
      /\ \A k \in DOMAIN origins' : k + 1 \in DOMAIN origins /\ origins'[k] = origins[k + 1]
  BY <1>2, <1>4, TailAt
<1>7. DOMAIN netlink' = DOMAIN origins' /\ \A k \in DOMAIN netlink' : k \in Nat
  BY <1>2, <1>5, <1>6, LenProperties
<1> QED
  BY <1>2, <1>5, <1>6, <1>7 DEF Old

\* A message that is sent brings its own.
LEMMA QueuePost ==
  ASSUME Inv, HistoryOK, NEW m \in Messages, Post(m), NEW o \in Envs \cup {None}, Posts(o)
  PROVE  /\ origins' \in Seq(Envs \cup {None}) /\ Len(origins') = Len(netlink')
         /\ \A k \in DOMAIN netlink' :
               k \in Nat /\ (Old(k, 0) \/ (k = Len(netlink) + 1 /\ netlink'[k] = m /\ origins'[k] = o))
<1>1. netlink \in Seq(Messages) /\ netlink' = Append(netlink, m)
  BY DEF Inv, TypeOK, Post
<1>2. origins \in Seq(Envs \cup {None}) /\ Len(origins) = Len(netlink)
  BY DEF HistoryOK
<1>3. /\ netlink' \in Seq(Messages) /\ Len(netlink') = Len(netlink) + 1
      /\ \A k \in DOMAIN netlink' :
            (k \in DOMAIN netlink /\ netlink'[k] = netlink[k]) \/ (k = Len(netlink) + 1 /\ netlink'[k] = m)
  BY <1>1, AppendAt
<1>4. origins' = Append(origins, o)
  <2>1. Len(netlink) \in Nat
    BY <1>1, LenProperties
  <2> QED
    BY <1>3, <2>1 DEF Posts
<1>5. /\ origins' \in Seq(Envs \cup {None}) /\ Len(origins') = Len(origins) + 1
      /\ \A k \in DOMAIN origins' :
            (k \in DOMAIN origins /\ origins'[k] = origins[k]) \/ (k = Len(origins) + 1 /\ origins'[k] = o)
  BY <1>2, <1>4, AppendAt
<1>6. /\ DOMAIN netlink' = DOMAIN origins' /\ DOMAIN netlink = DOMAIN origins
      /\ DOMAIN netlink = 1 .. Len(netlink) /\ Len(netlink) \in Nat
      /\ \A k \in DOMAIN netlink' : k \in Nat
  BY <1>1, <1>2, <1>3, <1>5, LenProperties
<1>7. ASSUME NEW k \in DOMAIN netlink'
      PROVE  Old(k, 0) \/ (k = Len(netlink) + 1 /\ netlink'[k] = m /\ origins'[k] = o)
  <2>1. CASE k = Len(netlink) + 1
    <3>1. k \notin DOMAIN netlink
      BY <1>6, <2>1
    <3> QED
      BY <1>2, <1>3, <1>5, <1>6, <2>1, <3>1
  <2>2. CASE k # Len(netlink) + 1
    <3>1. /\ k \in DOMAIN netlink /\ netlink'[k] = netlink[k] /\ origins'[k] = origins[k]
          /\ k + 0 = k
      BY <1>2, <1>3, <1>5, <1>6, <2>2
    <3> QED
      BY <3>1, Zenon DEF Old
  <2> QED
    BY <2>1, <2>2
<1> QED
  BY <1>2, <1>3, <1>5, <1>6, <1>7

\* Nothing moves when nothing is sent or read.
LEMMA QueueKept ==
  ASSUME Inv, HistoryOK, UNCHANGED <<netlink, origins>>
  PROVE  /\ origins' \in Seq(Envs \cup {None}) /\ Len(origins') = Len(netlink')
         /\ \A k \in DOMAIN netlink' : k \in Nat /\ Old(k, 0)
<1>1. netlink \in Seq(Messages)
  BY DEF Inv, TypeOK
<1>2. \A k \in DOMAIN netlink : k \in Nat /\ k + 0 = k
  BY <1>1, LenProperties
<1> QED
  BY <1>2 DEF HistoryOK, Old

-----------------------------------------------------------------------------
(* Steps that give nothing to a sid *)

\* The step gives the sid to no flow and keeps its connection; a flow it stops
\* counting as abandoned is over.
SidKept(s) ==
    /\ \A e \in Envs : kernel_flows'[e][s] # None => kernel_flows'[e][s] = kernel_flows[e][s]
    /\ \A e \in Envs : s \in abandoned[e] =>
          s \in abandoned'[e] \/ (kernel_flows'[e][s] = None /\ ~CreateUnderWay(s)')
    /\ conn'[s] = conn[s] /\ (s \in announced => s \in announced')

\* Such a step keeps SidInv if it sends no CREATE for the sid.
LEMMA SidKeptStep ==
  ASSUME NEW s \in Sids, NEW d \in {0, 1}, SidInv(s), SidKept(s),
         \A k \in DOMAIN netlink' : k \in Nat,
         \A k \in DOMAIN netlink' : CreateAt(k, s)' => Old(k, d)
  PROVE  SidInv(s)'
<1>1. CreateUnderWay(s)' => CreateUnderWay(s)
  BY DEF CreateUnderWay, CreateAt, Old
<1>2. FlowsOfSid(s)'
  BY <1>1 DEF SidInv, FlowsOfSid, SidKept
<1>3. CreatesOfSid(s)'
  <2> SUFFICES ASSUME NEW k \in DOMAIN netlink', CreateAt(k, s)'
               PROVE  \/ /\ conn'[s] = netlink'[k].dst_port /\ s \in announced'
                         /\ \A j \in DOMAIN netlink' : CreateAt(j, s)' => j = k
                      \/ Gone(s)'
    BY DEF CreatesOfSid
  <2>1. k + d \in DOMAIN netlink /\ netlink'[k] = netlink[k + d] /\ CreateAt(k + d, s)
    BY DEF Old, CreateAt
  <2>2. CASE Gone(s)
    BY <2>2 DEF Gone, SidKept, CreateUnderWay, CreateAt
  <2>3. CASE /\ conn[s] = netlink[k + d].dst_port /\ s \in announced
             /\ \A j \in DOMAIN netlink : CreateAt(j, s) => j = k + d
    <3>1. ASSUME NEW j \in DOMAIN netlink', CreateAt(j, s)'
          PROVE  j = k
      <4>1. j + d \in DOMAIN netlink /\ CreateAt(j + d, s)
        BY <3>1 DEF Old, CreateAt
      <4>2. j + d = k + d
        BY <2>3, <4>1
      <4> QED
        BY <4>2
    <3> QED
      BY <2>1, <2>3, <3>1 DEF SidKept
  <2> QED
    BY <2>1, <2>2, <2>3 DEF SidInv, CreatesOfSid
<1>4. OneHolder(s)'
  BY DEF SidInv, OneHolder, SidKept
<1> QED
  BY <1>2, <1>3, <1>4 DEF SidInv

\* The step counts no new request and caches no client for the sid.
AskKept(s) ==
    /\ asker'[s] \in {None, asker[s]}
    /\ asker'[s] # None => ~CreateUnderWay(s)'
    /\ client_from_sock'[s] \in {None, client_from_sock[s]}
    /\ s \in stray => s \in stray' \/ client_from_sock'[s] = None

\* Who may get a reply stays who may.
LEMMA BelongsKept ==
  ASSUME NEW s \in Sids, NEW o, SidKept(s), AskKept(s), Belongs(s, o)
  PROVE  /\ \A e \in Envs \ {o} : kernel_flows'[e][s] # None => s \in abandoned'[e]
         /\ client_from_sock'[s] \in {None, o} \/ s \in stray'
  BY DEF SidKept, AskKept, Belongs

\* Such a step keeps AskInv if it sends no reply on the sid, nor a CREATE before one.
LEMMA AskKeptStep ==
  ASSUME NEW s \in Sids, NEW d \in {0, 1}, AskInv(s), SidKept(s), AskKept(s),
         \A k \in DOMAIN netlink' : k \in Nat,
         \A k \in DOMAIN netlink' : Answers(k, s)' =>
            /\ Old(k, d)
            /\ \A j \in DOMAIN netlink' : j <= k /\ CreateAt(j, s)' => Old(j, d)
  PROVE  AskInv(s)'
<1>1. AskerOfSid(s)'
  <2> SUFFICES ASSUME asker'[s] # None
               PROVE  s \in announced' /\ ~CreateUnderWay(s)' /\ Belongs(s, asker[s])'
    BY DEF AskerOfSid, AskKept
  <2> QED
    BY DEF AskInv, AskerOfSid, Belongs, SidKept, AskKept
<1>2. RepliesOfSid(s)'
  <2> SUFFICES ASSUME NEW k \in DOMAIN netlink', Answers(k, s)'
               PROVE  /\ \A j \in DOMAIN netlink' : j <= k => ~CreateAt(j, s)'
                      /\ Belongs(s, origins[k])'
    BY DEF RepliesOfSid
  <2>1. /\ k + d \in DOMAIN netlink /\ origins'[k] = origins[k + d]
        /\ Answers(k + d, s)
    BY DEF Old, Answers
  <2>2. /\ \A j \in DOMAIN netlink : j <= k + d => ~CreateAt(j, s)
        /\ Belongs(s, origins[k + d])
    BY <2>1 DEF AskInv, RepliesOfSid
  <2>3. ASSUME NEW j \in DOMAIN netlink', j <= k, CreateAt(j, s)'
        PROVE  FALSE
    <3>1. j + d \in DOMAIN netlink /\ CreateAt(j + d, s)
      BY <2>3 DEF Old, CreateAt
    <3>2. j + d <= k + d
      BY <2>3
    <3> QED
      BY <2>2, <3>1, <3>2
  <2>4. \A j \in DOMAIN netlink' : j <= k => ~CreateAt(j, s)'
    BY <2>3
  <2>5. Belongs(s, origins[k])'
    BY <2>1, <2>2, BelongsKept DEF Belongs
  <2> QED
    BY <2>4, <2>5
<1> QED
  BY <1>1, <1>2 DEF AskInv

-----------------------------------------------------------------------------
(* The kernel's steps *)

\* A new connection takes a sid that only abandoned flows still hold.
LEMMA ConnectStep ==
  ASSUME SteeringInv, NEW s \in Sids, NEW p \in Ports, KernelConnects(s, p)
  PROVE  PathInv'
<1>1. /\ Inv /\ HistoryOK /\ \A t \in Sids : SidInv(t) /\ AskInv(t)
      /\ conn \in [Sids -> Ports \cup {None}] /\ kernel_flows \in [Envs -> [Sids -> Ports \cup {None}]]
      /\ MessagesOK
  BY DEF SteeringInv, PathInv, Inv, TypeOK, MessagesOK
<1>2. /\ conn[s] = None /\ conn' = [conn EXCEPT ![s] = p]
      /\ UNCHANGED <<kernel_flows, client_from_sock, announced, netlink>>
      /\ UNCHANGED <<origins, asker, abandoned, stray>>
  BY DEF KernelConnects, Connect, activeMaps, history
<1>3. HistoryOK' /\ \A k \in DOMAIN netlink' : k \in Nat /\ Old(k, 0)
  BY <1>1, <1>2, QueueKept DEF HistoryOK
<1>4. ASSUME NEW t \in Sids
      PROVE  AskInv(t)'
  BY <1>1, <1>2 DEF AskInv, AskerOfSid, RepliesOfSid, Answers, CreateAt, Belongs, CreateUnderWay
<1>5. ASSUME NEW t \in Sids, t # s
      PROVE  SidInv(t)'
  <2>1. SidKept(t)
    BY <1>1, <1>2, <1>5 DEF SidKept
  <2> QED
    BY <1>1, <1>3, <2>1, SidKeptStep
<1>6. SidInv(s)'
  <2>1. \A e \in Envs : kernel_flows[e][s] # None => s \in abandoned[e]
    BY <1>1, <1>2 DEF SidInv, FlowsOfSid
  <2>2. ASSUME NEW k \in DOMAIN netlink, CreateAt(k, s)
        PROVE  Gone(s)
    <3>1. netlink[k].dst_port # None
      BY <1>1, <2>2, NoneAssumption DEF MessagesOK, CreateAt
    <3> QED
      BY <1>1, <1>2, <2>2, <3>1 DEF SidInv, CreatesOfSid
  <2>3. FlowsOfSid(s)' /\ OneHolder(s)'
    BY <1>2, <2>1 DEF FlowsOfSid, OneHolder
  <2>4. CreatesOfSid(s)'
    BY <1>2, <2>2 DEF CreatesOfSid, CreateAt, Gone
  <2> QED
    BY <2>3, <2>4 DEF SidInv
<1> QED
  BY <1>3, <1>4, <1>5, <1>6 DEF PathInv

\* The CREATE of a connection is the only one of its sid, or nobody counts on the sid.
LEMMA AnnounceStep ==
  ASSUME SteeringInv, NEW s \in Sids, KernelAnnounces(s)
  PROVE  PathInv'
<1> DEFINE m == [type |-> "CREATE", sock_id |-> s, id |-> s, dst_port |-> conn[s]]
<1>1. /\ Inv /\ HistoryOK /\ \A t \in Sids : SidInv(t) /\ AskInv(t)
      /\ conn \in [Sids -> Ports \cup {None}] /\ announced \subseteq Sids
      /\ netlink \in Seq(Messages)
  BY DEF SteeringInv, PathInv, Inv, TypeOK
<1>2. /\ conn[s] # None /\ s \notin announced /\ announced' = announced \cup {s}
      /\ Post(m) /\ Posts(None)
      /\ UNCHANGED <<kernel_flows, client_from_sock, conn>>
      /\ UNCHANGED <<asker, abandoned, stray>>
  BY DEF KernelAnnounces, Announce, CreateSid, activeMaps
<1>3. m \in Messages /\ m.type = "CREATE" /\ m.sock_id = s /\ m.dst_port = conn[s]
  BY <1>1, <1>2 DEF Messages
<1> HIDE DEF m
<1>4. /\ HistoryOK'
      /\ \A k \in DOMAIN netlink' :
            k \in Nat /\ (Old(k, 0) \/ (k = Len(netlink) + 1 /\ netlink'[k] = m /\ origins'[k] = None))
  BY <1>1, <1>2, <1>3, QueuePost DEF HistoryOK
<1>5. \A k \in DOMAIN netlink : k \in Nat /\ k <= Len(netlink)
  BY <1>1, LenProperties
<1>6. ASSUME NEW t \in Sids
      PROVE  SidKept(t) /\ (t # s => \A k \in DOMAIN netlink' : CreateAt(k, t)' => Old(k, 0))
  <2>1. SidKept(t)
    BY <1>2 DEF SidKept
  <2>2. ASSUME t # s, NEW k \in DOMAIN netlink', CreateAt(k, t)'
        PROVE  Old(k, 0)
    BY <1>3, <1>4, <2>2 DEF CreateAt
  <2> QED
    BY <2>1, <2>2
<1>7. ASSUME NEW t \in Sids
      PROVE  AskInv(t)'
  <2>1. ASSUME asker'[t] # None  PROVE  ~CreateUnderWay(t)'
    <3>1. t # s /\ ~CreateUnderWay(t)
      BY <1>1, <1>2, <2>1 DEF AskInv, AskerOfSid
    <3> QED
      BY <1>6, <3>1 DEF CreateUnderWay, CreateAt, Old
  <2>2. AskKept(t)
    BY <1>2, <2>1 DEF AskKept
  <2>3. ASSUME NEW k \in DOMAIN netlink', Answers(k, t)'
        PROVE  Old(k, 0) /\ \A j \in DOMAIN netlink' : j <= k /\ CreateAt(j, t)' => Old(j, 0)
    <3>1. Old(k, 0) /\ k \in DOMAIN netlink
      BY <1>3, <1>4, <2>3 DEF Answers, Old
    <3>2. \A j \in DOMAIN netlink' : j <= k => j # Len(netlink) + 1
      BY <1>4, <1>5, <3>1
    <3> QED
      BY <1>4, <3>1, <3>2
  <2> QED
    BY <1>1, <1>4, <1>6, <2>2, <2>3, AskKeptStep
<1>8. ASSUME NEW t \in Sids, t # s
      PROVE  SidInv(t)'
  BY <1>1, <1>4, <1>6, <1>8, SidKeptStep
<1>9. SidInv(s)'
  <2>1. \A e \in Envs : kernel_flows[e][s] # None => s \in abandoned[e]
    BY <1>1, <1>2 DEF SidInv, FlowsOfSid
  <2>2. \A k \in DOMAIN netlink : CreateAt(k, s) => Gone(s)
    BY <1>1, <1>2 DEF SidInv, CreatesOfSid
  <2>3. FlowsOfSid(s)' /\ OneHolder(s)'
    BY <1>2, <2>1 DEF FlowsOfSid, OneHolder
  <2>4. CreatesOfSid(s)'
    <3>1. CASE Gone(s)
      BY <1>2, <3>1 DEF CreatesOfSid, Gone
    <3>2. CASE ~Gone(s)
      <4>1. \A k \in DOMAIN netlink' : CreateAt(k, s)' => k = Len(netlink) + 1 /\ netlink'[k] = m
        BY <1>4, <2>2, <3>2 DEF Old, CreateAt
      <4> QED
        BY <1>2, <1>3, <4>1 DEF CreatesOfSid
    <3> QED
      BY <3>1, <3>2
  <2> QED
    BY <2>3, <2>4 DEF SidInv
<1> QED
  BY <1>4, <1>7, <1>8, <1>9 DEF PathInv

\* When a connection closes, every flow that has its sid, or may still get it, is
\* abandoned, and its request is forgotten.
LEMMA DisconnectStep ==
  ASSUME SteeringInv, NEW s \in Sids, KernelDisconnects(s)
  PROVE  PathInv'
<1> DEFINE m == [type |-> "RELEASE", sock_id |-> 0, id |-> s, dst_port |-> None]
<1>1. /\ Inv /\ HistoryOK /\ \A t \in Sids : SidInv(t) /\ AskInv(t)
      /\ conn \in [Sids -> Ports \cup {None}]
  BY DEF SteeringInv, PathInv, Inv, TypeOK
<1>2. /\ conn' = [conn EXCEPT ![s] = None] /\ announced' = announced \ {s}
      /\ Post(m) \/ UNCHANGED netlink
      /\ Posts(None)
      /\ asker' = [asker EXCEPT ![s] = None]
      /\ abandoned' = [e \in Envs |-> IF Unended(e, s) THEN abandoned[e] \cup {s} ELSE abandoned[e]]
      /\ UNCHANGED <<kernel_flows, client_from_sock, stray>>
  BY DEF KernelDisconnects, Disconnect, activeMaps
<1>3. m \in Messages /\ m.type = "RELEASE"
  BY DEF Messages
<1> HIDE DEF m
<1>4. /\ origins' \in Seq(Envs \cup {None}) /\ Len(origins') = Len(netlink')
      /\ \A k \in DOMAIN netlink' : k \in Nat /\ (Old(k, 0) \/ netlink'[k] = m)
  <2>1. CASE Post(m)
    BY <1>1, <1>2, <1>3, <2>1, QueuePost
  <2>2. CASE UNCHANGED netlink
    BY <1>1, <1>2, <2>2, QueueKept DEF Posts
  <2> QED
    BY <1>2, <2>1, <2>2
<1>5. HistoryOK'
  BY <1>1, <1>2, <1>4, NoneAssumption DEF HistoryOK
<1>6. ASSUME NEW t \in Sids, NEW k \in DOMAIN netlink', CreateAt(k, t)' \/ Answers(k, t)'
      PROVE  Old(k, 0)
  BY <1>3, <1>4, <1>6 DEF CreateAt, Answers
<1>7. \A t \in Sids : CreateUnderWay(t)' => CreateUnderWay(t)
  BY <1>6 DEF CreateUnderWay, CreateAt, Old
<1>8. \A t \in Sids, e \in Envs : t \in abandoned[e] => t \in abandoned'[e]
  BY <1>1, <1>2 DEF HistoryOK
<1>9. ASSUME NEW t \in Sids, t # s
      PROVE  SidInv(t)' /\ AskInv(t)'
  <2>1. SidKept(t)
    BY <1>1, <1>2, <1>8, <1>9 DEF SidKept
  <2>2. AskKept(t)
    BY <1>1, <1>2, <1>7, <1>9 DEF AskKept, HistoryOK, AskInv, AskerOfSid
  <2>3. ASSUME NEW k \in DOMAIN netlink', Answers(k, t)'
        PROVE  Old(k, 0) /\ \A j \in DOMAIN netlink' : j <= k /\ CreateAt(j, t)' => Old(j, 0)
    BY <1>4, <1>6, <2>3
  <2> QED
    BY <1>1, <1>4, <1>6, <2>1, <2>2, <2>3, SidKeptStep, AskKeptStep
<1>10. SidInv(s)'
  <2>1. \A e \in Envs : kernel_flows[e][s] # None => s \in abandoned'[e]
    BY <1>2 DEF Unended
  <2>2. CreateUnderWay(s)' => Gone(s)'
    BY <1>2, <1>7 DEF Unended, Gone
  <2>3. FlowsOfSid(s)' /\ OneHolder(s)'
    BY <1>2, <2>1 DEF FlowsOfSid, OneHolder
  <2>4. CreatesOfSid(s)'
    BY <2>2 DEF CreatesOfSid, CreateUnderWay, CreateAt
  <2> QED
    BY <2>3, <2>4 DEF SidInv
<1>11. AskInv(s)'
  <2>1. AskerOfSid(s)'
    BY <1>1, <1>2 DEF AskerOfSid, HistoryOK
  <2>2. ASSUME NEW k \in DOMAIN netlink', Answers(k, s)'
        PROVE  /\ \A j \in DOMAIN netlink' : j <= k => ~CreateAt(j, s)'
               /\ Belongs(s, origins[k])'
    <3>1. k \in DOMAIN netlink /\ origins'[k] = origins[k] /\ Answers(k, s)
      BY <1>4, <1>6, <2>2 DEF Old, Answers
    <3>2. (\A j \in DOMAIN netlink : j <= k => ~CreateAt(j, s)) /\ Belongs(s, origins[k])
      BY <1>1, <3>1 DEF AskInv, RepliesOfSid
    <3>3. \A j \in DOMAIN netlink' : j <= k => ~CreateAt(j, s)'
      BY <1>4, <1>6, <3>2 DEF Old, CreateAt
    <3>4. Belongs(s, origins[k])'
      BY <1>2, <1>8, <3>1, <3>2 DEF Belongs
    <3> QED
      BY <3>3, <3>4
  <2>3. RepliesOfSid(s)'
    BY <2>2 DEF RepliesOfSid
  <2> QED
    BY <2>1, <2>3 DEF AskInv
<1> QED
  BY <1>5, <1>9, <1>10, <1>11 DEF PathInv

\* A request that lands on another connection counts for nobody.
LEMMA StrayStep ==
  ASSUME SteeringInv, NEW s \in Sids, KernelTakesStray(s)
  PROVE  PathInv'
<1>1. /\ UNCHANGED <<kernel_flows, client_from_sock, conn, announced, netlink>>
      /\ UNCHANGED <<origins, asker, abandoned, stray>>
  BY DEF KernelTakesStray, RequestLands, activeMaps
<1> QED
  BY <1>1 DEF SteeringInv, PathInv, HistoryOK, SidInv, FlowsOfSid, CreatesOfSid, OneHolder,
     AskInv, AskerOfSid, RepliesOfSid, Answers, Belongs, Gone, CreateAt, CreateUnderWay

\* A reply only counts for an environment while that environment holds the sid.
LEMMA AnswerStep ==
  ASSUME SteeringInv, NEW s \in Sids, KernelAnswers(s)
  PROVE  PathInv'
<1> DEFINE m == [type |-> "MEASURE", sock_id |-> s, id |-> s, dst_port |-> None]
<1>1. /\ Inv /\ HistoryOK /\ \A t \in Sids : SidInv(t) /\ AskInv(t)
  BY DEF SteeringInv, PathInv
<1>2. /\ Post(m) \/ UNCHANGED netlink
      /\ Posts(asker[s]) /\ asker[s] \in Envs \cup {None}
      /\ asker' = [asker EXCEPT ![s] = None]
      /\ UNCHANGED <<kernel_flows, client_from_sock, conn, announced>>
      /\ UNCHANGED <<abandoned, stray>>
  BY <1>1 DEF KernelAnswers, AnswerMeasure, activeMaps, HistoryOK
<1>3. m \in Messages /\ m.type = "MEASURE" /\ m.sock_id = s
  BY DEF Messages
<1> HIDE DEF m
<1>4. /\ origins' \in Seq(Envs \cup {None}) /\ Len(origins') = Len(netlink')
      /\ \A k \in DOMAIN netlink' :
            k \in Nat /\ (Old(k, 0) \/ (netlink'[k] = m /\ origins'[k] = asker[s]))
  <2>1. CASE Post(m)
    BY <1>1, <1>2, <1>3, <2>1, QueuePost
  <2>2. CASE UNCHANGED netlink
    BY <1>1, <1>2, <2>2, QueueKept DEF Posts
  <2> QED
    BY <1>2, <2>1, <2>2
<1>5. HistoryOK'
  BY <1>1, <1>2, <1>4, NoneAssumption DEF HistoryOK
<1>6. ASSUME NEW t \in Sids, NEW k \in DOMAIN netlink', CreateAt(k, t)'
      PROVE  Old(k, 0)
  BY <1>3, <1>4, <1>6 DEF CreateAt
<1>7. \A t \in Sids : CreateUnderWay(t)' => CreateUnderWay(t)
  BY <1>6 DEF CreateUnderWay, CreateAt, Old
<1>8. \A t \in Sids : SidKept(t) /\ SidInv(t)'
  <2>1. \A t \in Sids : SidKept(t)
    BY <1>2 DEF SidKept
  <2> QED
    BY <1>1, <1>4, <1>6, <2>1, SidKeptStep
<1>9. ASSUME NEW t \in Sids
      PROVE  AskInv(t)'
  <2>1. AskerOfSid(t)'
    BY <1>1, <1>2, <1>7 DEF AskerOfSid, AskInv, HistoryOK, Belongs
  <2>2. ASSUME NEW k \in DOMAIN netlink', Answers(k, t)'
        PROVE  /\ \A j \in DOMAIN netlink' : j <= k => ~CreateAt(j, t)'
               /\ Belongs(t, origins[k])'
    <3>1. CASE Old(k, 0)
      <4>1. k \in DOMAIN netlink /\ origins'[k] = origins[k] /\ Answers(k, t)
        BY <1>4, <2>2, <3>1 DEF Old, Answers
      <4>2. (\A j \in DOMAIN netlink : j <= k => ~CreateAt(j, t)) /\ Belongs(t, origins[k])
        BY <1>1, <4>1 DEF AskInv, RepliesOfSid
      <4>3. \A j \in DOMAIN netlink' : j <= k => ~CreateAt(j, t)'
        BY <1>4, <1>6, <4>2 DEF Old, CreateAt
      <4>4. Belongs(t, origins[k])'
        BY <1>2, <4>1, <4>2 DEF Belongs
      <4> QED
        BY <4>3, <4>4
    <3>2. CASE netlink'[k] = m /\ origins'[k] = asker[s]
      <4>1. t = s /\ asker[s] # None
        BY <1>3, <2>2, <3>2 DEF Answers
      <4>2. ~CreateUnderWay(s) /\ Belongs(s, asker[s])
        BY <1>1, <4>1 DEF AskInv, AskerOfSid
      <4>3. \A j \in DOMAIN netlink' : ~CreateAt(j, t)'
        BY <1>7, <4>1, <4>2 DEF CreateUnderWay, CreateAt
      <4>4. Belongs(t, origins[k])'
        BY <1>2, <3>2, <4>1, <4>2 DEF Belongs
      <4> QED
        BY <4>3, <4>4
    <3> QED
      BY <1>4, <3>1, <3>2
  <2>3. RepliesOfSid(t)'
    BY <2>2 DEF RepliesOfSid
  <2> QED
    BY <2>1, <2>3 DEF AskInv
<1> QED
  BY <1>5, <1>8, <1>9 DEF PathInv

-----------------------------------------------------------------------------
(* The controller's steps *)

\* A message that is read gives nothing to the sids it does not name.
LEMMA ReadStep ==
  ASSUME SteeringInv, Reads, netlink' = Tail(netlink),
         UNCHANGED <<client_from_sock, conn, announced>>,
         UNCHANGED <<asker, abandoned, stray>>,
         NEW t \in Sids, UNCHANGED kernel_flows \/ \A e \in Envs : kernel_flows'[e][t] = kernel_flows[e][t]
  PROVE  SidInv(t)' /\ AskInv(t)'
<1>1. Inv /\ HistoryOK /\ SidInv(t) /\ AskInv(t)
  BY DEF SteeringInv, PathInv
<1>2. \A k \in DOMAIN netlink' : k \in Nat /\ Old(k, 1)
  BY <1>1, QueueRead
<1>3. SidKept(t)
  BY DEF SidKept
<1>4. AskKept(t)
  BY <1>1, <1>2 DEF AskKept, AskInv, AskerOfSid, CreateUnderWay, Old
<1>5. SidInv(t)'
  BY <1>1, <1>2, <1>3, SidKeptStep
<1>6. AskInv(t)'
  BY <1>1, <1>2, <1>3, <1>4, AskKeptStep
<1> QED
  BY <1>5, <1>6

\* MEASURE and RELEASE give no sid to anybody.
LEMMA ReadOtherStep ==
  ASSUME SteeringInv, ReadsMeasure \/ ReadsRelease
  PROVE  PathInv'
<1>1. /\ Reads /\ netlink' = Tail(netlink) /\ UNCHANGED kernel_flows
      /\ UNCHANGED <<client_from_sock, conn, announced>>
      /\ UNCHANGED <<asker, abandoned, stray>>
  BY DEF ReadsMeasure, ReadsRelease, NlMeasure, NlRelease, Arrives, activeMaps, kernel
<1>2. Inv /\ HistoryOK
  BY DEF SteeringInv, PathInv
<1>3. HistoryOK'
  BY <1>1, <1>2, QueueRead DEF HistoryOK
<1>4. \A t \in Sids : SidInv(t)' /\ AskInv(t)'
  BY <1>1, ReadStep
<1> QED
  BY <1>3, <1>4 DEF PathInv

\* CREATE gives the sid to a flow of the connection that has it now, and no other
\* CREATE of the sid is left; or the connection is gone and so is the flow's claim.
LEMMA ReadCreateStep ==
  ASSUME SteeringInv, ReadsCreate
  PROVE  PathInv'
<1>0. Head(netlink).sock_id \in Sids
  BY HeadMessage DEF SteeringInv, Inv, ReadsCreate, NlCreate, Arrives
<1> PICK s \in Sids : s = Head(netlink).sock_id
  BY <1>0
<1> DEFINE p == Head(netlink).dst_port
           o == dst_port_to_env_id[p]
<1>1. /\ Inv /\ HistoryOK /\ \A t \in Sids : SidInv(t) /\ AskInv(t)
      /\ netlink \in Seq(Messages) /\ TypeOK
      /\ kernel_flows \in [Envs -> [Sids -> Ports \cup {None}]]
  BY DEF SteeringInv, PathInv, Inv, TypeOK
<1>2. /\ Reads /\ netlink # <<>> /\ netlink' = Tail(netlink) /\ Head(netlink).type = "CREATE"
      /\ UNCHANGED <<client_from_sock, conn, announced>>
      /\ UNCHANGED <<asker, abandoned, stray>>
      /\ \/ kernel_flows' = kernel_flows
         \/ o \in flows_per_env /\ kernel_flows' = [kernel_flows EXCEPT ![o][s] = p]
  BY DEF ReadsCreate, NlCreate, Arrives, kernel
<1>3. /\ s \in Sids /\ 1 \in DOMAIN netlink /\ CreateAt(1, s) /\ netlink[1].dst_port = p
      /\ flows_per_env \subseteq Envs
  BY <1>1, <1>2, HeadMessage DEF CreateAt, TypeOK
<1>4. CreateUnderWay(s)
  BY <1>3 DEF CreateUnderWay, CreateAt
<1> HIDE DEF p, o
<1>5. HistoryOK' /\ \A k \in DOMAIN netlink' : k \in Nat /\ k > 0 /\ Old(k, 1)
  <2>1. netlink' \in Seq(Messages)
    BY <1>1, <1>2, HeadMessage
  <2>2. \A k \in DOMAIN netlink' : k \in Nat /\ k > 0
    BY <2>1, LenProperties
  <2> QED
    BY <1>1, <1>2, <2>2, QueueRead DEF HistoryOK
<1>6. ASSUME NEW t \in Sids, t # s
      PROVE  SidInv(t)' /\ AskInv(t)'
  <2>1. \A e \in Envs : kernel_flows'[e][t] = kernel_flows[e][t]
    BY <1>1, <1>2, <1>3, <1>6
  <2> QED
    BY <1>2, <2>1, ReadStep
<1>7. SidInv(s)'
  <2>1. ASSUME NEW e \in Envs, kernel_flows'[e][s] # None
        PROVE  s \in abandoned[e] \/ (e = o /\ kernel_flows'[e][s] = p)
    <3>1. CASE kernel_flows'[e][s] = kernel_flows[e][s]
      BY <1>1, <1>3, <1>4, <2>1, <3>1 DEF SidInv, FlowsOfSid
    <3>2. CASE kernel_flows'[e][s] # kernel_flows[e][s]
      BY <1>1, <1>2, <1>3, <2>1, <3>2
    <3> QED
      BY <3>1, <3>2
  <2>2. CASE Gone(s)
    <3>1. \A e \in Envs : s \in abandoned'[e]
      BY <1>2, <2>2 DEF Gone
    <3> QED
      BY <3>1 DEF SidInv, FlowsOfSid, CreatesOfSid, OneHolder, Gone
  <2>3. CASE /\ conn[s] = p /\ s \in announced
             /\ \A j \in DOMAIN netlink : CreateAt(j, s) => j = 1
    <3>1. \A k \in DOMAIN netlink' : ~CreateAt(k, s)'
      <4> SUFFICES ASSUME NEW k \in DOMAIN netlink', CreateAt(k, s)'
                   PROVE  FALSE
        OBVIOUS
      <4>1. k + 1 \in DOMAIN netlink /\ CreateAt(k + 1, s)
        BY <1>5 DEF Old, CreateAt
      <4>2. k + 1 = 1
        BY <2>3, <4>1
      <4> QED
        BY <1>5, <4>2
    <3>2. FlowsOfSid(s)'
      BY <1>2, <2>1, <2>3, <3>1 DEF FlowsOfSid, CreateUnderWay, CreateAt
    <3>3. CreatesOfSid(s)'
      BY <3>1 DEF CreatesOfSid
    <3>4. OneHolder(s)'
      BY <1>2, <2>1 DEF OneHolder
    <3> QED
      BY <3>2, <3>3, <3>4 DEF SidInv
  <2> QED
    BY <1>1, <1>3, <2>2, <2>3 DEF SidInv, CreatesOfSid
<1>8. AskInv(s)'
  <2>1. AskerOfSid(s)'
    BY <1>1, <1>2, <1>3, <1>4 DEF AskInv, AskerOfSid
  <2>2. ASSUME NEW k \in DOMAIN netlink', Answers(k, s)'
        PROVE  FALSE
    <3>1. k + 1 \in DOMAIN netlink /\ Answers(k + 1, s) /\ 1 <= k + 1
      BY <1>5, <2>2 DEF Old, Answers
    <3>2. ~CreateAt(1, s)
      BY <1>1, <1>3, <3>1 DEF AskInv, RepliesOfSid
    <3> QED
      BY <1>3, <3>2
  <2>3. RepliesOfSid(s)'
    BY <2>2 DEF RepliesOfSid
  <2> QED
    BY <2>1, <2>3 DEF AskInv
<1> QED
  BY <1>3, <1>5, <1>6, <1>7, <1>8 DEF PathInv

\* What an environment sends, other than a request, only takes flows from it.
LEMMA EnvSendsStep ==
  ASSUME SteeringInv, NEW e \in Envs, EnvSends(e)
  PROVE  PathInv'
<1>1. /\ Inv /\ HistoryOK /\ \A t \in Sids : SidInv(t) /\ AskInv(t)
      /\ kernel_flows \in [Envs -> [Sids -> Ports \cup {None}]]
      /\ flow_id_to_sock_id \in [Envs -> [FlowIds -> Sids \cup {None}]]
  BY DEF SteeringInv, PathInv, Inv, TypeOK
<1>2. /\ UNCHANGED <<client_from_sock, conn, announced, netlink>>
      /\ UNCHANGED <<origins, asker, stray>>
      /\ abandoned' = Forgets(e)
  BY DEF EnvSends, EnvInit, EnvTerminate, EnvEnd, EnvAlive, EnvStart, kernel
<1>3. \A c \in Envs, t \in Sids :
         kernel_flows'[c][t] # None => kernel_flows'[c][t] = kernel_flows[c][t]
  <2>1. CASE EnvInit(e) \/ EnvTerminate(e)
    BY <1>1, <2>1 DEF EnvInit, EnvTerminate, FreshMaps, NoFlows
  <2>2. ASSUME NEW f \in FlowIds, EnvEnd(e, f)
        PROVE  \A c \in Envs, t \in Sids :
                  kernel_flows'[c][t] # None => kernel_flows'[c][t] = kernel_flows[c][t]
    <3>1. \/ UNCHANGED kernel_flows
          \/ \E x \in Sids : kernel_flows' = [kernel_flows EXCEPT ![e][x] = None]
      BY <1>1, <2>2 DEF EnvEnd
    <3> QED
      BY <1>1, <3>1
  <2> QED
    BY <2>1, <2>2 DEF EnvSends, EnvAlive, EnvStart, activeMaps
<1>4. /\ abandoned' \in [Envs -> SUBSET Sids]
      /\ \A c \in Envs, t \in Sids : t \in abandoned[c] =>
            t \in abandoned'[c] \/ (kernel_flows'[c][t] = None /\ ~CreateUnderWay(t)')
  BY <1>1, <1>2 DEF Forgets, HistoryOK, Unended
<1>5. HistoryOK' /\ \A k \in DOMAIN netlink' : k \in Nat /\ Old(k, 0)
  BY <1>1, <1>2, <1>4, QueueKept DEF HistoryOK
<1>6. ASSUME NEW t \in Sids
      PROVE  SidInv(t)' /\ AskInv(t)'
  <2>1. SidKept(t)
    BY <1>2, <1>3, <1>4 DEF SidKept
  <2>2. AskKept(t)
    BY <1>1, <1>2 DEF AskKept, AskInv, AskerOfSid, CreateUnderWay
  <2> QED
    BY <1>1, <1>5, <2>1, <2>2, SidKeptStep, AskKeptStep
<1> QED
  BY <1>5, <1>6 DEF PathInv

\* A request makes its environment the client of the sid: the only holder of it, or a
\* stray.
LEMMA EnvAsksStep ==
  ASSUME SteeringInv, NEW e \in Envs, NEW f \in FlowIds, NEW request \in BOOLEAN,
         EnvAsks(e, f, request)
  PROVE  PathInv'
<1>0. flow_id_to_sock_id[e][f] \in Sids
  BY DEF SteeringInv, Inv, TypeOK, EnvAsks, EnvMeasure
<1> PICK s \in Sids : s = flow_id_to_sock_id[e][f]
  BY <1>0
<1>1. /\ Inv /\ HistoryOK /\ \A t \in Sids : SidInv(t) /\ AskInv(t)
      /\ flow_id_to_sock_id \in [Envs -> [FlowIds -> Sids \cup {None}]]
      /\ client_from_sock \in [Sids -> Envs \cup {None}]
  BY DEF SteeringInv, PathInv, Inv, TypeOK
<1>2. s # None /\ EnvMeasure(e, f, request)
  BY DEF EnvAsks, EnvMeasure
<1>3. s \in Sids /\ kernel_flows[e][s] # None
  BY <1>1, <1>2 DEF Inv, AssociationsAgree
<1>4. /\ client_from_sock' = [client_from_sock EXCEPT ![s] = e]
      /\ UNCHANGED <<kernel_flows, conn, announced, netlink>>
  BY <1>2 DEF EnvMeasure, Clients, activeMaps
<1>5. /\ UNCHANGED <<origins, abandoned>>
      /\ \/ asker' = asker
         \/ asker' = [asker EXCEPT ![s] = IF s \in abandoned[e] THEN None ELSE e]
      /\ stray' = IF s \in abandoned[e] THEN stray \cup {s} ELSE stray \ {s}
  BY DEF EnvAsks
<1>6. HistoryOK' /\ \A k \in DOMAIN netlink' : k \in Nat /\ Old(k, 0)
  <2>1. asker' \in [Sids -> Envs \cup {None}]
    BY <1>1, <1>3, <1>5 DEF HistoryOK
  <2> QED
    BY <1>1, <1>4, <1>5, <2>1, QueueKept DEF HistoryOK
<1>7. ASSUME NEW t \in Sids
      PROVE  SidInv(t)'
  BY <1>1, <1>4, <1>5, <1>7 DEF SidInv, FlowsOfSid, CreatesOfSid, OneHolder, Gone, CreateAt,
     CreateUnderWay
<1>8. ASSUME NEW t \in Sids, t # s
      PROVE  AskInv(t)'
  <2>1. asker'[t] = asker[t] /\ client_from_sock'[t] = client_from_sock[t] /\ (t \in stray' <=> t \in stray)
    BY <1>1, <1>3, <1>4, <1>5, <1>8 DEF HistoryOK
  <2>2. SidKept(t) /\ AskKept(t)
    BY <1>1, <1>4, <1>5, <1>8, <2>1 DEF SidKept, AskKept, AskInv, AskerOfSid, CreateUnderWay
  <2> QED
    BY <1>1, <1>6, <1>8, <2>2, AskKeptStep
<1>9. AskInv(s)'
  <2>1. client_from_sock'[s] = e
    BY <1>1, <1>3, <1>4
  <2>2. ASSUME NEW o \in Envs, Belongs(s, o)
        PROVE  Belongs(s, o)'
    <3>1. s \in abandoned[e] \/ e = o
      BY <1>3, <2>2 DEF Belongs
    <3> QED
      BY <1>4, <1>5, <2>1, <2>2, <3>1 DEF Belongs
  <2>3. RepliesOfSid(s)'
    <3> SUFFICES ASSUME NEW k \in DOMAIN netlink', Answers(k, s)'
                 PROVE  /\ \A j \in DOMAIN netlink' : j <= k => ~CreateAt(j, s)'
                        /\ Belongs(s, origins[k])'
      BY DEF RepliesOfSid
    <3>1. k \in DOMAIN netlink /\ Answers(k, s) /\ origins'[k] = origins[k]
      BY <1>4, <1>5 DEF Answers
    <3>2. (\A j \in DOMAIN netlink : j <= k => ~CreateAt(j, s)) /\ Belongs(s, origins[k])
      BY <1>1, <1>3, <3>1 DEF AskInv, RepliesOfSid
    <3>3. origins[k] \in Envs
      <4>1. netlink \in Seq(Messages)
        BY <1>1 DEF Inv, TypeOK
      <4>2. k \in DOMAIN origins
        BY <1>1, <3>1, <4>1, LenProperties DEF HistoryOK
      <4>3. origins[k] \in Envs \cup {None}
        BY <1>1, <4>2 DEF HistoryOK
      <4> QED
        BY <3>1, <4>3 DEF Answers
    <3>4. PICK o \in Envs : o = origins[k]
      BY <3>3
    <3>5. Belongs(s, o)'
      BY <2>2, <3>2, <3>4
    <3>6. \A j \in DOMAIN netlink' : j <= k => ~CreateAt(j, s)'
      BY <1>4, <3>2 DEF CreateAt
    <3> QED
      BY <3>1, <3>4, <3>5, <3>6 DEF Belongs
  <2>4. AskerOfSid(s)'
    <3>1. CASE asker'[s] = asker[s]
      <4>1. PICK o \in Envs \cup {None} : o = asker[s]
        BY <1>1, <1>3 DEF HistoryOK
      <4>2. o # None => s \in announced /\ ~CreateUnderWay(s) /\ Belongs(s, o)
        BY <1>1, <1>3, <4>1 DEF AskInv, AskerOfSid
      <4>3. o # None => Belongs(s, o)'
        BY <2>2, <4>2
      <4> QED
        BY <1>4, <3>1, <4>1, <4>2, <4>3 DEF AskerOfSid, Belongs, CreateUnderWay
    <3>2. CASE s \notin abandoned[e] /\ asker'[s] = e
      <4>1. s \in announced /\ ~CreateUnderWay(s)
        BY <1>1, <1>3, <3>2 DEF SidInv, FlowsOfSid
      <4>2. \A c \in Envs \ {e} : kernel_flows[c][s] # None => s \in abandoned[c]
        BY <1>1, <1>3, <3>2 DEF SidInv, OneHolder
      <4> QED
        BY <1>4, <1>5, <2>1, <3>2, <4>1, <4>2 DEF AskerOfSid, Belongs, CreateUnderWay
    <3>3. CASE asker'[s] = None
      BY <3>3 DEF AskerOfSid
    <3> QED
      BY <1>1, <1>3, <1>5, <3>1, <3>2, <3>3 DEF HistoryOK
  <2> QED
    BY <2>3, <2>4 DEF AskInv
<1> QED
  BY <1>6, <1>7, <1>8, <1>9 DEF PathInv

\* A new controller knows no flow and no client.
LEMMA RestartStep ==
  ASSUME SteeringInv, Restart
  PROVE  Inv' /\ PathInv'
<1>1. /\ Inv /\ HistoryOK /\ WireTypeOK
      /\ \A t \in Sids : SidInv(t) /\ AskInv(t)
  BY TypeParts DEF SteeringInv, PathInv, Inv
<1>2. /\ netlink' = <<>> /\ origins' = <<>> /\ \A k \in DOMAIN netlink' : FALSE
      /\ UNCHANGED <<conn, announced, asked, adrift>> /\ asker' = asker
      /\ \A t \in Sids : client_from_sock'[t] = None
      /\ \A e \in Envs, t \in Sids : kernel_flows'[e][t] = None
  BY EmptySeq DEF Restart, kernel, NoFlows
<1>3. Inv'
  <2> USE DEF Restart, NoFlows, NoSockIds, NoPorts
  <2>1. MapsTypeOK'
    BY DEF MapsTypeOK
  <2>2. WireTypeOK'
    <3>1. netlink' \in Seq(Messages)
      BY <1>2, EmptySeq
    <3>2. /\ sock_id_to_env_id' \in [Sids -> Envs \cup {None}]
          /\ client_from_sock' \in [Sids -> Envs \cup {None}]
      OBVIOUS
    <3> QED
      BY <1>1, <1>2, <3>1, <3>2 DEF WireTypeOK
  <2>3. MessagesOK'
    BY <1>2 DEF MessagesOK
  <2>4. AssociationsAgree' /\ BoundToRegistered'
    BY DEF AssociationsAgree, BoundToRegistered
  <2> QED
    BY <2>1, <2>2, <2>3, <2>4 DEF Inv, TypeOK, MapsTypeOK, WireTypeOK, MessagesOK
<1>4. HistoryOK'
  BY <1>1, <1>2, EmptySeq DEF Restart, HistoryOK
<1>5. ASSUME NEW t \in Sids
      PROVE  SidInv(t)' /\ AskInv(t)'
  <2>1. ~CreateUnderWay(t)'
    BY <1>2 DEF CreateUnderWay
  <2>2. SidInv(t)'
    BY <1>2 DEF SidInv, FlowsOfSid, CreatesOfSid, OneHolder
  <2>3. AskInv(t)'
    BY <1>1, <1>2, <2>1 DEF AskInv, AskerOfSid, RepliesOfSid, Belongs
  <2> QED
    BY <2>2, <2>3
<1> QED
  BY <1>3, <1>4, <1>5 DEF PathInv

-----------------------------------------------------------------------------
(* Theorems *)

\* The two sides start without flows, connections and messages.
LEMMA SteeringInitInv == SteeringInit => SteeringInv
<1> SUFFICES ASSUME SteeringInit  PROVE  SteeringInv
  OBVIOUS
<1>1. Inv
  BY InitInv DEF SteeringInit
<1>2. /\ netlink = <<>> /\ origins = <<>> /\ \A k \in DOMAIN netlink : FALSE
      /\ \A t \in Sids : asker[t] = None
      /\ \A e \in Envs, t \in Sids : kernel_flows[e][t] = None
  BY EmptySeq DEF SteeringInit, Init, NoFlows
<1>3. HistoryOK
  BY <1>2, EmptySeq DEF SteeringInit, HistoryOK, NoFlows
<1>4. \A t \in Sids : SidInv(t) /\ AskInv(t)
  BY <1>2 DEF SidInv, FlowsOfSid, CreatesOfSid, OneHolder, AskInv, AskerOfSid, RepliesOfSid
<1> QED
  BY <1>1, <1>3, <1>4 DEF SteeringInv, PathInv

\* Every step keeps the invariant.
LEMMA SteeringInvStep ==
  ASSUME SteeringInv, [SteeringNext]_steeringVars
  PROVE  SteeringInv'
<1>1. ASSUME [Next]_vars  PROVE  Inv'
  BY <1>1, InvStep DEF SteeringInv
<1>2. ASSUME NEW s \in Sids, NEW p \in Ports, KernelConnects(s, p)
      PROVE  SteeringInv'
  BY <1>1, <1>2, ConnectStep DEF KernelConnects, Next, SteeringInv
<1>3. ASSUME NEW s \in Sids,
             KernelAnnounces(s) \/ KernelDisconnects(s) \/ KernelTakesStray(s) \/ KernelAnswers(s)
      PROVE  SteeringInv'
  <2>1. Next
    BY <1>3 DEF KernelAnnounces, KernelDisconnects, KernelTakesStray, KernelAnswers, Next
  <2> QED
    BY <1>1, <1>3, <2>1, AnnounceStep, DisconnectStep, StrayStep, AnswerStep DEF SteeringInv
<1>4. CASE ReadsCreate \/ ReadsMeasure \/ ReadsRelease
  <2>1. Next
    BY <1>4 DEF ReadsCreate, ReadsMeasure, ReadsRelease, Next
  <2> QED
    BY <1>1, <1>4, <2>1, ReadCreateStep, ReadOtherStep DEF SteeringInv
<1>5. ASSUME NEW e \in Envs, EnvSends(e)
      PROVE  SteeringInv'
  <2>1. Next
    BY <1>5 DEF EnvSends, Next
  <2> QED
    BY <1>1, <1>5, <2>1, EnvSendsStep DEF SteeringInv
<1>6. ASSUME NEW e \in Envs, NEW f \in FlowIds, NEW request \in BOOLEAN, EnvAsks(e, f, request)
      PROVE  SteeringInv'
  <2>1. Next
    BY <1>6 DEF EnvAsks, Next
  <2> QED
    BY <1>1, <1>6, <2>1, EnvAsksStep DEF SteeringInv
<1>7. CASE Restart
  BY <1>7, RestartStep DEF SteeringInv
<1>8. CASE UNCHANGED steeringVars
  <2>1. Inv'
    BY <1>1, <1>8 DEF steeringVars
  <2>2. PathInv'
    BY <1>8 DEF steeringVars, vars, history, activeMaps, kernel, SteeringInv, PathInv, HistoryOK,
       SidInv, FlowsOfSid, CreatesOfSid, OneHolder, AskInv, AskerOfSid, RepliesOfSid, Answers,
       Belongs, Gone, CreateAt, CreateUnderWay
  <2> QED
    BY <2>1, <2>2 DEF SteeringInv
<1> QED
  BY <1>2, <1>3, <1>4, <1>5, <1>6, <1>7, <1>8 DEF SteeringNext

\* The invariant holds in every reachable state, crashes included.
THEOREM SteeringInvHolds == SteeringSpec => []SteeringInv
  BY SteeringInitInv, SteeringInvStep, PTL DEF SteeringSpec

\* The controller's maps never disagree about a flow, across crashes.
THEOREM MapsAgree == SteeringSpec => []AssociationsAgree
<1>1. SteeringInv => AssociationsAgree
  BY DEF SteeringInv, Inv
<1> QED
  BY <1>1, SteeringInvHolds, PTL

\* A bound port always leads to a registered environment.
THEOREM BindingsAreServed == SteeringSpec => []BoundToRegistered
<1>1. SteeringInv => BoundToRegistered
  BY DEF SteeringInv, Inv
<1> QED
  BY <1>1, SteeringInvHolds, PTL

\* Every variable of controller and kernel stays in its range.
THEOREM TypeCorrect == SteeringSpec => []TypeOK
<1>1. SteeringInv => TypeOK
  BY DEF SteeringInv, Inv
<1> QED
  BY <1>1, SteeringInvHolds, PTL

\* No environment loses a port through another one's messages.
THEOREM PortsOfOthersAreKept == SteeringSpec => OthersPortsKept
<1>1. ASSUME Inv, [SteeringNext]_steeringVars, NEW p \in Ports, NEW o \in Envs,
             dst_port_to_env_id[p] = o, dst_port_to_env_id'[p] # o
      PROVE  EnvTerminate(o) \/ Restart \/ \E f \in FlowIds : EnvEnd(o, f)
  <2>1. SteeringNext
    BY <1>1 DEF steeringVars, vars, envFlows
  <2>2. Next \/ Restart
    BY <2>1 DEF SteeringNext, KernelConnects, KernelAnnounces, KernelDisconnects,
       KernelTakesStray, KernelAnswers, ReadsCreate, ReadsMeasure, ReadsRelease, EnvSends,
       EnvAsks, Next
  <2> QED
    BY <1>1, <2>2, PortsKeptStep
<1>2. SteeringInv /\ [SteeringNext]_steeringVars =>
        [\A p \in Ports, e \in Envs :
           dst_port_to_env_id[p] = e /\ dst_port_to_env_id'[p] # e
             => EnvTerminate(e) \/ Restart \/ \E f \in FlowIds : EnvEnd(e, f)]_steeringVars
  BY <1>1 DEF SteeringInv
<1> QED
  BY <1>2, SteeringInvHolds, PTL DEF SteeringSpec, OthersPortsKept

\* As long as no request was left to a later controller or hit another connection, the
\* netlink socket is served, and every reply on its way has a client.
ServedInv == ~orphaned => listening /\ ClientInv

LEMMA ServedStep ==
  ASSUME SteeringInv, SteeringInv', ServedInv, [SteeringNext]_steeringVars
  PROVE  ServedInv'
<1> SUFFICES ASSUME ~orphaned'  PROVE  listening' /\ ClientInv'
  BY DEF ServedInv
<1>1. Inv /\ Inv'
  BY DEF SteeringInv
<1>2. ASSUME ~orphaned, OwnNext  PROVE  ClientInv'
  BY <1>1, <1>2, ClientStep DEF ServedInv
<1>3. ASSUME NEW s \in Sids, NEW p \in Ports, KernelConnects(s, p)
      PROVE  listening' /\ ClientInv'
  BY <1>2, <1>3 DEF KernelConnects, history, OwnNext, ServedInv
<1>4. ASSUME NEW s \in Sids, KernelAnnounces(s) \/ KernelDisconnects(s) \/ KernelAnswers(s)
      PROVE  listening' /\ ClientInv'
  BY <1>2, <1>4 DEF KernelAnnounces, KernelDisconnects, KernelAnswers, OwnNext, ServedInv
<1>5. ASSUME NEW s \in Sids, KernelTakesStray(s)  PROVE  FALSE
  BY <1>5 DEF KernelTakesStray
<1>6. CASE ReadsCreate \/ ReadsRelease
  BY <1>2, <1>6 DEF ReadsCreate, ReadsRelease, OwnNext, ServedInv
<1>7. CASE ReadsMeasure
  <2>1. ~orphaned /\ listening' = (client_from_sock[Head(netlink).sock_id] # None) /\ NlMeasure
    BY <1>7 DEF ReadsMeasure
  <2>2. /\ netlink \in Seq(Messages) /\ netlink # <<>> /\ Head(netlink).type = "MEASURE"
    BY <1>1, <2>1 DEF NlMeasure, Arrives, Inv, TypeOK
  <2>3. Head(netlink) = netlink[1] /\ 1 \in DOMAIN netlink
    BY <2>2
  <2>4. client_from_sock[Head(netlink).sock_id] # None
    BY <2>1, <2>2, <2>3 DEF ServedInv, ClientInv, MeasureHasClient
  <2>5. OwnNext
    BY <2>1 DEF OwnNext
  <2> QED
    BY <1>2, <2>1, <2>4, <2>5
<1>8. ASSUME NEW e \in Envs, EnvSends(e)
      PROVE  listening' /\ ClientInv'
  BY <1>2, <1>8 DEF EnvSends, OwnNext, ServedInv
<1>9. ASSUME NEW e \in Envs, NEW f \in FlowIds, NEW request \in BOOLEAN, EnvAsks(e, f, request)
      PROVE  listening' /\ ClientInv'
  BY <1>2, <1>9 DEF EnvAsks, OwnNext, ServedInv
<1>10. CASE Restart
  <2>1. asked' = {} /\ netlink' = <<>> /\ listening'
    BY <1>10 DEF Restart, kernel
  <2> QED
    BY <2>1 DEF ClientInv, MeasureHasClient
<1>11. CASE UNCHANGED steeringVars
  BY <1>11 DEF steeringVars, vars, kernel, history, ServedInv, ClientInv, MeasureHasClient
<1> QED
  BY <1>3, <1>4, <1>5, <1>6, <1>7, <1>8, <1>9, <1>10, <1>11 DEF SteeringNext

\* The controller only loses the netlink socket over a reply to a request of a controller
\* before it, or to one that hit another connection.
THEOREM NetlinkIsServed == SteeringSpec => []SocketKept
<1>1. SteeringInit => ServedInv
  BY DEF SteeringInit, Init, ServedInv, ClientInv, MeasureHasClient
<1>2. ServedInv => SocketKept
  BY DEF ServedInv, SocketKept
<1> QED
  BY <1>1, <1>2, ServedStep, SteeringInvHolds, PTL DEF SteeringSpec

\* An action or request only reaches a connection it was not meant for when its own
\* connection closed before the flow was ended.
THEOREM ActionsReachTheirConnection == SteeringSpec => []MisdirectedOnlyIfAbandoned
<1>1. SteeringInv => MisdirectedOnlyIfAbandoned
  <2> SUFFICES ASSUME SteeringInv, NEW e \in Envs, NEW f \in FlowIds,
                      flow_id_to_sock_id[e][f] # None,
                      conn[flow_id_to_sock_id[e][f]] \notin
                        {None, kernel_flows[e][flow_id_to_sock_id[e][f]]}
               PROVE  flow_id_to_sock_id[e][f] \in abandoned[e]
    BY DEF MisdirectedOnlyIfAbandoned
  <2> DEFINE s == flow_id_to_sock_id[e][f]
  <2>1. s \in Sids /\ kernel_flows[e][s] # None
    BY DEF SteeringInv, Inv, TypeOK, AssociationsAgree
  <2>2. FlowsOfSid(s)
    BY <2>1 DEF SteeringInv, PathInv, SidInv
  <2> QED
    BY <2>1, <2>2 DEF FlowsOfSid
<1> QED
  BY <1>1, SteeringInvHolds, PTL

\* A reply that counts for an environment is written to that environment, or to a
\* stray.
LEMMA ReplyStep ==
  ASSUME SteeringInv, ReadsMeasure, Head(origins) # None,
         client_from_sock[Head(netlink).sock_id] \notin {None, Head(origins)}
  PROVE  Head(netlink).sock_id \in stray
<1> DEFINE s == Head(netlink).sock_id
<1>1. /\ Inv /\ TypeOK /\ HistoryOK /\ netlink \in Seq(Messages) /\ netlink # <<>>
      /\ Head(netlink).type = "MEASURE"
  BY DEF SteeringInv, PathInv, Inv, TypeOK, ReadsMeasure, Reads, NlMeasure, Arrives
<1>2. s \in Sids /\ Head(netlink) = netlink[1] /\ 1 \in DOMAIN netlink
  BY <1>1, HeadMessage
<1>3. Head(origins) = origins[1]
  <2>1. origins \in Seq(Envs \cup {None}) /\ Len(origins) = Len(netlink) /\ Len(netlink) # 0
    BY <1>1 DEF HistoryOK
  <2> QED
    BY <2>1
<1>4. Answers(1, s)
  BY <1>1, <1>2, <1>3 DEF Answers
<1>5. Belongs(s, origins[1])
  BY <1>2, <1>4 DEF SteeringInv, PathInv, AskInv, RepliesOfSid
<1> QED
  BY <1>3, <1>5 DEF Belongs

\* A reply reaches the environment that asked, unless a flow whose connection is gone
\* had part in it.
THEOREM RepliesReachTheirAsker == SteeringSpec => RepliesReachAsker
<1>1. SteeringInv /\ [SteeringNext]_steeringVars =>
        [ReadsMeasure =>
          LET s == Head(netlink).sock_id
          IN  Head(origins) = None \/ client_from_sock[s] \in {None, Head(origins)}
              \/ s \in stray]_steeringVars
  BY ReplyStep
<1> QED
  BY <1>1, SteeringInvHolds, PTL DEF SteeringSpec, RepliesReachAsker

=============================================================================
