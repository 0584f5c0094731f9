------------------------------- MODULE Codec --------------------------------
(***************************************************************************)
(* What a message between the environment and a connection looks like on   *)
(* the wire, byte by byte: written by message.py and msg_sender.py and     *)
(* read by spine_read_msg, written by serialize.c and read by spine.py.    *)
(* One connection, no concurrency (Datapath has that); the machine is      *)
(* little-endian.                                                          *)
(*                                                                         *)
(* A number on the wire is the sequence of its bytes, least significant    *)
(* first: four for a u32, eight for a u64.  The controller uses the sender *)
(* written for the loaded module.  A definition with the suffix Slip is a  *)
(* plausible mistake in the definition after it; no behaviour uses it.     *)
(***************************************************************************)
EXTENDS Naturals, Sequences, Functions

CONSTANTS
    Algs,             \* the modules to load, out of {"vanilla", "scubic", "neo"}
    Values,           \* for each of them u64s the environment may give a parameter
    RequestIds,       \* u32 of the environments
    Measurements,     \* what fetch_measurements may return: u64s, a u8 of them
    ConnSids,         \* the sid of the connection: conn->index, a u16, in a u32
    Ports,            \* dst_port as two bytes in network order
    None,
    MaxSends          \* bound: messages of the environment

U32 == [1 .. 4 -> 0 .. 255]
U64 == [1 .. 8 -> 0 .. 255]

ASSUME AlgsAssumption == Algs \subseteq {"vanilla", "scubic", "neo"}
ASSUME WordsAssumption ==
    /\ \A a \in Algs : Values[a] \subseteq U64
    /\ \A w \in RequestIds \cup ConnSids : w \in U32
    /\ \A sid \in ConnSids : sid[3] = 0 /\ sid[4] = 0
    /\ \A data \in Measurements : data \in Seq(U64) /\ Len(data) \in 1 .. 255
    /\ \A p \in Ports : p \in [1 .. 2 -> 0 .. 255]
ASSUME NoneAssumption == None \notin [sid : ConnSids, port : Ports]

VARIABLES
    alg,
    conn,          \* the connection: sid and dst_port
    known,         \* what the controller read from its CREATE
    to_kernel, to_user,           \* the message under way, or <<>>
    control_registers,            \* staged values by register, None when not pending
    measure_register,             \* staged request id, None when not pending
    in_effect,                    \* parameters set_params stored, None: those of init
    reply,                        \* the last reply to the environment
    sends,
    \* history
    sent,          \* actions of the environment: a value for each name
    asked,         \* its request ids
    fetched        \* measurements taken

sides   == <<alg, conn, known>>
staged  == <<control_registers, measure_register>>
history == <<sent, asked, fetched>>
vars == <<sides, to_kernel, to_user, staged, in_effect, reply, sends, history>>

-----------------------------------------------------------------------------
(* Numbers, names and registers *)

\* A number below 2^16 in n bytes
Bytes(x, n) ==
    [k \in 1 .. n |-> IF k = 1 THEN x % 256 ELSE IF k = 2 THEN (x \div 256) % 256 ELSE 0]

\* Fields of one size, one behind the other
Joined(fields, size) ==
    [k \in 1 .. size * Len(fields) |-> fields[((k - 1) \div size) + 1][((k - 1) % size) + 1]]

NL_CREATE == 0
NL_MEASURE == 1
NL_UPDATE_FIELDS == 3
NL_READY == 5
NL_STATE == 6
NL_PARAM == 7
NL_RELEASE == 9
VOLATILE_CONTROL_REG == 8

\* The parameters of a module, and the orders in which its sender may add them:
\* vanilla_action_keys is a set.
Names(a) ==
    CASE a = "vanilla" -> {"alpha", "beta", "gamma", "delta"}
      [] a = "scubic" -> {"beta", "bic_scale"}
      [] a = "neo" -> {"action"}
FieldOrders(a) ==
    CASE a = "vanilla" -> Bijection(1 .. 4, {"alpha", "beta", "gamma", "delta"})
      [] a = "scubic" -> {<<"beta", "bic_scale">>}
      [] a = "neo" -> {<<"action">>}

\* The register of a parameter in message.py
RegisterSlip(a, name) ==
    [alpha |-> 0, beta |-> IF a = "scubic" THEN 0 ELSE 1, gamma |-> 2, delta |-> 3,
     bic_scale |-> 1, action |-> 0][name]
Register(a, name) ==
    [alpha |-> 0, beta |-> 1, gamma |-> 2, delta |-> 3,
     bic_scale |-> 0, action |-> 0][name]

\* struct SpineMsgHeader and "=HHI" of the controller
Header(type, len, sid) == Bytes(type, 2) \o Bytes(len, 2) \o sid
TypeOf(m) == m[1] + 256 * m[2]
LenOf(m) == m[3] + 256 * m[4]
SidOf(m) == SubSeq(m, 5, 8)
Body(m) == SubSeq(m, 9, Len(m))

-----------------------------------------------------------------------------
(* The controller writes *)

\* UpdateMsg: the number of fields, then 13 bytes for each
Field(a, action, name) ==
    <<VOLATILE_CONTROL_REG>> \o Bytes(Register(a, name), 4) \o action[name]
UpdateBody(a, action, order) ==
    Bytes(Len(order), 4)
        \o Joined([k \in 1 .. Len(order) |-> Field(a, action, order[k])], 13)

MAX_PAYLOAD_LEN == 1024
NL_HEADER_LEN == 16
\* send_msg refuses a message that is too long.
Sent(type, body, sid) ==
    LET m == Header(type, 8 + Len(body), sid) \o body
    IN  IF Len(m) + NL_HEADER_LEN > MAX_PAYLOAD_LEN THEN <<>> ELSE m

-----------------------------------------------------------------------------
(* The kernel reads *)

\* (u32)*buf: one char, which is signed
SignedChar(buf) == [k \in 1 .. 4 |-> IF k = 1 THEN buf[1] ELSE IF buf[1] < 128 THEN 0 ELSE 255]
MAX_MUTABLE_REG == 222
NumUpdates(buf) == IF buf[1] < 128 THEN buf[1] ELSE MAX_MUTABLE_REG + 1

BIGGEST_MSG_SIZE == 32678
\* read_header and the checks of spine_read_msg; bufsize is nlmsg_len.
Accepted(m, bufsize) ==
    /\ TypeOf(m) \in {NL_STATE, NL_PARAM, NL_UPDATE_FIELDS, NL_MEASURE}
    /\ LenOf(m) <= bufsize /\ LenOf(m) <= BIGGEST_MSG_SIZE
    \* spine_connection_lookup takes a u16
    /\ conn # None /\ m[5] = conn.sid[1] /\ m[6] = conn.sid[2]

\* stage_multiple_updates
Staged(buf) ==
    LET updates == {SubSeq(buf, 5 + 13 * (k - 1), 4 + 13 * k) : k \in 1 .. NumUpdates(buf)}
    IN  [r \in 0 .. 3 |->
            IF \E u \in updates : u[1] = VOLATILE_CONTROL_REG /\ u[2] = r
              THEN SubSeq(CHOOSE u \in updates : u[2] = r, 6, 13)
              ELSE control_registers[r]]

\* vanilla_set_params, scubic_set_params and neo_set_params, of consecutive parameters:
\* check_param of vanilla takes a u16, the fields of neo hold what the value stands for.
Low(v) == v[1] + 256 * v[2]
Below1024(v) == Low(v) < 1024 /\ \A k \in 3 .. 8 : v[k] = 0
ParamNum(a) == CASE a = "vanilla" -> 4 [] a = "scubic" -> 2 [] a = "neo" -> 1
Passes(a, v) ==
    CASE a = "vanilla" -> Low(v) \in 1 .. 1024
      [] a = "scubic" -> Below1024(v) /\ Low(v) # 0
      [] a = "neo" -> TRUE
NeoAction(v) == IF Below1024(v) /\ Low(v) \in {1, 2} THEN Low(v) ELSE 0
SetParamsSlip(a, params) ==
    CASE a = "vanilla" -> [alpha |-> Low(params[1]), beta |-> Low(params[2]),
                           gamma |-> 2 * Low(params[4]), delta |-> Low(params[3])]
      [] a = "scubic" -> [bic_scale |-> Low(params[1]), beta |-> Low(params[2])]
      [] a = "neo" -> [action |-> NeoAction(params[1])]
SetParams(a, params) ==
    CASE a = "vanilla" -> [alpha |-> Low(params[1]), beta |-> Low(params[2]),
                           gamma |-> 2 * Low(params[3]), delta |-> Low(params[4])]
      [] a = "scubic" -> [bic_scale |-> Low(params[1]), beta |-> Low(params[2])]
      [] a = "neo" -> [action |-> NeoAction(params[1])]

-----------------------------------------------------------------------------
(* The kernel writes and the controller reads *)

CREATE_MSG_SIZE == 96
REPORT_MSG_SIZE == 900
\* The write functions and serialize_header
Written(type, body, sid, bufsize) ==
    LET m == Header(type, 8 + Len(body), sid) \o body
    IN  IF type \in {NL_CREATE, NL_STATE, NL_MEASURE, NL_READY, NL_RELEASE} /\ Len(m) <= bufsize
          THEN m ELSE <<>>

\* inet_dport, two bytes in network order, in a u32; the other integers and the
\* name of the algorithm, which the controller uses for nothing, are zero.
CreateBody(port) == Bytes(0, 20) \o <<port[1], port[2], 0, 0>> \o Bytes(0, 64)
MeasureBody(program_uid, data) ==
    program_uid \o Bytes(Len(data), 4) \o Joined(data, 8)

\* u32_from_bytes exchanges the bytes of each half.
U32FromBytesSlip(b) == b
U32FromBytes(b) == <<b[2], b[1], b[4], b[3]>>

\* MeasureMsg.from_raw gives up on an incomplete message.
MeasureData(b) ==
    LET n == b[5] + 256 * b[6]
    IN  IF Len(b) < 8 + 8 * n THEN <<>>
        ELSE [k \in 1 .. n |-> SubSeq(b, 8 * k + 1, 8 * k + 8)]

-----------------------------------------------------------------------------

Init ==
    /\ alg \in Algs
    /\ conn = None /\ known = None
    /\ to_kernel = <<>> /\ to_user = <<>>
    /\ control_registers = [r \in 0 .. 3 |-> None]
    /\ measure_register = None
    /\ in_effect = None
    /\ reply = None
    /\ sends = 0
    /\ sent = {} /\ asked = {} /\ fetched = {}

\* A connection is set up and sends CREATE.
ConnectionStart(sid, port) ==
    /\ conn = None
    /\ conn' = [sid |-> sid, port |-> port]
    /\ to_user' = Written(NL_CREATE, CreateBody(port), sid, CREATE_MSG_SIZE)
    /\ UNCHANGED <<alg, known, to_kernel, staged, in_effect, reply, sends, history>>

ReadCreate ==
    /\ to_user # <<>> /\ TypeOf(to_user) = NL_CREATE
    /\ known' = [sock_id |-> SidOf(to_user),
                 dst_port |-> U32FromBytes(SubSeq(Body(to_user), 21, 24))]
    /\ to_user' = <<>>
    /\ UNCHANGED <<alg, conn, to_kernel, staged, in_effect, reply, sends, history>>

\* ALIVE with an action
SendAction(action, order) ==
    /\ known # None /\ to_kernel = <<>> /\ sends < MaxSends
    /\ sends' = sends + 1
    /\ to_kernel' = Sent(NL_UPDATE_FIELDS, UpdateBody(alg, action, order), known.sock_id)
    /\ sent' = sent \cup {action}
    /\ UNCHANGED <<sides, to_user, staged, in_effect, reply, asked, fetched>>

\* MEASURE; send_vanilla_message and send_scubic_message raise when they are called
\* for it.
SendRequest(id) ==
    /\ alg = "neo"
    /\ known # None /\ to_kernel = <<>> /\ sends < MaxSends
    /\ sends' = sends + 1
    /\ to_kernel' = Sent(NL_MEASURE, id, known.sock_id)
    /\ asked' = asked \cup {id}
    /\ UNCHANGED <<sides, to_user, staged, in_effect, reply, sent, fetched>>

\* spine_read_msg
ReadMsg ==
    LET accepted == Accepted(to_kernel, Len(to_kernel) + NL_HEADER_LEN)
        update == accepted /\ TypeOf(to_kernel) = NL_UPDATE_FIELDS
                  /\ NumUpdates(Body(to_kernel)) <= MAX_MUTABLE_REG
        request == accepted /\ TypeOf(to_kernel) = NL_MEASURE
    IN  /\ to_kernel # <<>>
        /\ to_kernel' = <<>>
        /\ control_registers' = IF update THEN Staged(Body(to_kernel)) ELSE control_registers
        /\ measure_register' = IF request THEN SignedChar(Body(to_kernel)) ELSE measure_register
        /\ UNCHANGED <<sides, to_user, in_effect, reply, sends, history>>

\* spine_invoke: the pending registers from 0 on go to set_params, which ignores another
\* number of them than it wants, and all of them if one does not pass; a request is
\* answered; what was staged is cleared.
Invoke(data) ==
    LET n == ParamNum(alg)
        params == [k \in 1 .. n |-> control_registers[k - 1]]
        complete == (\A k \in 1 .. n : params[k] # None)
                    /\ (n < 4 => control_registers[n] = None)
        answers == measure_register # None
    IN  /\ conn # None /\ to_user = <<>>
        /\ in_effect' = IF complete /\ \A k \in 1 .. n : Passes(alg, params[k])
               THEN SetParams(alg, params)
               ELSE in_effect
        /\ to_user' = IF answers
               THEN Written(NL_MEASURE, MeasureBody(measure_register, data), conn.sid,
                            REPORT_MSG_SIZE)
               ELSE <<>>
        /\ fetched' = IF answers THEN fetched \cup {data} ELSE fetched
        /\ control_registers' = [r \in 0 .. 3 |-> None]
        /\ measure_register' = None
        /\ UNCHANGED <<sides, to_kernel, reply, sends, sent, asked>>

ReadMeasure ==
    /\ to_user # <<>> /\ TypeOf(to_user) = NL_MEASURE
    /\ reply' = [sock_id |-> SidOf(to_user), request_id |-> SubSeq(Body(to_user), 1, 4),
                 data |-> MeasureData(Body(to_user))]
    /\ to_user' = <<>>
    /\ UNCHANGED <<sides, to_kernel, staged, in_effect, sends, history>>

Next ==
    \/ \E sid \in ConnSids, port \in Ports : ConnectionStart(sid, port)
    \/ ReadCreate
    \/ \E action \in [Names(alg) -> Values[alg]], order \in FieldOrders(alg) :
          SendAction(action, order)
    \/ \E id \in RequestIds : SendRequest(id)
    \/ ReadMsg
    \/ \E data \in Measurements : Invoke(data)
    \/ ReadMeasure

Spec == Init /\ [][Next]_vars

-----------------------------------------------------------------------------
(* Correctness *)

\* The parameters an action asks for, by their names.  Of a value for vanilla only the
\* low 16 bits count, and gamma is twice its value.
Meant(action) ==
    CASE alg = "vanilla" -> [alpha |-> Low(action.alpha), beta |-> Low(action.beta),
                             gamma |-> 2 * Low(action.gamma), delta |-> Low(action.delta)]
      [] alg = "scubic" -> [beta |-> Low(action.beta), bic_scale |-> Low(action.bic_scale)]
      [] alg = "neo" -> [action |-> NeoAction(action.action)]

\* The parameters in effect are those of one action of the environment, each under the
\* name the environment gave it, and each of them passes the check, although names become
\* register numbers in message.py, positions in set_params and the sender adds the
\* fields in any order.
ParametersReachTheirField ==
    in_effect # None =>
        \E action \in sent :
            /\ in_effect = Meant(action)
            /\ \A name \in Names(alg) : Passes(alg, action[name])

\* The controller looks a connection up under the very port its environment has
\* claimed, and under the kernel's sid, for every port.
PortReadBack ==
    known # None =>
        /\ known.sock_id = conn.sid
        /\ known.dst_port = <<conn.port[2], conn.port[1], 0, 0>>

\* A reply carries the numbers that were measured, in their order, and the id of a
\* request, if that is at most 127; of any other id only the first byte.
MeasurementReadBack ==
    reply # None =>
        /\ reply.sock_id = conn.sid
        /\ reply.data \in fetched
        /\ \E id \in asked :
              /\ reply.request_id[1] = id[1]
              /\ id[1] < 128 /\ id[2] = 0 /\ id[3] = 0 /\ id[4] = 0 => reply.request_id = id

\* What the kernel writes the controller reads back (serialize.c:62-95, 125-178;
\* message.py:69-76, 118-178): who the connection is, and what was measured.
ReadBack == PortReadBack /\ MeasurementReadBack

=============================================================================
