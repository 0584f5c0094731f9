------------------------------ MODULE Datapath ------------------------------
(***************************************************************************)
(* libspine's connection table (src/src/lib/spine.c, spine_priv.c).        *)
(*                                                                         *)
(* Three kinds of actors share the table without a common lock:            *)
(*   - every TCP socket runs spine_connection_start, spine_invoke and      *)
(*     spine_connection_free one after the other, under its own lock;      *)
(*   - the netlink reader runs spine_read_msg in the context of the        *)
(*     controller that sends, and takes no socket lock;                    *)
(*   - the clock lets the throttle of CREATE messages run out.             *)
(* Each action is one step that another actor can observe.  A message the  *)
(* reader refuses (bad header, unknown sid) changes nothing: a stutter.    *)
(*                                                                         *)
(* Register contents are abstracted to the number of the message that      *)
(* carried them; 0 is the value memset leaves behind.                      *)
(*                                                                         *)
(* A definition with the suffix Slip is a plausible mistake in the         *)
(* definition after it; no behaviour uses it.                              *)
(***************************************************************************)
EXTENDS Naturals, Sequences, FiniteSets

CONSTANTS
    Socks,           \* TCP sockets that use the congestion control module
    MaxConnections,  \* datapath->max_connections
    PrivStates,      \* heap objects kcalloc can return for spine_priv_state
    NumRegs,         \* MAX_CONTROL_REG
    NumParams,       \* parameters the CC module takes (VANILLA_PARAM_NUM)
    FieldLists,      \* register lists an UPDATE_FIELDS message may carry
    MaxMsgs,         \* bound: messages the reader accepts in a behaviour
    Null

Slots == 1 .. MaxConnections
Regs  == 1 .. NumRegs
BadType == 0         \* a field whose reg_type is not a control register
Ids   == 1 .. MaxMsgs

ASSUME ConnectionsAssumption == MaxConnections \in Nat \ {0}
ASSUME RegsAssumption ==
    /\ NumRegs \in Nat \ {0}
    /\ NumParams \in Regs
    /\ MaxMsgs \in Nat
    /\ FieldLists \subseteq Seq(Regs \cup {BadType}) \ {<<>>}
\* The controller's messages name a register at most once, and none that
\* stage_update, which does not check the index, would write past the arrays:
\* msg_sender.py adds one field per parameter.
ASSUME FieldsAssumption ==
    \A fields \in FieldLists : \A j, k \in DOMAIN fields :
        fields[j] = fields[k] /\ fields[j] # BadType => j = k
ASSUME NullAssumption == Null \notin Socks /\ Null \notin PrivStates

VARIABLES
    \* struct spine_connection, by sid (array element sid - 1)
    index, impl, state, last_create_msg_sent,
    \* struct spine_priv_state, and whether kcalloc has handed it out
    live, sent_create, pending_update,
    \* a socket's place in the code, its local sid and params, its CC module
    pc, sid, params, ca,
    \* the netlink reader inside spine_read_msg, and the messages it accepted
    reader, msgs,
    \* history: sids announced by CREATE since their last claim, <<register,
    \* value>> pairs given to set_params, MEASURE requests, ids answered
    created, handed, requests, replies

connVars    == <<index, impl, state, last_create_msg_sent>>
privVars    == <<live, sent_create, pending_update>>
sockVars    == <<pc, sid, params, ca>>
readerVars  == <<reader, msgs, requests>>
historyVars == <<created, handed, replies>>
vars == <<connVars, privVars, sockVars, readerVars, historyVars>>

NoUpdate ==
    [control_is_pending |-> [r \in Regs |-> FALSE],
     control_registers  |-> [r \in Regs |-> 0],
     measure_is_pending |-> FALSE,
     measure_registers  |-> 0]

StagedUpdates ==
    [control_is_pending : [Regs -> BOOLEAN],
     control_registers  : [Regs -> 0 .. MaxMsgs],
     measure_is_pending : BOOLEAN,
     measure_registers  : 0 .. MaxMsgs]

Idle == [pc |-> "idle", priv |-> Null, todo |-> <<>>, id |-> 0]

\* Sockets that own a slot: from the CAS that claims it to the reset of index.
Owning == {"claimed", "inited", "open", "read", "measure",
           "clear_flags", "clear_regs", "freed", "released"}
\* ... and among them those whose conn->state is theirs to use.
Using  == Owning \ {"claimed", "freed", "released"}
PCs    == Owning \cup {"closed", "scan", "noconn"}

Init ==
    /\ index = [i \in Slots |-> 0]
    /\ impl  = [i \in Slots |-> Null]
    /\ state = [i \in Slots |-> Null]
    /\ last_create_msg_sent = [i \in Slots |-> "never"]
    /\ live = [o \in PrivStates |-> FALSE]
    /\ sent_create = [o \in PrivStates |-> FALSE]
    /\ pending_update = [o \in PrivStates |-> NoUpdate]
    /\ pc = [s \in Socks |-> "closed"]
    /\ sid = [s \in Socks |-> 0]
    /\ params = [s \in Socks |-> <<>>]
    /\ ca = [s \in Socks |-> <<>>]
    /\ reader = Idle
    /\ msgs = 0
    /\ created = {}
    /\ handed = {}
    /\ requests = 0
    /\ replies = <<>>

Goto(s, from, to) == pc[s] = from /\ pc' = [pc EXCEPT ![s] = to]

\* The private state a socket that owns a slot finds in conn->state.
Priv(s) == state[sid[s]]

-----------------------------------------------------------------------------
(* spine_connection_start *)

\* The CC module's init resets its parameters and starts the scan.
ConnectionStart(s) ==
    /\ Goto(s, "closed", "scan")
    /\ sid' = [sid EXCEPT ![s] = 0]
    /\ ca' = [ca EXCEPT ![s] = <<>>]
    /\ UNCHANGED <<params, connVars, privVars, readerVars, historyVars>>

\* CAS(&conn->index, 0, sid + 1)
CASTakesSlip(i) == TRUE
CASTakes(i) == index[i] = 0
NewIndexSlip(i) == i + 1
NewIndex(i) == i

\* One CAS of the scan.  After it sid has been incremented on both paths, and
\* sid >= max_connections returns NULL even when this CAS took the last slot.
ScanSlot(s) ==
    LET i == sid[s] + 1
        won == CASTakes(i)
    IN  /\ pc[s] = "scan"
        /\ index' = IF won THEN [index EXCEPT ![i] = NewIndex(i)] ELSE index
        /\ created' = IF won THEN created \ {i} ELSE created
        /\ pc' = [pc EXCEPT ![s] = IF i >= MaxConnections THEN "noconn"
                                   ELSE IF won THEN "claimed" ELSE "scan"]
        /\ sid' = [sid EXCEPT ![s] = IF i >= MaxConnections THEN 0 ELSE i]
        /\ UNCHANGED <<impl, state, last_create_msg_sent, privVars, params, ca,
                       readerVars, handed, replies>>

\* sent_create in the memory kcalloc returns
ZeroedSlip(o) == sent_create[o]
Zeroed(o) == FALSE

\* conn->impl is set and kcalloc returns zeroed memory.
InitPrivState(s, o) ==
    /\ Goto(s, "claimed", "inited")
    /\ ~live[o]
    /\ impl' = [impl EXCEPT ![sid[s]] = s]
    /\ state' = [state EXCEPT ![sid[s]] = o]
    /\ live' = [live EXCEPT ![o] = TRUE]
    /\ sent_create' = [sent_create EXCEPT ![o] = Zeroed(o)]
    /\ pending_update' = [pending_update EXCEPT ![o] = NoUpdate]
    /\ UNCHANGED <<index, last_create_msg_sent, sid, params, ca, readerVars,
                   historyVars>>

\* kcalloc fails: start returns NULL and leaves index as the CAS set it.
InitPrivStateFails(s) ==
    /\ Goto(s, "claimed", "noconn")
    /\ impl' = [impl EXCEPT ![sid[s]] = s]
    /\ state' = [state EXCEPT ![sid[s]] = Null]
    /\ sid' = [sid EXCEPT ![s] = 0]
    /\ UNCHANGED <<index, last_create_msg_sent, privVars, params, ca,
                   readerVars, historyVars>>

\* last_create_msg_sent != 0 and less than CREATE_TIMEOUT_US ago
ThrottledSlip(i) == last_create_msg_sent[i] # "never"
Throttled(i) == last_create_msg_sent[i] = "recent"

\* send_conn_create: nothing within CREATE_TIMEOUT_US of the slot's last
\* attempt; otherwise the time is taken before the send, which may fail.
SendConnCreate(s, ok) ==
    LET i == sid[s]
        sent == ok /\ ~Throttled(i)
    IN  /\ last_create_msg_sent' = [last_create_msg_sent EXCEPT ![i] = "recent"]
        /\ sent_create' = [sent_create EXCEPT ![state[i]] = @ \/ sent]
        /\ created' = IF sent THEN created \cup {i} ELSE created

StartCreate(s, ok) ==
    /\ Goto(s, "inited", "open")
    /\ SendConnCreate(s, ok)
    /\ UNCHANGED <<index, impl, state, live, pending_update, sid, params, ca,
                   readerVars, handed, replies>>

-----------------------------------------------------------------------------
(* spine_invoke, called for every ACK the CC module handles *)

\* Without an accepted CREATE, invoke only tries to send it again.
InvokeRetry(s, ok) ==
    /\ pc[s] = "open"
    /\ ~sent_create[Priv(s)]
    /\ SendConnCreate(s, ok)
    /\ UNCHANGED <<index, impl, state, live, pending_update, sockVars,
                   readerVars, handed, replies>>

InvokeBegin(s) ==
    /\ Goto(s, "open", "read")
    /\ sent_create[Priv(s)]
    /\ params' = [params EXCEPT ![s] = <<>>]
    /\ UNCHANGED <<sid, ca, connVars, privVars, readerVars, historyVars>>

\* The loop over control registers stops at the first that is not pending.
NextReg(s) == Len(params[s]) + 1
NextIsPending(s) ==
    /\ NextReg(s) \in Regs
    /\ pending_update[Priv(s)].control_is_pending[NextReg(s)]

InvokeRead(s) ==
    /\ pc[s] = "read"
    /\ NextIsPending(s)
    /\ params' = [params EXCEPT ![s] =
           Append(@, pending_update[Priv(s)].control_registers[NextReg(s)])]
    /\ UNCHANGED <<pc, sid, ca, connVars, privVars, readerVars, historyVars>>

\* set_params: the CC module takes exactly NumParams values, none of them 0.
Accepted(p) == Len(p) = NumParams /\ \A k \in DOMAIN p : p[k] # 0

InvokeSet(s) ==
    /\ Goto(s, "read", "measure")
    /\ ~NextIsPending(s)
    /\ ca' = IF Accepted(params[s]) THEN [ca EXCEPT ![s] = params[s]] ELSE ca
    /\ handed' = handed \cup {<<r, params[s][r]>> : r \in DOMAIN params[s]}
    /\ UNCHANGED <<sid, params, connVars, privVars, readerVars, created, replies>>

\* After the reply invoke clears the request's flag and goes on to the memset.
AfterReplySlip(replied) == IF replied THEN [pc |-> "open", pending |-> TRUE]
                           ELSE [pc |-> "clear_flags", pending |-> FALSE]
AfterReply(replied) == [pc |-> "clear_flags", pending |-> FALSE]

\* A pending request is answered; there may be nothing to fetch, and the send
\* may fail: then the request is dropped without an answer.
InvokeMeasure(s, ok) ==
    LET u == pending_update[Priv(s)]
        replied == u.measure_is_pending /\ ok
        after == AfterReply(replied)
    IN  /\ Goto(s, "measure", after.pc)
        /\ replies' = IF replied THEN Append(replies, u.measure_registers) ELSE replies
        /\ pending_update' =
               [pending_update EXCEPT ![Priv(s)].measure_is_pending = after.pending]
        /\ params' = [params EXCEPT ![s] = <<>>]
        /\ UNCHANGED <<sid, ca, connVars, live, sent_create, readerVars,
                       created, handed>>

\* memset of pending_update, which the reader may see half done.
InvokeClearFlags(s) ==
    /\ Goto(s, "clear_flags", "clear_regs")
    /\ pending_update' = [pending_update EXCEPT ![Priv(s)].control_is_pending =
                              NoUpdate.control_is_pending]
    /\ UNCHANGED <<sid, params, ca, connVars, live, sent_create, readerVars,
                   historyVars>>

ClearedRegistersSlip(u) == u.control_registers
ClearedRegisters(u) == NoUpdate.control_registers

InvokeClearRegs(s) ==
    /\ Goto(s, "clear_regs", "open")
    /\ LET u == pending_update[Priv(s)]
       IN  pending_update' = [pending_update EXCEPT ![Priv(s)] =
               [NoUpdate EXCEPT !.control_is_pending = u.control_is_pending,
                                !.control_registers = ClearedRegisters(u)]]
    /\ UNCHANGED <<sid, params, ca, connVars, live, sent_create, readerVars,
                   historyVars>>

-----------------------------------------------------------------------------
(* spine_connection_free *)

\* Whether the memory is still allocated after free_spine_priv_state
FreedSlip(o) == live[o]
Freed(o) == FALSE

\* The private state is freed first; conn->state keeps pointing to it.
ReleaseFree(s) ==
    /\ Goto(s, "open", "freed")
    /\ live' = [live EXCEPT ![Priv(s)] = Freed(Priv(s))]
    /\ UNCHANGED <<sid, params, ca, connVars, sent_create, pending_update,
                   readerVars, historyVars>>

\* The RELEASE message goes out; a failure to send it is ignored.
ReleaseSend(s) ==
    /\ Goto(s, "freed", "released")
    /\ UNCHANGED <<sid, params, ca, connVars, privVars, readerVars, historyVars>>

IndexAfterReleaseSlip(i) == index[i]
IndexAfterRelease(i) == 0

\* index = 0 offers the slot to the next scan.
ReleaseIndex(s) ==
    /\ Goto(s, "released", "closed")
    /\ index' = [index EXCEPT ![sid[s]] = IndexAfterRelease(sid[s])]
    /\ sid' = [sid EXCEPT ![s] = 0]
    /\ UNCHANGED <<impl, state, last_create_msg_sent, params, ca, privVars,
                   readerVars, historyVars>>

\* The CC module's release finds ca->conn == NULL.
ReleaseNoConn(s) ==
    /\ Goto(s, "noconn", "closed")
    /\ UNCHANGED <<sid, params, ca, connVars, privVars, readerVars, historyVars>>

-----------------------------------------------------------------------------
(* spine_read_msg *)

\* Header accepted and spine_connection_lookup succeeds: the reader keeps the
\* conn->state it saw for the rest of the message.
Lookup(i, first, todo) ==
    /\ reader = Idle
    /\ msgs < MaxMsgs
    /\ index[i] = i
    /\ msgs' = msgs + 1
    /\ reader' = [pc |-> first, priv |-> state[i], todo |-> todo, id |-> msgs + 1]

ReadUpdate(i, fields) ==
    /\ Lookup(i, "value", fields)
    /\ UNCHANGED <<requests, connVars, privVars, sockVars, historyVars>>

ReadMeasure(i) ==
    /\ Lookup(i, "measure_flag", <<>>)
    /\ requests' = requests + 1
    /\ UNCHANGED <<connVars, privVars, sockVars, historyVars>>

\* A store through the pointer the reader holds, wherever it points by now.
Staged == pending_update[reader.priv]
Store(update) ==
    pending_update' = IF reader.priv = Null THEN pending_update
                      ELSE [pending_update EXCEPT ![reader.priv] = update]

\* stage_update writes the register, then its pending flag; a register type
\* that is no control register ends the message with the rest not staged.
StageBadType ==
    /\ reader.pc = "value" /\ Head(reader.todo) = BadType
    /\ reader' = Idle
    /\ UNCHANGED <<msgs, requests, connVars, privVars, sockVars, historyVars>>

StageValue ==
    /\ reader.pc = "value" /\ Head(reader.todo) # BadType
    /\ Store([Staged EXCEPT !.control_registers[Head(reader.todo)] = reader.id])
    /\ reader' = [reader EXCEPT !.pc = "flag"]
    /\ UNCHANGED <<msgs, requests, connVars, live, sent_create, sockVars,
                   historyVars>>

LastField == Len(reader.todo) = 1

StageFlag ==
    /\ reader.pc = "flag"
    /\ Store([Staged EXCEPT !.control_is_pending[Head(reader.todo)] = TRUE])
    /\ reader' = IF LastField THEN Idle
                 ELSE [reader EXCEPT !.pc = "value", !.todo = Tail(@)]
    /\ UNCHANGED <<msgs, requests, connVars, live, sent_create, sockVars,
                   historyVars>>

\* stage_measure_request raises the flag before it writes the request id.
StageMeasureFlag ==
    /\ reader.pc = "measure_flag"
    /\ Store([Staged EXCEPT !.measure_is_pending = TRUE])
    /\ reader' = [reader EXCEPT !.pc = "measure_id"]
    /\ UNCHANGED <<msgs, requests, connVars, live, sent_create, sockVars,
                   historyVars>>

StageMeasureId ==
    /\ reader.pc = "measure_id"
    /\ Store([Staged EXCEPT !.measure_registers = reader.id])
    /\ reader' = Idle
    /\ UNCHANGED <<msgs, requests, connVars, live, sent_create, sockVars,
                   historyVars>>

-----------------------------------------------------------------------------
\* CREATE_TIMEOUT_US has passed since the last CREATE attempt on slot i.
CreateTimeout(i) ==
    /\ last_create_msg_sent[i] = "recent"
    /\ last_create_msg_sent' = [last_create_msg_sent EXCEPT ![i] = "old"]
    /\ UNCHANGED <<index, impl, state, privVars, sockVars, readerVars, historyVars>>

Start(s) ==
    \/ ConnectionStart(s)
    \/ ScanSlot(s)
    \/ \E o \in PrivStates : InitPrivState(s, o)
    \/ InitPrivStateFails(s)
    \/ \E ok \in BOOLEAN : StartCreate(s, ok)

Invoke(s) ==
    \/ \E ok \in BOOLEAN : InvokeRetry(s, ok)
    \/ InvokeBegin(s)
    \/ InvokeRead(s)
    \/ InvokeSet(s)
    \/ \E ok \in BOOLEAN : InvokeMeasure(s, ok)
    \/ InvokeClearFlags(s)
    \/ InvokeClearRegs(s)

Free(s) ==
    \/ ReleaseFree(s)
    \/ ReleaseSend(s)
    \/ ReleaseIndex(s)
    \/ ReleaseNoConn(s)

ReadMsg ==
    \/ \E i \in Slots, fields \in FieldLists : ReadUpdate(i, fields)
    \/ \E i \in Slots : ReadMeasure(i)
    \/ StageBadType
    \/ StageValue
    \/ StageFlag
    \/ StageMeasureFlag
    \/ StageMeasureId

Next ==
    \/ \E s \in Socks : Start(s) \/ Invoke(s) \/ Free(s)
    \/ ReadMsg
    \/ \E i \in Slots : CreateTimeout(i)

Spec == Init /\ [][Next]_vars

\* A start that has its private state goes on to its CREATE, and the clock goes on.
\* Nothing makes a socket start or close, an ACK arrive, a send succeed or the
\* controller send.
Fairness ==
    /\ \A s \in Socks : WF_vars(\E ok \in BOOLEAN : StartCreate(s, ok))
    /\ \A i \in Slots : WF_vars(CreateTimeout(i))

FairSpec == Spec /\ Fairness

-----------------------------------------------------------------------------
(* Correctness *)

ConnTypeOK ==
    /\ index \in [Slots -> 0 .. MaxConnections]
    /\ \A i \in Slots : index[i] \in {0, i}
    /\ impl \in [Slots -> Socks \cup {Null}]
    /\ state \in [Slots -> PrivStates \cup {Null}]
    /\ last_create_msg_sent \in [Slots -> {"never", "recent", "old"}]

PrivTypeOK ==
    /\ live \in [PrivStates -> BOOLEAN]
    /\ sent_create \in [PrivStates -> BOOLEAN]
    /\ pending_update \in [PrivStates -> StagedUpdates]

SockTypeOK ==
    /\ pc \in [Socks -> PCs]
    /\ sid \in [Socks -> 0 .. MaxConnections]
    /\ \A s \in Socks : pc[s] = "scan" => sid[s] < MaxConnections
    /\ params \in [Socks -> Seq(0 .. MaxMsgs)]
    /\ \A s \in Socks : Len(params[s]) <= NumRegs
    /\ ca \in [Socks -> Seq(0 .. MaxMsgs)]

ReaderTypeOK ==
    /\ reader \in [pc : {"idle", "value", "flag", "measure_flag", "measure_id"},
                   priv : PrivStates \cup {Null},
                   todo : Seq(Regs \cup {BadType}),
                   id : 0 .. MaxMsgs]
    /\ reader.pc \in {"value", "flag"} => reader.todo # <<>>
    /\ reader.pc = "flag" => Head(reader.todo) \in Regs
    /\ msgs \in 0 .. MaxMsgs
    /\ requests \in 0 .. msgs

HistoryTypeOK ==
    /\ created \subseteq Slots
    /\ handed \subseteq Regs \X (0 .. MaxMsgs)
    /\ replies \in Seq(0 .. MaxMsgs)

TypeOK ==
    /\ ConnTypeOK
    /\ PrivTypeOK
    /\ SockTypeOK
    /\ ReaderTypeOK
    /\ HistoryTypeOK

\* However the CAS scans of several sockets and the releases interleave, no
\* slot is held by two sockets, a holder finds its own sid in conn->index
\* (so its release passes the check of spine_connection_free) and set_params
\* finds the holder behind conn->impl.
SlotOwnership ==
    /\ \A s \in Socks : pc[s] \in Owning =>
          sid[s] \in Slots /\ index[sid[s]] = sid[s]
    /\ \A s, t \in Socks : s # t /\ pc[s] \in Owning /\ pc[t] \in Owning =>
          sid[s] # sid[t]
    /\ \A s \in Socks : pc[s] \in Owning \ {"claimed"} => impl[sid[s]] = s

\* A socket never works on a private state that has been freed or that
\* another connection uses, and what kcalloc handed out is always reachable
\* from a socket that will free it: no use after free, double free or leak
\* on the socket's side, whatever pointer the reader still holds.
PrivStateOwnership ==
    /\ \A s \in Socks : pc[s] \in Using => Priv(s) # Null /\ live[Priv(s)]
    /\ \A s, t \in Socks : s # t /\ pc[s] \in Using /\ pc[t] \in Using =>
          Priv(s) # Priv(t)
    /\ \A o \in PrivStates : live[o] =>
          \E s \in Socks : pc[s] \in Using /\ Priv(s) = o

HasOwner(i) == \E s \in Socks : pc[s] \in Owning /\ sid[s] = i

\* kcalloc failed after slot i was claimed
PrivStateFailed(i) == impl[i] # Null /\ state[i] = Null

\* The slots in use without an owner are the last one, which start claims
\* and then refuses, and those whose private state could not be allocated.
\* A connection that was started is never left behind in the table.
OnlyFailedStartsLoseSlots ==
    \A i \in Slots : index[i] # 0 /\ ~HasOwner(i) =>
        i = MaxConnections \/ PrivStateFailed(i)

\* A connection's parameters change, and it answers a measurement request,
\* only after the controller was sent its CREATE: what an earlier user of the
\* slot or of the memory left behind never takes the place of the handshake.
ControlAfterCreate ==
    [][\A s \in Socks :
          \/ ca'[s] # ca[s] /\ ca'[s] # <<>>
          \/ pc[s] = "measure" /\ pc'[s] # "measure" /\ replies' # replies
          => sid[s] \in created]_vars

\* A staged value is given to set_params at most once, also when the reader
\* stages while invoke reads the registers or while memset clears them.
HandedOverOnce ==
    [][\A s \in Socks : pc[s] = "read" /\ pc'[s] = "measure" =>
          \A r \in DOMAIN params[s] :
              params[s][r] # 0 => <<r, params[s][r]>> \notin handed]_vars

\* At most one reply per MEASURE request, and none repeats a request id.
RepliedOnce ==
    /\ Len(replies) <= requests
    /\ \A j, k \in DOMAIN replies :
          replies[j] = replies[k] /\ replies[j] # 0 => j = k

\* Of the attempts the throttle lets through, not every one fails: ACKs that reach
\* spine_invoke keep arriving and the controller listens.  A vanilla flow in its
\* first slow start does not reach it (tcp_vanilla.c:310-314).
RetriesGetThrough(s) == SF_vars(InvokeRetry(s, TRUE))

\* A connection that keeps retrying announces itself in the end or closes, although
\* its first CREATE may fail or be throttled by one of the slot's previous user, and
\* every attempt, failed ones too, starts the throttle again for the next.
CreateIsSent ==
    \A s \in Socks : RetriesGetThrough(s) =>
        (pc[s] \in {"inited", "open"}
            ~> \/ pc[s] \in Using /\ sent_create[Priv(s)]
               \/ pc[s] \in {"freed", "released", "closed"})

=============================================================================
