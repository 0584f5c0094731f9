--------------------------- MODULE DatapathProofs ---------------------------
(***************************************************************************)
(* Datapath for every number of sockets, slots, registers and messages:    *)
(* type correctness, ownership and loss of slots, that it implements       *)
(* SlotTable, and what it promises the controller: control and answers     *)
(* only after the handshake, every staged value handed over at most once,  *)
(* every measurement request answered at most once.                        *)
(***************************************************************************)
EXTENDS DatapathRefinement, SequenceTheorems, FiniteSetTheorems, TLAPS

USE DEF Slots, Regs, BadType

\* Each part of TypeOK holds initially.
LEMMA InitTypeOK == Init => TypeOK
  BY ConnectionsAssumption, RegsAssumption, NullAssumption
     DEF Init, TypeOK, ConnTypeOK, PrivTypeOK, SockTypeOK, ReaderTypeOK,
         HistoryTypeOK, StagedUpdates, NoUpdate, Idle, PCs, Owning

\* Connection table: every step keeps index, impl, state and the time of the
\* last CREATE in range.
LEMMA ConnTypeStep ==
  ASSUME TypeOK, [Next]_vars
  PROVE  ConnTypeOK'
<1> USE ConnectionsAssumption DEF ConnTypeOK
<1> ConnTypeOK /\ SockTypeOK
  BY DEF TypeOK
<1>1. ASSUME NEW s \in Socks, ScanSlot(s)
      PROVE  ConnTypeOK'
  BY <1>1 DEF ScanSlot, CASTakes, NewIndex, SockTypeOK
<1>2. ASSUME NEW s \in Socks, NEW o \in PrivStates, InitPrivState(s, o)
      PROVE  ConnTypeOK'
  BY <1>2 DEF InitPrivState
<1>3. ASSUME NEW s \in Socks, InitPrivStateFails(s)
      PROVE  ConnTypeOK'
  BY <1>3 DEF InitPrivStateFails
<1>4. ASSUME NEW s \in Socks, NEW ok \in BOOLEAN, StartCreate(s, ok) \/ InvokeRetry(s, ok)
      PROVE  ConnTypeOK'
  BY <1>4 DEF StartCreate, InvokeRetry, SendConnCreate
<1>5. ASSUME NEW s \in Socks, ReleaseIndex(s)
      PROVE  ConnTypeOK'
  <2>1. index' = [index EXCEPT ![sid[s]] = 0]
    BY <1>5 DEF ReleaseIndex, IndexAfterRelease
  <2>2. UNCHANGED <<impl, state, last_create_msg_sent>>
    BY <1>5 DEF ReleaseIndex
  <2>3. 0 \in 0 .. MaxConnections
    OBVIOUS
  <2> QED
    BY <2>1, <2>2, <2>3
<1>6. ASSUME NEW i \in Slots, CreateTimeout(i)
      PROVE  ConnTypeOK'
  BY <1>6 DEF CreateTimeout
<1>7. CASE UNCHANGED connVars
  BY <1>7 DEF connVars
<1> QED
  BY <1>1, <1>2, <1>3, <1>4, <1>5, <1>6, <1>7
     DEF Next, Start, Invoke, Free, ReadMsg, vars, ConnectionStart, InvokeBegin,
         InvokeRead, InvokeSet, InvokeMeasure, InvokeClearFlags, InvokeClearRegs,
         ReleaseFree, ReleaseSend, ReleaseNoConn, ReadUpdate, ReadMeasure,
         StageBadType, StageValue, StageFlag, StageMeasureFlag, StageMeasureId

\* What a socket in possession of its connection finds through its sid.
LEMMA UsingPriv ==
  ASSUME TypeOK, SlotOwnership, PrivStateOwnership,
         NEW s \in Socks, pc[s] \in Using
  PROVE  sid[s] \in Slots /\ Priv(s) \in PrivStates /\ live[Priv(s)]
  BY DEF TypeOK, ConnTypeOK, SlotOwnership, PrivStateOwnership, Priv, Using

\* The staged update a store of the reader or of invoke works on is well typed.
LEMMA StagedType ==
  ASSUME PrivTypeOK, NEW o \in PrivStates
  PROVE  /\ pending_update[o] \in StagedUpdates
         /\ \A r \in Regs : pending_update[o].control_registers[r] \in 0 .. MaxMsgs
  BY DEF PrivTypeOK, StagedUpdates

\* What the memset of spine_invoke leaves is a staged update.
LEMMA NoUpdateType == NoUpdate \in StagedUpdates
  BY RegsAssumption DEF NoUpdate, StagedUpdates

\* Private states: whoever writes to one, it stays a staged update.
LEMMA PrivTypeStep ==
  ASSUME TypeOK, SlotOwnership, PrivStateOwnership, [Next]_vars
  PROVE  PrivTypeOK'
<1> PrivTypeOK /\ ReaderTypeOK
  BY DEF TypeOK
<1> DEFINE Typed(p) == p \in [PrivStates -> StagedUpdates]
<1>0. Typed(pending_update) /\ live \in [PrivStates -> BOOLEAN]
      /\ sent_create \in [PrivStates -> BOOLEAN]
  BY DEF PrivTypeOK
<1>1. ASSUME NEW s \in Socks, NEW o \in PrivStates, InitPrivState(s, o)
      PROVE  PrivTypeOK'
  BY <1>1, <1>0, NoUpdateType DEF InitPrivState, Zeroed, PrivTypeOK
<1>2. ASSUME NEW s \in Socks, NEW ok \in BOOLEAN, StartCreate(s, ok) \/ InvokeRetry(s, ok)
      PROVE  PrivTypeOK'
  BY <1>2, <1>0 DEF StartCreate, InvokeRetry, SendConnCreate, PrivTypeOK
<1>3. ASSUME NEW s \in Socks, NEW ok \in BOOLEAN, InvokeMeasure(s, ok)
      PROVE  PrivTypeOK'
  <2>1. pending_update' = [pending_update EXCEPT ![Priv(s)].measure_is_pending = FALSE]
    BY <1>3 DEF InvokeMeasure, AfterReply
  <2>2. Typed(pending_update')
    BY <2>1, <1>0 DEF StagedUpdates
  <2> QED
    BY <2>2, <1>0, <1>3 DEF InvokeMeasure, PrivTypeOK
<1>4. ASSUME NEW s \in Socks, InvokeClearFlags(s)
      PROVE  PrivTypeOK'
  <2>1. pending_update' = [pending_update EXCEPT ![Priv(s)].control_is_pending =
                               [r \in Regs |-> FALSE]]
    BY <1>4 DEF InvokeClearFlags, NoUpdate
  <2>2. Typed(pending_update')
    BY <2>1, <1>0 DEF StagedUpdates
  <2> QED
    BY <2>2, <1>0, <1>4 DEF InvokeClearFlags, PrivTypeOK
<1>5. ASSUME NEW s \in Socks, InvokeClearRegs(s)
      PROVE  PrivTypeOK'
  <2>1. Priv(s) \in PrivStates
    BY <1>5, UsingPriv DEF InvokeClearRegs, Goto, Using, Owning
  <2> DEFINE u == pending_update[Priv(s)]
             new == [NoUpdate EXCEPT !.control_is_pending = u.control_is_pending,
                                     !.control_registers = NoUpdate.control_registers]
  <2>2. new \in StagedUpdates
    BY <2>1, <1>0, NoUpdateType DEF StagedUpdates
  <2>3. pending_update' = [pending_update EXCEPT ![Priv(s)] = new]
    BY <1>5 DEF InvokeClearRegs, ClearedRegisters
  <2>4. Typed(pending_update')
    BY <2>2, <2>3, <1>0
  <2> QED
    BY <2>4, <1>0, <1>5 DEF InvokeClearRegs, PrivTypeOK
<1>6. ASSUME NEW s \in Socks, ReleaseFree(s)
      PROVE  PrivTypeOK'
  BY <1>6, <1>0 DEF ReleaseFree, Freed, PrivTypeOK
<1>7. ASSUME StageValue \/ StageFlag \/ StageMeasureFlag \/ StageMeasureId
      PROVE  PrivTypeOK'
  <2>0. reader.priv \in PrivStates \cup {Null} /\ reader.id \in 0 .. MaxMsgs
        /\ Staged = pending_update[reader.priv]
    BY DEF ReaderTypeOK, Staged
  <2>1. CASE reader.priv = Null
    BY <1>7, <2>1, <1>0 DEF StageValue, StageFlag, StageMeasureFlag, StageMeasureId,
       Store, PrivTypeOK
  <2>2. ASSUME reader.priv \in PrivStates, NEW u \in StagedUpdates, Store(u)
        PROVE  Typed(pending_update')
    BY <2>2, <1>0 DEF Store
  <2>3. CASE reader.priv \in PrivStates
    <3>1. Staged \in StagedUpdates
      BY <2>0, <2>3, <1>0
    <3>2. /\ [Staged EXCEPT !.control_registers[Head(reader.todo)] = reader.id] \in StagedUpdates
          /\ [Staged EXCEPT !.control_is_pending[Head(reader.todo)] = TRUE] \in StagedUpdates
          /\ [Staged EXCEPT !.measure_is_pending = TRUE] \in StagedUpdates
          /\ [Staged EXCEPT !.measure_registers = reader.id] \in StagedUpdates
      BY <3>1, <2>0 DEF StagedUpdates
    <3>3. Typed(pending_update')
      BY <1>7, <2>2, <2>3, <3>2 DEF StageValue, StageFlag, StageMeasureFlag, StageMeasureId
    <3> QED
      BY <3>3, <1>0, <1>7 DEF StageValue, StageFlag, StageMeasureFlag, StageMeasureId, PrivTypeOK
  <2> QED
    BY <2>0, <2>1, <2>3
<1>8. CASE UNCHANGED privVars
  BY <1>8, <1>0 DEF privVars, PrivTypeOK
<1> QED
  BY <1>1, <1>2, <1>3, <1>4, <1>5, <1>6, <1>7, <1>8
     DEF Next, Start, Invoke, Free, ReadMsg, vars, ConnectionStart, ScanSlot,
         InitPrivStateFails, InvokeBegin, InvokeRead, InvokeSet, ReleaseSend,
         ReleaseIndex, ReleaseNoConn, ReadUpdate, ReadMeasure, StageBadType,
         CreateTimeout

\* Sockets: sids stay in range while the scan moves on, and the parameters
\* invoke collects never outgrow the registers.
LEMMA SockTypeStep ==
  ASSUME TypeOK, SlotOwnership, PrivStateOwnership, [Next]_vars
  PROVE  SockTypeOK'
<1> USE ConnectionsAssumption, RegsAssumption
<1> SockTypeOK
  BY DEF TypeOK
<1>0. /\ pc \in [Socks -> PCs]
      /\ sid \in [Socks -> 0 .. MaxConnections]
      /\ \A s \in Socks : pc[s] = "scan" => sid[s] < MaxConnections
      /\ params \in [Socks -> Seq(0 .. MaxMsgs)]
      /\ \A s \in Socks : Len(params[s]) <= NumRegs
      /\ ca \in [Socks -> Seq(0 .. MaxMsgs)]
  BY DEF SockTypeOK
<1>1. ASSUME NEW s \in Socks, ConnectionStart(s)
      PROVE  SockTypeOK'
  BY <1>1, <1>0 DEF ConnectionStart, Goto, SockTypeOK, PCs, Owning
<1>2. ASSUME NEW s \in Socks, ScanSlot(s)
      PROVE  SockTypeOK'
  <2>1. sid[s] + 1 \in 1 .. MaxConnections /\ 0 \in 0 .. MaxConnections
    BY <1>2, <1>0 DEF ScanSlot
  <2>2. /\ pc' \in [Socks -> PCs]
        /\ sid' \in [Socks -> 0 .. MaxConnections]
        /\ \A q \in Socks : pc'[q] = "scan" => sid'[q] < MaxConnections
    BY <1>2, <2>1, <1>0 DEF ScanSlot, PCs, Owning
  <2> QED
    BY <1>2, <2>2, <1>0 DEF ScanSlot, SockTypeOK
<1>3. ASSUME NEW s \in Socks, NEW o \in PrivStates, InitPrivState(s, o)
      PROVE  SockTypeOK'
  BY <1>3, <1>0 DEF InitPrivState, Goto, SockTypeOK, PCs, Owning
<1>4. ASSUME NEW s \in Socks, InitPrivStateFails(s)
      PROVE  SockTypeOK'
  BY <1>4, <1>0 DEF InitPrivStateFails, Goto, SockTypeOK, PCs, Owning
<1>5. ASSUME NEW s \in Socks, NEW ok \in BOOLEAN, StartCreate(s, ok)
      PROVE  SockTypeOK'
  BY <1>5, <1>0 DEF StartCreate, Goto, SockTypeOK, PCs, Owning
<1>6. ASSUME NEW s \in Socks, InvokeBegin(s)
      PROVE  SockTypeOK'
  <2>1. <<>> \in Seq(0 .. MaxMsgs) /\ Len(<<>>) = 0
    OBVIOUS
  <2> QED
    BY <1>6, <1>0, <2>1 DEF InvokeBegin, Goto, SockTypeOK, PCs, Owning
<1>7. ASSUME NEW s \in Socks, InvokeRead(s)
      PROVE  SockTypeOK'
  <2> DEFINE v == pending_update[Priv(s)].control_registers[NextReg(s)]
  <2>1. Priv(s) \in PrivStates
    BY <1>7, UsingPriv DEF InvokeRead, Using, Owning
  <2>2. NextReg(s) \in Regs /\ Len(params[s]) + 1 <= NumRegs
    BY <1>7, <1>0 DEF InvokeRead, NextIsPending, NextReg
  <2>3. v \in 0 .. MaxMsgs
    BY <2>1, <2>2, StagedType DEF TypeOK
  <2> HIDE DEF v
  <2>4. params' = [params EXCEPT ![s] = Append(@, v)] /\ UNCHANGED <<pc, sid, ca>>
    BY <1>7 DEF InvokeRead, v
  <2>5. Append(params[s], v) \in Seq(0 .. MaxMsgs)
        /\ Len(Append(params[s], v)) <= NumRegs
    BY <2>2, <2>3, <1>0
  <2> QED
    BY <2>4, <2>5, <1>0 DEF SockTypeOK
<1>8. ASSUME NEW s \in Socks, InvokeSet(s)
      PROVE  SockTypeOK'
  BY <1>8, <1>0 DEF InvokeSet, Goto, SockTypeOK, PCs, Owning
<1>9. ASSUME NEW s \in Socks, NEW ok \in BOOLEAN, InvokeMeasure(s, ok)
      PROVE  SockTypeOK'
  <2>1. <<>> \in Seq(0 .. MaxMsgs) /\ Len(<<>>) = 0
    OBVIOUS
  <2> QED
    BY <1>9, <1>0, <2>1 DEF InvokeMeasure, AfterReply, Goto, SockTypeOK, PCs, Owning
<1>10. ASSUME NEW s \in Socks,
              InvokeClearFlags(s) \/ InvokeClearRegs(s) \/ ReleaseFree(s) \/ ReleaseSend(s)
              \/ ReleaseNoConn(s)
       PROVE  SockTypeOK'
  BY <1>10, <1>0 DEF InvokeClearFlags, InvokeClearRegs, ReleaseFree, ReleaseSend,
     ReleaseNoConn, Goto, SockTypeOK, PCs, Owning
<1>11. ASSUME NEW s \in Socks, ReleaseIndex(s)
       PROVE  SockTypeOK'
  BY <1>11, <1>0 DEF ReleaseIndex, Goto, SockTypeOK, PCs, Owning
<1>12. CASE UNCHANGED sockVars
  BY <1>12, <1>0 DEF sockVars, SockTypeOK
<1> QED
  BY <1>1, <1>2, <1>3, <1>4, <1>5, <1>6, <1>7, <1>8, <1>9, <1>10, <1>11, <1>12
     DEF Next, Start, Invoke, Free, ReadMsg, vars, InvokeRetry, ReadUpdate,
         ReadMeasure, StageBadType, StageValue, StageFlag, StageMeasureFlag,
         StageMeasureId, CreateTimeout

\* A reader between two messages is well typed.
LEMMA IdleType ==
  /\ Idle.pc = "idle"
  /\ Idle \in [pc : {"idle", "value", "flag", "measure_flag", "measure_id"},
              priv : PrivStates \cup {Null},
              todo : Seq(Regs \cup {BadType}),
              id : 0 .. MaxMsgs]
<1>1. <<>> \in Seq(Regs \cup {BadType}) /\ 0 \in 0 .. MaxMsgs
  BY RegsAssumption
<1> QED
  BY <1>1 DEF Idle

\* Reader: the fields left to stage are those of the message being read, and
\* requests counts messages that were accepted.
LEMMA ReaderTypeStep ==
  ASSUME TypeOK, [Next]_vars
  PROVE  ReaderTypeOK'
<1> USE RegsAssumption
<1> ConnTypeOK /\ ReaderTypeOK
  BY DEF TypeOK
<1>1. ASSUME NEW i \in Slots, NEW fields \in FieldLists, ReadUpdate(i, fields)
      PROVE  ReaderTypeOK'
  <2>1. fields \in Seq(Regs \cup {BadType}) /\ fields # <<>>
    OBVIOUS
  <2>2. state[i] \in PrivStates \cup {Null} /\ msgs + 1 \in 0 .. MaxMsgs
    BY <1>1 DEF ReadUpdate, Lookup, ReaderTypeOK, ConnTypeOK
  <2>3. reader' = [pc |-> "value", priv |-> state[i], todo |-> fields, id |-> msgs + 1]
        /\ msgs' = msgs + 1 /\ requests' = requests
    BY <1>1 DEF ReadUpdate, Lookup
  <2>4. requests \in 0 .. msgs + 1
    BY DEF ReaderTypeOK
  <2> QED
    BY <2>1, <2>2, <2>3, <2>4 DEF ReaderTypeOK
<1>2. ASSUME NEW i \in Slots, ReadMeasure(i)
      PROVE  ReaderTypeOK'
  BY <1>2 DEF ReadMeasure, Lookup, ReaderTypeOK, ConnTypeOK
<1>3. ASSUME StageBadType \/ StageMeasureId
      PROVE  ReaderTypeOK'
  BY <1>3, IdleType DEF StageBadType, StageMeasureId, ReaderTypeOK
<1>4. ASSUME StageValue
      PROVE  ReaderTypeOK'
  BY <1>4 DEF StageValue, ReaderTypeOK
<1>5. ASSUME StageFlag
      PROVE  ReaderTypeOK'
  <2>1. CASE LastField
    BY <1>5, <2>1, IdleType DEF StageFlag, ReaderTypeOK
  <2>2. CASE ~LastField
    <3>1. reader.todo \in Seq(Regs \cup {BadType}) /\ reader.todo # <<>>
          /\ Len(reader.todo) # 1
      BY <1>5, <2>2 DEF StageFlag, LastField, ReaderTypeOK
    <3>2. Tail(reader.todo) \in Seq(Regs \cup {BadType}) /\ Tail(reader.todo) # <<>>
      <4>1. Len(reader.todo) \in Nat /\ Len(reader.todo) # 0
        BY <3>1, EmptySeq
      <4>2. /\ Tail(reader.todo) \in Seq(Regs \cup {BadType})
            /\ Len(Tail(reader.todo)) = Len(reader.todo) - 1
        BY <3>1, HeadTailProperties
      <4>3. Len(Tail(reader.todo)) # 0
        BY <3>1, <4>1, <4>2
      <4> QED
        BY <4>2, <4>3, EmptySeq
    <3> QED
      BY <1>5, <2>2, <3>2 DEF StageFlag, ReaderTypeOK
  <2> QED
    BY <2>1, <2>2
<1>6. ASSUME StageMeasureFlag
      PROVE  ReaderTypeOK'
  BY <1>6 DEF StageMeasureFlag, ReaderTypeOK
<1>7. CASE UNCHANGED readerVars
  BY <1>7 DEF readerVars, ReaderTypeOK
<1> QED
  BY <1>1, <1>2, <1>3, <1>4, <1>5, <1>6, <1>7
     DEF Next, Start, Invoke, Free, ReadMsg, vars, ConnectionStart, ScanSlot,
         InitPrivState, InitPrivStateFails, StartCreate, InvokeRetry, InvokeBegin,
         InvokeRead, InvokeSet, InvokeMeasure, InvokeClearFlags, InvokeClearRegs,
         ReleaseFree, ReleaseSend, ReleaseIndex, ReleaseNoConn, CreateTimeout

\* History: what was handed over, announced and answered.
LEMMA HistoryTypeStep ==
  ASSUME TypeOK, SlotOwnership, PrivStateOwnership, [Next]_vars
  PROVE  HistoryTypeOK'
<1> HistoryTypeOK /\ SockTypeOK
  BY DEF TypeOK
<1>1. ASSUME NEW s \in Socks, ScanSlot(s)
      PROVE  HistoryTypeOK'
  BY <1>1 DEF ScanSlot, HistoryTypeOK
<1>2. ASSUME NEW s \in Socks, NEW ok \in BOOLEAN, StartCreate(s, ok) \/ InvokeRetry(s, ok)
      PROVE  HistoryTypeOK'
  <2>1. sid[s] \in Slots
    BY <1>2, UsingPriv DEF StartCreate, InvokeRetry, Goto, Using, Owning
  <2> QED
    BY <1>2, <2>1 DEF StartCreate, InvokeRetry, SendConnCreate, HistoryTypeOK
<1>3. ASSUME NEW s \in Socks, InvokeSet(s)
      PROVE  HistoryTypeOK'
  <2>1. params[s] \in Seq(0 .. MaxMsgs) /\ Len(params[s]) <= NumRegs
    BY DEF SockTypeOK
  <2>2. \A r \in DOMAIN params[s] : <<r, params[s][r]>> \in Regs \X (0 .. MaxMsgs)
    BY <2>1, RegsAssumption
  <2> QED
    BY <1>3, <2>2 DEF InvokeSet, HistoryTypeOK
<1>4. ASSUME NEW s \in Socks, NEW ok \in BOOLEAN, InvokeMeasure(s, ok)
      PROVE  HistoryTypeOK'
  <2>1. Priv(s) \in PrivStates
    BY <1>4, UsingPriv DEF InvokeMeasure, Goto, Using, Owning
  <2>2. pending_update[Priv(s)].measure_registers \in 0 .. MaxMsgs
    BY <2>1, StagedType DEF TypeOK, StagedUpdates
  <2> QED
    <3> DEFINE id == pending_update[Priv(s)].measure_registers
    <3>1. replies' = Append(replies, id) \/ replies' = replies
      BY <1>4 DEF InvokeMeasure
    <3>2. id \in 0 .. MaxMsgs
      BY <2>2
    <3> HIDE DEF id
    <3>3. replies' \in Seq(0 .. MaxMsgs)
      <4>1. replies \in Seq(0 .. MaxMsgs)
        BY DEF HistoryTypeOK
      <4> QED
        <5>1. \A q \in Seq(0 .. MaxMsgs), e \in 0 .. MaxMsgs : Append(q, e) \in Seq(0 .. MaxMsgs)
          BY AppendProperties
        <5> QED
          BY <3>1, <3>2, <4>1, <5>1
    <3>4. created' = created /\ handed' = handed
      BY <1>4 DEF InvokeMeasure
    <3> QED
      BY <3>3, <3>4 DEF HistoryTypeOK
<1>5. CASE UNCHANGED historyVars
  BY <1>5 DEF historyVars, HistoryTypeOK
<1> QED
  BY <1>1, <1>2, <1>3, <1>4, <1>5
     DEF Next, Start, Invoke, Free, ReadMsg, vars, ConnectionStart, InitPrivState,
         InitPrivStateFails, InvokeBegin, InvokeRead, InvokeClearFlags,
         InvokeClearRegs, ReleaseFree, ReleaseSend, ReleaseIndex, ReleaseNoConn,
         ReadUpdate, ReadMeasure, StageBadType, StageValue, StageFlag,
         StageMeasureFlag, StageMeasureId, CreateTimeout

-----------------------------------------------------------------------------
(* Ownership of slots *)

\* A step that neither touches the table's owners nor moves a socket into or
\* out of the states in which it owns an initialised slot.
LEMMA SlotOwnershipKept ==
  ASSUME SlotOwnership, NEW s \in Socks, pc \in [Socks -> PCs],
         pc[s] \in Owning \ {"claimed"}, NEW to \in Owning,
         pc' = [pc EXCEPT ![s] = to], UNCHANGED <<index, impl, sid>>
  PROVE  SlotOwnership'
  BY DEF SlotOwnership

\* Every step keeps slots exclusive: the claim of the scan, the release of the index
\* and the steps in between.
LEMMA SlotOwnershipStep ==
  ASSUME TypeOK, SlotOwnership, PrivStateOwnership, [Next]_vars
  PROVE  SlotOwnership'
<1> USE ConnectionsAssumption
<1>0. /\ pc \in [Socks -> PCs]
      /\ sid \in [Socks -> 0 .. MaxConnections]
      /\ \A s \in Socks : pc[s] = "scan" => sid[s] < MaxConnections
      /\ index \in [Slots -> 0 .. MaxConnections]
      /\ impl \in [Slots -> Socks \cup {Null}]
  BY DEF TypeOK, SockTypeOK, ConnTypeOK
<1>1. ASSUME NEW s \in Socks, ConnectionStart(s)
      PROVE  SlotOwnership'
  BY <1>1, <1>0 DEF ConnectionStart, Goto, SlotOwnership, Owning, connVars
<1>2. ASSUME NEW s \in Socks, ScanSlot(s)
      PROVE  SlotOwnership'
  <2> DEFINE i == sid[s] + 1
  <2>1. i \in Slots
    BY <1>2, <1>0 DEF ScanSlot
  <2>2. pc[s] = "scan" /\ impl' = impl
    BY <1>2 DEF ScanSlot
  <2>a. /\ index' = IF index[i] = 0 THEN [index EXCEPT ![i] = i] ELSE index
        /\ pc' = [pc EXCEPT ![s] = IF i >= MaxConnections THEN "noconn"
                                   ELSE IF index[i] = 0 THEN "claimed" ELSE "scan"]
        /\ sid' = [sid EXCEPT ![s] = IF i >= MaxConnections THEN 0 ELSE i]
    BY <1>2 DEF ScanSlot, CASTakes, NewIndex
  <2> HIDE DEF i
  <2>3. CASE index[i] = 0 /\ i < MaxConnections
    <3>1. /\ index' = [index EXCEPT ![i] = i]
          /\ pc' = [pc EXCEPT ![s] = "claimed"]
          /\ sid' = [sid EXCEPT ![s] = i]
      <4>1. ~(i >= MaxConnections)
        BY <2>1, <2>3
      <4> QED
        BY <2>a, <2>3, <4>1
    <3>2. \A t \in Socks : pc[t] \in Owning => sid[t] # i
      BY <2>1, <2>3 DEF SlotOwnership
    <3> QED
      BY <3>1, <3>2, <2>1, <2>2, <1>0 DEF SlotOwnership, Owning
  <2>4. CASE ~(index[i] = 0 /\ i < MaxConnections)
    <3>1. /\ pc' \in {[pc EXCEPT ![s] = "noconn"], [pc EXCEPT ![s] = "scan"]}
          /\ sid' \in {[sid EXCEPT ![s] = 0], [sid EXCEPT ![s] = i]}
      <4>1. CASE i >= MaxConnections
        BY <2>a, <4>1
      <4>2. CASE ~(i >= MaxConnections)
        <5>1. index[i] # 0
          BY <2>4, <4>2, <2>1
        <5> QED
          BY <2>a, <4>2, <5>1
      <4> QED
        BY <4>1, <4>2
    <3>2. index' = index \/ (index[i] = 0 /\ index' = [index EXCEPT ![i] = i])
      BY <2>a
    <3>3. \A t \in Socks : pc'[t] \in Owning =>
             pc[t] \in Owning /\ pc'[t] = pc[t] /\ sid'[t] = sid[t] /\ t # s
      BY <3>1, <2>2, <1>0 DEF Owning
    <3>4. \A t \in Socks : pc[t] \in Owning => index'[sid[t]] = sid[t]
      BY <3>2, <2>1, <1>0 DEF SlotOwnership
    <3> QED
      BY <3>3, <3>4, <2>2 DEF SlotOwnership
  <2> QED
    BY <2>3, <2>4
<1>3. ASSUME NEW s \in Socks, NEW o \in PrivStates, InitPrivState(s, o)
      PROVE  SlotOwnership'
  <2>1. /\ pc[s] = "claimed" /\ pc' = [pc EXCEPT ![s] = "inited"]
        /\ impl' = [impl EXCEPT ![sid[s]] = s]
        /\ index' = index /\ sid' = sid
    BY <1>3 DEF InitPrivState, Goto
  <2> QED
    BY <2>1, <1>0 DEF SlotOwnership, Owning
<1>4. ASSUME NEW s \in Socks, InitPrivStateFails(s)
      PROVE  SlotOwnership'
  <2>1. /\ pc[s] = "claimed" /\ pc' = [pc EXCEPT ![s] = "noconn"]
        /\ impl' = [impl EXCEPT ![sid[s]] = s]
        /\ index' = index /\ sid' = [sid EXCEPT ![s] = 0]
    BY <1>4 DEF InitPrivStateFails, Goto
  <2> QED
    BY <2>1, <1>0 DEF SlotOwnership, Owning
<1>5. ASSUME NEW s \in Socks, NEW ok \in BOOLEAN, StartCreate(s, ok)
      PROVE  SlotOwnership'
  <2> "open" \in Owning /\ "inited" \in Owning \ {"claimed"}
    BY DEF Owning
  <2> QED
    BY <1>5, <1>0, SlotOwnershipKept DEF StartCreate, Goto
<1>6. ASSUME NEW s \in Socks,
             InvokeBegin(s) \/ InvokeSet(s) \/ (\E ok \in BOOLEAN : InvokeMeasure(s, ok))
             \/ InvokeClearFlags(s) \/ InvokeClearRegs(s) \/ ReleaseFree(s) \/ ReleaseSend(s)
      PROVE  SlotOwnership'
  <2>1. \E to \in Owning : pc' = [pc EXCEPT ![s] = to]
    BY <1>6 DEF InvokeBegin, InvokeSet, InvokeMeasure, AfterReply, InvokeClearFlags,
       InvokeClearRegs, ReleaseFree, ReleaseSend, Goto, Owning
  <2>2. pc[s] \in Owning \ {"claimed"} /\ UNCHANGED <<index, impl, sid>>
    BY <1>6 DEF InvokeBegin, InvokeSet, InvokeMeasure, InvokeClearFlags,
       InvokeClearRegs, ReleaseFree, ReleaseSend, Goto, Owning, connVars
  <2> QED
    BY <2>1, <2>2, <1>0, SlotOwnershipKept
<1>7. ASSUME NEW s \in Socks, ReleaseIndex(s)
      PROVE  SlotOwnership'
  <2>1. /\ pc[s] = "released" /\ pc' = [pc EXCEPT ![s] = "closed"]
        /\ index' = [index EXCEPT ![sid[s]] = 0] /\ impl' = impl
        /\ sid' = [sid EXCEPT ![s] = 0]
    BY <1>7 DEF ReleaseIndex, IndexAfterRelease, Goto
  <2> QED
    BY <2>1, <1>0 DEF SlotOwnership, Owning
<1>8. ASSUME NEW s \in Socks, ReleaseNoConn(s)
      PROVE  SlotOwnership'
  BY <1>8, <1>0 DEF ReleaseNoConn, Goto, SlotOwnership, Owning, connVars
<1>9. CASE UNCHANGED <<index, impl, pc, sid>>
  BY <1>9 DEF SlotOwnership
<1> QED
  BY <1>1, <1>2, <1>3, <1>4, <1>5, <1>6, <1>7, <1>8, <1>9
     DEF Next, Start, Invoke, Free, ReadMsg, vars, connVars, sockVars, InvokeRetry,
         InvokeRead, ReadUpdate, ReadMeasure, StageBadType, StageValue, StageFlag,
         StageMeasureFlag, StageMeasureId, CreateTimeout

-----------------------------------------------------------------------------
(* Ownership of private states *)

\* Every step keeps private states exclusive: allocation takes an unused one, and the
\* slot gives up its state before the state is freed.
LEMMA PrivStateOwnershipStep ==
  ASSUME TypeOK, SlotOwnership, PrivStateOwnership, [Next]_vars
  PROVE  PrivStateOwnership'
<1> USE NullAssumption
<1>0. /\ pc \in [Socks -> PCs]
      /\ sid \in [Socks -> 0 .. MaxConnections]
      /\ state \in [Slots -> PrivStates \cup {Null}]
      /\ live \in [PrivStates -> BOOLEAN]
  BY DEF TypeOK, SockTypeOK, ConnTypeOK, PrivTypeOK
\* Neither the pointers nor the heap change, and no socket starts or stops
\* using its private state.
<1> DEFINE Quiet == /\ UNCHANGED <<state, live>>
                    /\ \A s \in Socks : pc'[s] \in Using <=> pc[s] \in Using
                    /\ \A s \in Socks : pc[s] \in Using => sid'[s] = sid[s]
<1>1. ASSUME Quiet
      PROVE  PrivStateOwnership'
  <2>1. \A s \in Socks : (pc'[s] \in Using <=> pc[s] \in Using)
    BY <1>1
  <2>2. \A s \in Socks : pc[s] \in Using => Priv(s)' = Priv(s)
    BY <1>1 DEF Priv
  <2>3. live' = live
    BY <1>1
  <2> HIDE DEF Quiet
  <2> QED
    BY <2>1, <2>2, <2>3 DEF PrivStateOwnership
<1>2. ASSUME NEW s \in Socks, NEW o \in PrivStates, InitPrivState(s, o)
      PROVE  PrivStateOwnership'
  <2>1. /\ pc[s] = "claimed" /\ pc' = [pc EXCEPT ![s] = "inited"]
        /\ ~live[o] /\ live' = [live EXCEPT ![o] = TRUE]
        /\ state' = [state EXCEPT ![sid[s]] = o] /\ sid' = sid
    BY <1>2 DEF InitPrivState, Goto
  <2>2. sid[s] \in Slots /\ \A t \in Socks : t # s /\ pc[t] \in Using =>
           sid[t] \in Slots /\ sid[t] # sid[s] /\ Priv(t) \in PrivStates
           /\ live[Priv(t)] /\ Priv(t) # o
    BY <2>1, UsingPriv DEF SlotOwnership, Owning, Using
  <2>3. Priv(s)' = o /\ \A t \in Socks : t # s /\ pc[t] \in Using => Priv(t)' = Priv(t)
    BY <2>1, <2>2, <1>0 DEF Priv
  <2>4. \A t \in Socks : t # s => (pc'[t] \in Using <=> pc[t] \in Using)
    BY <2>1, <1>0
  <2>5. pc'[s] \in Using /\ pc[s] \notin Using
    BY <2>1, <1>0 DEF Using, Owning
  <2> QED
    BY <2>1, <2>2, <2>3, <2>4, <2>5, <1>0 DEF PrivStateOwnership
<1>3. ASSUME NEW s \in Socks, InitPrivStateFails(s)
      PROVE  PrivStateOwnership'
  <2>1. /\ pc[s] = "claimed" /\ pc' = [pc EXCEPT ![s] = "noconn"]
        /\ state' = [state EXCEPT ![sid[s]] = Null] /\ live' = live
        /\ sid' = [sid EXCEPT ![s] = 0]
    BY <1>3 DEF InitPrivStateFails, Goto, privVars
  <2>2. pc[s] \notin Using /\ pc'[s] \notin Using
    BY <2>1, <1>0 DEF Using, Owning
  <2>3. \A t \in Socks : t # s /\ pc[t] \in Using => Priv(t)' = Priv(t)
    BY <2>1, <1>0 DEF Priv, SlotOwnership, Using, Owning
  <2>4. \A t \in Socks : t # s => (pc'[t] \in Using <=> pc[t] \in Using)
    BY <2>1, <1>0
  <2> QED
    BY <2>1, <2>2, <2>3, <2>4 DEF PrivStateOwnership
<1>4. ASSUME NEW s \in Socks, ReleaseFree(s)
      PROVE  PrivStateOwnership'
  <2>1. /\ pc[s] = "open" /\ pc' = [pc EXCEPT ![s] = "freed"]
        /\ live' = [live EXCEPT ![Priv(s)] = FALSE]
        /\ state' = state /\ sid' = sid
    BY <1>4 DEF ReleaseFree, Freed, Goto, connVars
  <2>2. pc[s] \in Using /\ pc'[s] \notin Using
    BY <2>1, <1>0 DEF Using, Owning
  <2>3. \A t \in Socks : Priv(t)' = Priv(t)
    BY <2>1 DEF Priv
  <2>4. \A t \in Socks : t # s => (pc'[t] \in Using <=> pc[t] \in Using)
    BY <2>1, <1>0
  <2> QED
    BY <2>1, <2>2, <2>3, <2>4, <1>0, UsingPriv DEF PrivStateOwnership
<1>5. ASSUME NEW s \in Socks, ScanSlot(s)
      PROVE  Quiet
  <2>1. /\ pc[s] = "scan" /\ UNCHANGED <<state, live>>
        /\ \E to \in {"noconn", "claimed", "scan"} : pc' = [pc EXCEPT ![s] = to]
        /\ \E n : sid' = [sid EXCEPT ![s] = n]
    BY <1>5 DEF ScanSlot, privVars
  <2>2. pc[s] \notin Using /\ pc'[s] \notin Using
    BY <2>1, <1>0 DEF Using, Owning
  <2>3. \A t \in Socks : t # s => pc'[t] = pc[t] /\ sid'[t] = sid[t]
    BY <2>1, <1>0
  <2> QED
    BY <2>1, <2>2, <2>3
<1>6. ASSUME NEW s \in Socks,
             ConnectionStart(s) \/ (\E ok \in BOOLEAN : StartCreate(s, ok))
             \/ InvokeBegin(s) \/ InvokeSet(s) \/ (\E ok \in BOOLEAN : InvokeMeasure(s, ok))
             \/ InvokeClearFlags(s) \/ InvokeClearRegs(s) \/ ReleaseSend(s) \/ ReleaseIndex(s)
             \/ ReleaseNoConn(s)
      PROVE  Quiet
  <2>1. \E from, to \in PCs : /\ Goto(s, from, to)
                              /\ from \in Using <=> to \in Using
    BY <1>6 DEF ConnectionStart, StartCreate, InvokeBegin, InvokeSet, InvokeMeasure,
       AfterReply, InvokeClearFlags, InvokeClearRegs, ReleaseSend, ReleaseIndex,
       ReleaseNoConn, Using, Owning, PCs
  <2>2. UNCHANGED <<state, live>>
    BY <1>6 DEF ConnectionStart, StartCreate, InvokeBegin, InvokeSet, InvokeMeasure,
       InvokeClearFlags, InvokeClearRegs, ReleaseSend, ReleaseIndex, ReleaseNoConn,
       connVars, privVars
  <2>3. \/ sid' = sid
        \/ pc[s] \notin Using /\ sid' = [sid EXCEPT ![s] = 0]
    BY <1>6 DEF ConnectionStart, StartCreate, InvokeBegin, InvokeSet, InvokeMeasure,
       InvokeClearFlags, InvokeClearRegs, ReleaseSend, ReleaseIndex, ReleaseNoConn,
       Goto, Using, Owning
  <2>4. pc'[s] \in Using <=> pc[s] \in Using
    BY <2>1, <1>0 DEF Goto
  <2>5. \A t \in Socks : t # s => pc'[t] = pc[t] /\ sid'[t] = sid[t]
    BY <2>1, <2>3, <1>0 DEF Goto
  <2> QED
    BY <2>2, <2>3, <2>4, <2>5
<1>7. CASE UNCHANGED <<state, live, pc, sid>>
  BY <1>7, <1>1
<1> QED
  BY <1>1, <1>2, <1>3, <1>4, <1>5, <1>6, <1>7
     DEF Next, Start, Invoke, Free, ReadMsg, vars, connVars, privVars, sockVars,
         InvokeRetry, InvokeRead, ReadUpdate, ReadMeasure, StageBadType, StageValue,
         StageFlag, StageMeasureFlag, StageMeasureId, CreateTimeout

-----------------------------------------------------------------------------
(* The inductive invariant: typing needs ownership (what invoke reads lies in *)
(* an allocated private state) and ownership needs typing.                    *)
Inv == TypeOK /\ SlotOwnership /\ PrivStateOwnership

\* The inductive invariant holds in every reachable state.
THEOREM InvHolds == Spec => []Inv
<1>1. Init => Inv
  <2>1. Init => SlotOwnership /\ PrivStateOwnership
    BY DEF Init, SlotOwnership, PrivStateOwnership, Owning, Using
  <2> QED
    BY <2>1, InitTypeOK DEF Inv
<1>2. Inv /\ [Next]_vars => Inv'
  BY ConnTypeStep, PrivTypeStep, SockTypeStep, ReaderTypeStep, HistoryTypeStep,
     SlotOwnershipStep, PrivStateOwnershipStep DEF Inv, TypeOK
<1> QED
  BY <1>1, <1>2, PTL DEF Spec

\* Every variable stays in its range.
THEOREM TypeCorrect == Spec => []TypeOK
<1>1. Inv => TypeOK
  BY DEF Inv
<1> QED
  BY <1>1, InvHolds, PTL

\* No slot is ever held by two sockets (spine_connection_start's CAS scan), and
\* a holder's index and impl are its own.
THEOREM SlotsAreExclusive == Spec => []SlotOwnership
<1>1. Inv => SlotOwnership
  BY DEF Inv
<1> QED
  BY <1>1, InvHolds, PTL

\* A socket only works on an allocated private state that no other connection
\* uses, and nothing that was allocated is lost (spine_connection_free).
THEOREM PrivStatesAreExclusive == Spec => []PrivStateOwnership
<1>1. Inv => PrivStateOwnership
  BY DEF Inv
<1> QED
  BY <1>1, InvHolds, PTL

-----------------------------------------------------------------------------
(* Slots in use without an owner *)

\* A step that leaves the table alone and takes no slot from its owner.
LEMMA LossKept ==
  ASSUME OnlyFailedStartsLoseSlots, UNCHANGED <<index, impl, state>>,
         \A s \in Socks : pc[s] \in Owning => pc'[s] \in Owning /\ sid'[s] = sid[s]
  PROVE  OnlyFailedStartsLoseSlots'
  BY DEF OnlyFailedStartsLoseSlots, HasOwner, PrivStateFailed

\* A slot loses its owner only when the scan refuses the last slot or kcalloc fails;
\* the fields of a slot without an owner are written by nobody.
LEMMA LossStep ==
  ASSUME Inv, OnlyFailedStartsLoseSlots, [Next]_vars
  PROVE  OnlyFailedStartsLoseSlots'
<1> USE NullAssumption, ConnectionsAssumption
<1>0. /\ TypeOK /\ SlotOwnership
      /\ pc \in [Socks -> PCs]
      /\ sid \in [Socks -> 0 .. MaxConnections]
      /\ \A s \in Socks : pc[s] = "scan" => sid[s] < MaxConnections
      /\ index \in [Slots -> 0 .. MaxConnections]
      /\ impl \in [Slots -> Socks \cup {Null}]
      /\ state \in [Slots -> PrivStates \cup {Null}]
  BY DEF Inv, TypeOK, SockTypeOK, ConnTypeOK
<1>1. ASSUME NEW s \in Socks, ScanSlot(s)
      PROVE  OnlyFailedStartsLoseSlots'
  <2> DEFINE i == sid[s] + 1
  <2>1. i \in Slots
    BY <1>1, <1>0 DEF ScanSlot
  <2>2. pc[s] = "scan" /\ UNCHANGED <<impl, state>>
    BY <1>1 DEF ScanSlot
  <2>3. /\ index' = IF index[i] = 0 THEN [index EXCEPT ![i] = i] ELSE index
        /\ pc' = [pc EXCEPT ![s] = IF i >= MaxConnections THEN "noconn"
                                   ELSE IF index[i] = 0 THEN "claimed" ELSE "scan"]
        /\ sid' = [sid EXCEPT ![s] = IF i >= MaxConnections THEN 0 ELSE i]
    BY <1>1 DEF ScanSlot, CASTakes, NewIndex
  <2> HIDE DEF i
  <2>4. \A j \in Slots : HasOwner(j) => HasOwner(j)'
    BY <2>2, <2>3, <1>0 DEF HasOwner, Owning
  <2>5. ASSUME NEW j \in Slots, index'[j] # 0, ~HasOwner(j)', j # MaxConnections
        PROVE  index[j] # 0 /\ ~HasOwner(j)
    <3>1. CASE j = i
      <4>1. i < MaxConnections
        BY <3>1, <2>5
      <4>2. CASE index[i] = 0
        <5>1. pc'[s] = "claimed" /\ sid'[s] = i
          BY <4>1, <4>2, <2>3, <2>1, <1>0
        <5> QED
          BY <5>1, <2>5, <3>1 DEF HasOwner, Owning
      <4> QED
        BY <4>2, <2>4, <2>5, <3>1
    <3> QED
      BY <3>1, <2>3, <2>4, <2>5, <1>0
  <2> QED
    BY <2>2, <2>5 DEF OnlyFailedStartsLoseSlots, PrivStateFailed
<1>2. ASSUME NEW s \in Socks, NEW o \in PrivStates, InitPrivState(s, o)
      PROVE  OnlyFailedStartsLoseSlots'
  <2>1. /\ pc[s] = "claimed" /\ pc' = [pc EXCEPT ![s] = "inited"]
        /\ impl' = [impl EXCEPT ![sid[s]] = s]
        /\ state' = [state EXCEPT ![sid[s]] = o]
        /\ index' = index /\ sid' = sid
    BY <1>2 DEF InitPrivState, Goto
  <2>2. \A j \in Slots : HasOwner(j) => HasOwner(j)'
    BY <2>1, <1>0 DEF HasOwner, Owning
  <2>3. HasOwner(sid[s])' /\ sid[s] \in Slots
    BY <2>1, <1>0 DEF HasOwner, Owning, SlotOwnership
  <2>4. \A j \in Slots : j # sid[s] => impl'[j] = impl[j] /\ state'[j] = state[j]
    BY <2>1, <1>0
  <2> QED
    BY <2>1, <2>2, <2>3, <2>4 DEF OnlyFailedStartsLoseSlots, PrivStateFailed
<1>3. ASSUME NEW s \in Socks, InitPrivStateFails(s)
      PROVE  OnlyFailedStartsLoseSlots'
  <2>1. /\ pc[s] = "claimed" /\ pc' = [pc EXCEPT ![s] = "noconn"]
        /\ impl' = [impl EXCEPT ![sid[s]] = s]
        /\ state' = [state EXCEPT ![sid[s]] = Null]
        /\ index' = index /\ sid' = [sid EXCEPT ![s] = 0]
    BY <1>3 DEF InitPrivStateFails, Goto
  <2>2. sid[s] \in Slots
    BY <2>1, <1>0 DEF Owning, SlotOwnership
  <2>3. \A j \in Slots : j # sid[s] => (HasOwner(j) => HasOwner(j)')
    BY <2>1, <2>2, <1>0 DEF HasOwner
  <2>4. impl'[sid[s]] # Null /\ state'[sid[s]] = Null
    BY <2>1, <2>2, <1>0
  <2>5. \A j \in Slots : j # sid[s] => impl'[j] = impl[j] /\ state'[j] = state[j]
    BY <2>1, <1>0
  <2> QED
    BY <2>1, <2>3, <2>4, <2>5 DEF OnlyFailedStartsLoseSlots, PrivStateFailed
<1>4. ASSUME NEW s \in Socks, ReleaseIndex(s)
      PROVE  OnlyFailedStartsLoseSlots'
  <2>1. /\ pc[s] = "released" /\ pc' = [pc EXCEPT ![s] = "closed"]
        /\ index' = [index EXCEPT ![sid[s]] = 0]
        /\ UNCHANGED <<impl, state>> /\ sid' = [sid EXCEPT ![s] = 0]
    BY <1>4 DEF ReleaseIndex, IndexAfterRelease, Goto
  <2>2. sid[s] \in Slots
    BY <2>1, <1>0 DEF Owning, SlotOwnership
  <2>3. \A j \in Slots : j # sid[s] => (HasOwner(j) => HasOwner(j)')
    BY <2>1, <2>2, <1>0 DEF HasOwner
  <2> QED
    BY <2>1, <2>2, <2>3, <1>0 DEF OnlyFailedStartsLoseSlots, PrivStateFailed
<1>5. ASSUME NEW s \in Socks,
             ConnectionStart(s) \/ (\E ok \in BOOLEAN : StartCreate(s, ok))
             \/ InvokeBegin(s) \/ InvokeSet(s) \/ (\E ok \in BOOLEAN : InvokeMeasure(s, ok))
             \/ InvokeClearFlags(s) \/ InvokeClearRegs(s) \/ ReleaseFree(s)
             \/ ReleaseSend(s) \/ ReleaseNoConn(s)
      PROVE  OnlyFailedStartsLoseSlots'
  <2>1. UNCHANGED <<index, impl, state>>
    BY <1>5 DEF ConnectionStart, StartCreate, InvokeBegin, InvokeSet, InvokeMeasure,
       InvokeClearFlags, InvokeClearRegs, ReleaseFree, ReleaseSend, ReleaseNoConn, connVars
  <2>2. \/ pc[s] \notin Owning /\ (sid' = sid \/ sid' = [sid EXCEPT ![s] = 0])
        \/ sid' = sid /\ pc'[s] \in Owning
    BY <1>5, <1>0 DEF ConnectionStart, StartCreate, InvokeBegin, InvokeSet,
       InvokeMeasure, AfterReply, InvokeClearFlags, InvokeClearRegs, ReleaseFree,
       ReleaseSend, ReleaseNoConn, Goto, Owning
  <2>3. \A t \in Socks : t # s => pc'[t] = pc[t]
    BY <1>5, <1>0 DEF ConnectionStart, StartCreate, InvokeBegin, InvokeSet,
       InvokeMeasure, AfterReply, InvokeClearFlags, InvokeClearRegs, ReleaseFree,
       ReleaseSend, ReleaseNoConn, Goto
  <2>4. \A t \in Socks : pc[t] \in Owning => pc'[t] \in Owning /\ sid'[t] = sid[t]
    BY <2>2, <2>3, <1>0
  <2> QED
    BY <2>1, <2>4, LossKept
<1>6. CASE UNCHANGED <<index, impl, state, pc, sid>>
  BY <1>6, LossKept
<1> QED
  BY <1>1, <1>2, <1>3, <1>4, <1>5, <1>6
     DEF Next, Start, Invoke, Free, ReadMsg, vars, connVars, sockVars, InvokeRetry,
         InvokeRead, ReadUpdate, ReadMeasure, StageBadType, StageValue, StageFlag,
         StageMeasureFlag, StageMeasureId, CreateTimeout

\* A slot is in use without an owner only if it is the last one or its private state
\* could not be allocated (spine_connection_start).
THEOREM OnlyFailedStarts == Spec => []OnlyFailedStartsLoseSlots
<1>1. Init => OnlyFailedStartsLoseSlots
  BY DEF Init, OnlyFailedStartsLoseSlots
<1>2. Inv /\ OnlyFailedStartsLoseSlots /\ [Next]_vars => OnlyFailedStartsLoseSlots'
  BY LossStep
<1> QED
  BY <1>1, <1>2, InvHolds, PTL DEF Spec

-----------------------------------------------------------------------------
(* Refinement: the table implements SlotTable *)

\* The mapping of a slot that is free, lost, or held by a socket.
OwnerMapped ==
    \A i \in Slots :
        /\ index[i] = 0 => Owner(i) = FreeSlot
        /\ index[i] # 0 /\ ~HasOwner(i) => Owner(i) = LostSlot
        /\ \A s \in Socks : pc[s] \in Owning /\ sid[s] = i => Owner(i) = s

\* The CHOOSE of the mapping finds the only socket that owns the slot.
LEMMA OwnerOf == Inv => OwnerMapped
<1> SUFFICES ASSUME Inv, NEW i \in Slots
             PROVE  /\ index[i] = 0 => Owner(i) = FreeSlot
                    /\ index[i] # 0 /\ ~HasOwner(i) => Owner(i) = LostSlot
                    /\ \A s \in Socks : pc[s] \in Owning /\ sid[s] = i => Owner(i) = s
  BY DEF OwnerMapped
<1>1. ASSUME NEW s \in Socks, pc[s] \in Owning, sid[s] = i
      PROVE  Owner(i) = s
  <2>1. index[i] # 0 /\ HasOwner(i)
    BY <1>1 DEF Inv, SlotOwnership, HasOwner
  <2>2. \A t \in Socks : pc[t] \in Owning /\ sid[t] = i => t = s
    BY <1>1 DEF Inv, SlotOwnership
  <2> QED
    BY <1>1, <2>1, <2>2 DEF Owner
<1> QED
  BY <1>1 DEF Owner

\* The mapping gives the abstract table its initial state.
LEMMA TableInit == Init => Table!Init
<1> SUFFICES ASSUME Init
             PROVE  \A i \in Slots : Owner(i) = FreeSlot
  BY DEF Table!Init
<1> QED
  BY DEF Init, Owner

\* A socket that owns no slot is the mapped owner of none.
LEMMA OwnsNothing ==
  ASSUME Inv, NEW s \in Socks, pc[s] \notin Owning
  PROVE  ~Table!Holds(s)
<1>1. ASSUME NEW i \in Slots, Owner(i) = s
      PROVE  FALSE
  <2>1. HasOwner(i)
    BY <1>1, OwnerOf, OwnerAssumption DEF OwnerMapped, Inv, TypeOK, ConnTypeOK
  <2>2. PICK t \in Socks : pc[t] \in Owning /\ sid[t] = i
    BY <2>1 DEF HasOwner
  <2> QED
    BY <1>1, <2>2, OwnerOf DEF OwnerMapped
<1> QED
  BY <1>1 DEF Table!Holds

\* A slot that is not claimed, lost or released keeps its mapped owner.
LEMMA OwnersKept ==
  ASSUME Inv, Inv', NEW S \in SUBSET Slots,
         \A j \in S : index'[j] = index[j],
         \A s \in Socks, j \in S :
            pc[s] \in Owning /\ sid[s] = j <=> pc'[s] \in Owning /\ sid'[s] = j
  PROVE  \A j \in S : Owner(j)' = Owner(j)
<1> SUFFICES ASSUME NEW i \in S
             PROVE  Owner(i)' = Owner(i)
  OBVIOUS
<1>1. HasOwner(i)' <=> HasOwner(i)
  BY DEF HasOwner
<1>2. OwnerMapped /\ OwnerMapped'
  BY OwnerOf, PTL
<1>3. CASE HasOwner(i)
  <2>1. PICK s \in Socks : pc[s] \in Owning /\ sid[s] = i
    BY <1>3 DEF HasOwner
  <2>2. pc'[s] \in Owning /\ sid'[s] = i
    BY <2>1
  <2> QED
    BY <2>1, <2>2, <1>2 DEF OwnerMapped
<1>4. CASE ~HasOwner(i)
  BY <1>1, <1>2, <1>4 DEF OwnerMapped
<1> QED
  BY <1>3, <1>4

\* What the abstract table sees of a step.
MappedOwner == [i \in Slots |-> Owner(i)]

\* Every step of the scans, initialisations and releases is one claim, one loss, one
\* release, or nothing at all to the abstract table.
LEMMA TableStep ==
  ASSUME Inv, Inv', [Next]_vars
  PROVE  Table!Next \/ MappedOwner' = MappedOwner
<1> USE ConnectionsAssumption
<1>0. /\ TypeOK /\ SlotOwnership
      /\ pc \in [Socks -> PCs]
      /\ sid \in [Socks -> 0 .. MaxConnections]
      /\ \A s \in Socks : pc[s] = "scan" => sid[s] < MaxConnections
      /\ index \in [Slots -> 0 .. MaxConnections]
  BY DEF Inv, TypeOK, SockTypeOK, ConnTypeOK
<1>a. OwnerMapped /\ OwnerMapped'
  BY OwnerOf, PTL
\* The step concerns one slot and its mapped owner only.
<1>b. ASSUME NEW i \in Slots, NEW new,
             \A j \in Slots \ {i} : index'[j] = index[j],
             \A s \in Socks, j \in Slots \ {i} :
                pc[s] \in Owning /\ sid[s] = j <=> pc'[s] \in Owning /\ sid'[s] = j,
             Owner(i)' = new
      PROVE  MappedOwner' = [MappedOwner EXCEPT ![i] = new]
  <2>1. \A j \in Slots \ {i} : Owner(j)' = Owner(j)
    BY <1>b, OwnersKept
  <2> QED
    BY <1>b, <2>1 DEF MappedOwner
\* No slot changes hands.
<1>c. ASSUME index' = index,
             \A s \in Socks : pc[s] \in Owning <=> pc'[s] \in Owning,
             \A s \in Socks : pc[s] \in Owning => sid'[s] = sid[s]
      PROVE  MappedOwner' = MappedOwner
  <2>1. \A j \in Slots : Owner(j)' = Owner(j)
    BY <1>c, OwnersKept
  <2> QED
    BY <2>1 DEF MappedOwner
<1>1. ASSUME NEW s \in Socks, ScanSlot(s)
      PROVE  Table!Next \/ MappedOwner' = MappedOwner
  <2>0. PICK i \in Slots : i = sid[s] + 1
    BY <1>1, <1>0 DEF ScanSlot
  <2>1. pc[s] = "scan" /\ pc[s] \notin Owning
    BY <1>1 DEF ScanSlot, Owning
  <2>2. /\ index' = IF index[i] = 0 THEN [index EXCEPT ![i] = i] ELSE index
        /\ pc' = [pc EXCEPT ![s] = IF i >= MaxConnections THEN "noconn"
                                   ELSE IF index[i] = 0 THEN "claimed" ELSE "scan"]
        /\ sid' = [sid EXCEPT ![s] = IF i >= MaxConnections THEN 0 ELSE i]
    BY <1>1, <2>0 DEF ScanSlot, CASTakes, NewIndex
  <2>3. \A t \in Socks \ {s} : pc'[t] = pc[t] /\ sid'[t] = sid[t]
    BY <2>2, <1>0
  <2>4. CASE index[i] # 0
    <3>1. index' = index /\ pc'[s] \notin Owning
      BY <2>2, <2>4, <1>0 DEF Owning
    <3> QED
      BY <3>1, <2>1, <2>3, <1>c
  <2>5. CASE index[i] = 0 /\ i < MaxConnections
    <3>1. /\ index' = [index EXCEPT ![i] = i]
          /\ pc'[s] = "claimed" /\ sid'[s] = i
      BY <2>1, <2>2, <2>5, <1>0
    <3>2. Owner(i) = FreeSlot /\ Owner(i)' = s
      BY <3>1, <2>1, <2>5, <1>a DEF OwnerMapped, Owning
    <3>3. MappedOwner' = [MappedOwner EXCEPT ![i] = s]
      BY <3>1, <3>2, <2>1, <2>3, <1>0, <1>b, SMTT(30)
    <3>4. ~Table!Holds(s)
      BY <2>1, OwnsNothing
    <3> QED
      BY <3>2, <3>3, <3>4, <2>1 DEF Table!Next, Table!Claim, MappedOwner
  <2>6. CASE index[i] = 0 /\ i >= MaxConnections
    <3>1. index' = [index EXCEPT ![i] = i] /\ pc'[s] \notin Owning
      BY <2>1, <2>2, <2>6, <1>0 DEF Owning
    <3>2. \A t \in Socks : pc[t] \in Owning => sid[t] # i
      BY <2>6, <2>1, <1>0 DEF SlotOwnership
    <3>3. ~HasOwner(i)'
      BY <3>1, <3>2, <2>3 DEF HasOwner
    <3>4. index'[i] # 0
      BY <3>1, <2>1, <1>0
    <3>5. Owner(i) = FreeSlot /\ Owner(i)' = LostSlot
      BY <3>3, <3>4, <2>1, <2>6, <1>a DEF OwnerMapped
    <3>6. MappedOwner' = [MappedOwner EXCEPT ![i] = LostSlot]
      BY <3>1, <3>5, <2>1, <2>3, <1>0, <1>b
    <3> QED
      BY <3>5, <3>6, <2>1, OwnerAssumption DEF Table!Next, Table!Lose, MappedOwner
  <2>7. i \in Nat /\ MaxConnections \in Nat
    BY <2>1
  <2> QED
    BY <2>4, <2>5, <2>6, <2>7
<1>2. ASSUME NEW s \in Socks, NEW o \in PrivStates, InitPrivState(s, o)
      PROVE  MappedOwner' = MappedOwner
  <2>1. /\ pc[s] = "claimed" /\ pc' = [pc EXCEPT ![s] = "inited"]
        /\ index' = index /\ sid' = sid
    BY <1>2 DEF InitPrivState, Goto
  <2> QED
    BY <2>1, <1>0, <1>c DEF Owning
<1>3. ASSUME NEW s \in Socks, InitPrivStateFails(s)
      PROVE  Table!Next
  <2>1. /\ pc[s] = "claimed" /\ pc' = [pc EXCEPT ![s] = "noconn"]
        /\ index' = index /\ sid' = [sid EXCEPT ![s] = 0]
    BY <1>3 DEF InitPrivStateFails, Goto
  <2>2. PICK i \in Slots : i = sid[s]
    BY <2>1, <1>0 DEF Owning, SlotOwnership
  <2>3. index[i] # 0 /\ pc[s] \in Owning
    BY <2>2, <2>1, <1>0 DEF Owning, SlotOwnership
  <2>4. pc'[s] \notin Owning /\ \A t \in Socks \ {s} : pc'[t] = pc[t] /\ sid'[t] = sid[t]
    BY <2>1, <1>0 DEF Owning
  <2>5. ~HasOwner(i)'
    <3>1. \A t \in Socks \ {s} : pc[t] \in Owning => sid[t] # i
      BY <2>2, <2>3, <1>0 DEF SlotOwnership
    <3>2. \A t \in Socks : pc'[t] \in Owning => sid'[t] # i
      BY <3>1, <2>4
    <3> QED
      BY <3>2 DEF HasOwner
  <2>6. Owner(i) = s /\ Owner(i)' = LostSlot
    <3>1. Owner(i) = s
      BY <2>2, <2>3, <1>a DEF OwnerMapped
    <3>2. \A j \in Slots : index'[j] # 0 /\ ~HasOwner(j)' => Owner(j)' = LostSlot
      BY <1>a DEF OwnerMapped
    <3> QED
      BY <3>1, <3>2, <2>1, <2>2, <2>3, <2>5
  <2>7. MappedOwner' = [MappedOwner EXCEPT ![i] = LostSlot]
    <3>1. \A j \in Slots \ {i} : index'[j] = index[j]
      BY <2>2, <2>1
    <3>2. \A t \in Socks, j \in Slots \ {i} :
             pc[t] \in Owning /\ sid[t] = j <=> pc'[t] \in Owning /\ sid'[t] = j
      BY <2>2, <2>4
    <3> QED
      BY <3>1, <3>2, <2>2, <2>3, <2>6, <1>b
  <2> QED
    BY <2>2, <2>3, <2>6, <2>7, OwnerAssumption DEF Table!Next, Table!Lose, MappedOwner
<1>4. ASSUME NEW s \in Socks, ReleaseIndex(s)
      PROVE  Table!Next
  <2>1. /\ pc[s] = "released" /\ pc' = [pc EXCEPT ![s] = "closed"]
        /\ index' = [index EXCEPT ![sid[s]] = 0]
        /\ sid' = [sid EXCEPT ![s] = 0]
    BY <1>4 DEF ReleaseIndex, IndexAfterRelease, Goto
  <2>2. PICK i \in Slots : i = sid[s]
    BY <2>1, <1>0 DEF Owning, SlotOwnership
  <2>3. pc[s] \in Owning
    BY <2>2, <2>1, <1>0 DEF Owning, SlotOwnership
  <2>4. pc'[s] \notin Owning /\ \A t \in Socks \ {s} : pc'[t] = pc[t] /\ sid'[t] = sid[t]
    BY <2>1, <1>0 DEF Owning
  <2>5. Owner(i) = s /\ Owner(i)' = FreeSlot
    <3>1. Owner(i) = s
      BY <2>2, <2>3, <1>a DEF OwnerMapped
    <3>2. \A j \in Slots : index'[j] = 0 => Owner(j)' = FreeSlot
      BY <1>a DEF OwnerMapped
    <3>3. index'[i] = 0
      BY <2>2, <2>1, <1>0
    <3> QED
      BY <3>1, <3>2, <3>3, <2>1, <2>3, <2>2
  <2>6. MappedOwner' = [MappedOwner EXCEPT ![i] = FreeSlot]
    <3>1. \A j \in Slots \ {i} : index'[j] = index[j]
      BY <2>2, <2>1
    <3>2. \A t \in Socks, j \in Slots \ {i} :
             pc[t] \in Owning /\ sid[t] = j <=> pc'[t] \in Owning /\ sid'[t] = j
      BY <2>2, <2>4
    <3> QED
      BY <3>1, <3>2, <2>2, <2>3, <2>5, <1>b
  <2> QED
    BY <2>2, <2>3, <2>5, <2>6 DEF Table!Next, Table!Release, MappedOwner
<1>5. ASSUME NEW s \in Socks,
             ConnectionStart(s) \/ (\E ok \in BOOLEAN : StartCreate(s, ok))
             \/ InvokeBegin(s) \/ InvokeSet(s) \/ (\E ok \in BOOLEAN : InvokeMeasure(s, ok))
             \/ InvokeClearFlags(s) \/ InvokeClearRegs(s) \/ ReleaseFree(s)
             \/ ReleaseSend(s) \/ ReleaseNoConn(s)
      PROVE  MappedOwner' = MappedOwner
  <2>1. index' = index
    BY <1>5 DEF ConnectionStart, StartCreate, InvokeBegin, InvokeSet, InvokeMeasure,
       InvokeClearFlags, InvokeClearRegs, ReleaseFree, ReleaseSend, ReleaseNoConn, connVars
  <2>2. \/ pc[s] \notin Owning /\ pc'[s] \notin Owning
        \/ sid' = sid /\ pc[s] \in Owning /\ pc'[s] \in Owning
    BY <1>5, <1>0 DEF ConnectionStart, StartCreate, InvokeBegin, InvokeSet,
       InvokeMeasure, AfterReply, InvokeClearFlags, InvokeClearRegs, ReleaseFree,
       ReleaseSend, ReleaseNoConn, Goto, Owning
  <2>3. \A t \in Socks : t # s => pc'[t] = pc[t] /\ sid'[t] = sid[t]
    BY <1>5, <1>0 DEF ConnectionStart, StartCreate, InvokeBegin, InvokeSet,
       InvokeMeasure, AfterReply, InvokeClearFlags, InvokeClearRegs, ReleaseFree,
       ReleaseSend, ReleaseNoConn, Goto
  <2> QED
    BY <2>1, <2>2, <2>3, <1>c
<1>6. CASE UNCHANGED <<index, pc, sid>>
  BY <1>6, <1>c
<1> QED
  BY <1>1, <1>2, <1>3, <1>4, <1>5, <1>6
     DEF Next, Start, Invoke, Free, ReadMsg, vars, connVars, sockVars, InvokeRetry,
         InvokeRead, ReadUpdate, ReadMeasure, StageBadType, StageValue, StageFlag,
         StageMeasureFlag, StageMeasureId, CreateTimeout

\* The connection table implements SlotTable: whatever the interleaving, a slot is
\* claimed by one socket, given back by it, or lost, each in one step.
THEOREM TableImplemented == Spec => ImplementsSlotTable
<1>1. Inv /\ Inv' /\ [Next]_vars => [Table!Next]_MappedOwner
  BY TableStep
<1> QED
  BY <1>1, TableInit, InvHolds, PTL DEF Spec, ImplementsSlotTable, Table!Spec, MappedOwner

-----------------------------------------------------------------------------
(* Facts for the promises to the controller *)

\* What the inductive invariant says of the ranges of the variables.
LEMMA TypeFacts ==
  ASSUME Inv
  PROVE  /\ TypeOK /\ SlotOwnership /\ PrivStateOwnership
         /\ pc \in [Socks -> PCs]
         /\ sid \in [Socks -> 0 .. MaxConnections]
         /\ index \in [Slots -> 0 .. MaxConnections]
         /\ state \in [Slots -> PrivStates \cup {Null}]
         /\ live \in [PrivStates -> BOOLEAN]
         /\ sent_create \in [PrivStates -> BOOLEAN]
         /\ pending_update \in [PrivStates -> StagedUpdates]
         /\ params \in [Socks -> Seq(0 .. MaxMsgs)]
         /\ ca \in [Socks -> Seq(0 .. MaxMsgs)]
         /\ msgs \in 0 .. MaxMsgs
  BY DEF Inv, TypeOK, ConnTypeOK, PrivTypeOK, SockTypeOK, ReaderTypeOK

-----------------------------------------------------------------------------
(* The handshake *)

\* Where invoke is past its test of sent_create
PastTest == {"read", "measure", "clear_flags", "clear_regs"}

\* sent_create of a private state in use stands for a CREATE of this connection,
\* not of an earlier user of the slot or of the memory.
CreateInv ==
    /\ \A s \in Socks : pc[s] \in Using /\ sent_create[Priv(s)] => sid[s] \in created
    /\ \A s \in Socks : pc[s] \in PastTest => sent_create[Priv(s)]

\* A step that changes neither the handshake nor who uses which connection.
LEMMA CreateKept ==
  ASSUME CreateInv, UNCHANGED <<state, sent_create, created>>,
         \A s \in Socks : pc'[s] \in Using =>
            /\ pc[s] \in Using /\ sid'[s] = sid[s]
            /\ pc'[s] \in PastTest => pc[s] \in PastTest
  PROVE  CreateInv'
  BY DEF CreateInv, Priv, PastTest, Using, Owning

\* Every step keeps the handshake's record true.
LEMMA CreateStep ==
  ASSUME Inv, CreateInv, [Next]_vars
  PROVE  CreateInv'
<1>0. /\ TypeOK /\ SlotOwnership /\ PrivStateOwnership
      /\ pc \in [Socks -> PCs]
      /\ sid \in [Socks -> 0 .. MaxConnections]
      /\ state \in [Slots -> PrivStates \cup {Null}]
      /\ sent_create \in [PrivStates -> BOOLEAN]
  BY TypeFacts
<1>a. \A s \in Socks : pc[s] \in Using => sid[s] \in Slots /\ Priv(s) \in PrivStates
  BY <1>0, UsingPriv
<1>1. ASSUME NEW s \in Socks, ScanSlot(s)
      PROVE  CreateInv'
  <2>1. PICK i \in Nat : i = sid[s] + 1
    BY <1>0
  <2>2. /\ pc[s] = "scan" /\ UNCHANGED <<state, sent_create>>
        /\ created' = IF index[i] = 0 THEN created \ {i} ELSE created
        /\ pc'[s] \in {"noconn", "claimed", "scan"}
        /\ \A t \in Socks \ {s} : pc'[t] = pc[t] /\ sid'[t] = sid[t]
    BY <1>1, <1>0, <2>1 DEF ScanSlot, CASTakes, privVars
  <2>3. \A t \in Socks : pc'[t] \in Using => t # s /\ pc[t] \in Using /\ Priv(t)' = Priv(t)
    BY <2>2 DEF Using, Owning, Priv
  <2>4. \A t \in Socks : pc[t] \in Using => index[sid[t]] # 0
    BY <1>0, <1>a DEF SlotOwnership, Using
  <2>5. \A t \in Socks : pc[t] \in Using /\ sid[t] \in created => sid[t] \in created'
    BY <2>2, <2>4
  <2> QED
    BY <2>2, <2>3, <2>5 DEF CreateInv, PastTest, Using, Owning
<1>2. ASSUME NEW s \in Socks, NEW o \in PrivStates, InitPrivState(s, o)
      PROVE  CreateInv'
  <2>1. /\ pc[s] = "claimed" /\ pc' = [pc EXCEPT ![s] = "inited"]
        /\ ~live[o] /\ state' = [state EXCEPT ![sid[s]] = o] /\ sid' = sid
        /\ sent_create' = [sent_create EXCEPT ![o] = FALSE] /\ created' = created
    BY <1>2 DEF InitPrivState, Goto, Zeroed, historyVars
  <2>2. sid[s] \in Slots /\ \A t \in Socks : t # s /\ pc[t] \in Using => sid[t] # sid[s]
    BY <2>1, <1>0 DEF SlotOwnership, Using, Owning
  <2>3. \A t \in Socks : pc[t] \in Using => Priv(t) # o
    BY <2>1, <1>0 DEF PrivStateOwnership
  <2>4. /\ Priv(s)' = o
        /\ \A t \in Socks : t # s /\ pc[t] \in Using => Priv(t)' = Priv(t)
    BY <2>1, <2>2, <1>0, <1>a DEF Priv
  <2>5. \A t \in Socks : pc'[t] \in Using /\ t # s => pc[t] \in Using /\ pc'[t] = pc[t]
    BY <2>1, <1>0
  <2>6. ~sent_create'[o] /\ pc'[s] = "inited"
    BY <2>1, <1>0
  <2>7. \A t \in Socks : pc[t] \in Using => sent_create'[Priv(t)] = sent_create[Priv(t)]
    BY <2>1, <2>3, <1>0, <1>a
  <2> QED
    BY <2>1, <2>4, <2>5, <2>6, <2>7 DEF CreateInv, PastTest, Using, Owning
<1>3. ASSUME NEW s \in Socks, InitPrivStateFails(s)
      PROVE  CreateInv'
  <2>1. /\ pc[s] = "claimed" /\ pc' = [pc EXCEPT ![s] = "noconn"]
        /\ state' = [state EXCEPT ![sid[s]] = Null] /\ sid' = [sid EXCEPT ![s] = 0]
        /\ UNCHANGED <<sent_create, created>>
    BY <1>3 DEF InitPrivStateFails, Goto, privVars, historyVars
  <2>2. \A t \in Socks : pc[t] \in Using => sid[t] # sid[s]
    BY <2>1, <1>0 DEF SlotOwnership, Using, Owning
  <2>3. \A t \in Socks : pc'[t] \in Using =>
           pc[t] \in Using /\ pc'[t] = pc[t] /\ sid'[t] = sid[t]
    BY <2>1, <1>0 DEF Using, Owning
  <2>4. \A t \in Socks : pc'[t] \in Using => Priv(t)' = Priv(t)
    BY <2>1, <2>2, <2>3, <1>0, <1>a DEF Priv
  <2> QED
    BY <2>1, <2>3, <2>4 DEF CreateInv, PastTest, Using, Owning
<1>4. ASSUME NEW s \in Socks, NEW ok \in BOOLEAN, StartCreate(s, ok) \/ InvokeRetry(s, ok)
      PROVE  CreateInv'
  <2>1. pc[s] \in {"inited", "open"} /\ pc[s] \in Using /\ UNCHANGED <<state, sid>>
    BY <1>4 DEF StartCreate, InvokeRetry, Goto, Using, Owning, sockVars
  <2>2. /\ pc'[s] \notin PastTest
        /\ \A t \in Socks : t # s => pc'[t] = pc[t]
        /\ pc'[s] \in Using
    BY <1>4, <1>0 DEF StartCreate, InvokeRetry, Goto, Using, Owning, sockVars, PastTest
  <2>3. PICK sent \in BOOLEAN :
           /\ sent_create' = [sent_create EXCEPT ![Priv(s)] = @ \/ sent]
           /\ created' = IF sent THEN created \cup {sid[s]} ELSE created
    BY <1>4 DEF StartCreate, InvokeRetry, SendConnCreate, Priv, Throttled
  <2>4. \A t \in Socks : Priv(t)' = Priv(t)
    BY <2>1 DEF Priv
  <2>5. \A t \in Socks : t # s /\ pc[t] \in Using => Priv(t) # Priv(s)
    BY <2>1, <1>0 DEF PrivStateOwnership
  <2>6. \A t \in Socks : t # s /\ pc[t] \in Using => sent_create'[Priv(t)] = sent_create[Priv(t)]
    BY <2>3, <2>5, <1>0, <1>a
  <2>7. sent_create'[Priv(s)] => sent_create[Priv(s)] \/ sent
    BY <2>1, <2>3, <1>0, <1>a
  <2>8. /\ created \subseteq created'
        /\ sent => sid[s] \in created'
    BY <2>3
  <2> QED
    BY <2>1, <2>2, <2>4, <2>6, <2>7, <2>8 DEF CreateInv, PastTest, Using, Owning
<1>5. ASSUME NEW s \in Socks, InvokeBegin(s)
      PROVE  CreateInv'
  <2>1. /\ pc[s] = "open" /\ pc' = [pc EXCEPT ![s] = "read"] /\ sent_create[Priv(s)]
        /\ UNCHANGED <<state, sid, sent_create, created>>
    BY <1>5 DEF InvokeBegin, Goto, connVars, privVars, historyVars
  <2> QED
    BY <2>1, <1>0 DEF CreateInv, Priv, PastTest, Using, Owning
<1>6. ASSUME NEW s \in Socks,
             InvokeSet(s) \/ (\E ok \in BOOLEAN : InvokeMeasure(s, ok))
             \/ InvokeClearFlags(s) \/ InvokeClearRegs(s)
      PROVE  CreateInv'
  <2>1. pc[s] \in PastTest /\ UNCHANGED <<state, sid, sent_create, created>>
    BY <1>6 DEF InvokeSet, InvokeMeasure, InvokeClearFlags, InvokeClearRegs, Goto,
       PastTest, connVars, privVars, historyVars
  <2>2. \A t \in Socks : t # s => pc'[t] = pc[t]
    BY <1>6, <1>0 DEF InvokeSet, InvokeMeasure, InvokeClearFlags, InvokeClearRegs, Goto
  <2> QED
    BY <2>1, <2>2, CreateKept DEF PastTest, Using, Owning
<1>7. ASSUME NEW s \in Socks,
             ConnectionStart(s) \/ ReleaseFree(s) \/ ReleaseSend(s) \/ ReleaseIndex(s)
             \/ ReleaseNoConn(s)
      PROVE  CreateInv'
  <2>1. /\ UNCHANGED <<state, sent_create, created>>
        /\ \E to \in {"scan", "freed", "released", "closed"} : pc' = [pc EXCEPT ![s] = to]
        /\ sid' = sid \/ sid' = [sid EXCEPT ![s] = 0]
    BY <1>7 DEF ConnectionStart, ReleaseFree, ReleaseSend, ReleaseIndex, ReleaseNoConn,
       Goto, connVars, privVars, historyVars
  <2>2. \A t \in Socks : pc'[t] \in Using =>
           pc[t] \in Using /\ pc'[t] = pc[t] /\ sid'[t] = sid[t]
    BY <2>1, <1>0 DEF Using, Owning
  <2> QED
    BY <2>1, <2>2, CreateKept
<1>8. CASE UNCHANGED <<state, sent_create, created, pc, sid>>
  BY <1>8, CreateKept
<1> QED
  BY <1>1, <1>2, <1>3, <1>4, <1>5, <1>6, <1>7, <1>8
     DEF Next, Start, Invoke, Free, ReadMsg, vars, connVars, privVars, sockVars,
         historyVars, InvokeRead, ReadUpdate, ReadMeasure, StageBadType, StageValue,
         StageFlag, StageMeasureFlag, StageMeasureId, CreateTimeout

\* The parameters of a connection change only when invoke sets them, and a request is
\* answered only by invoke, both past the test of sent_create.
LEMMA ControlStep ==
  ASSUME Inv, CreateInv, [Next]_vars, NEW s \in Socks,
         \/ ca'[s] # ca[s] /\ ca'[s] # <<>>
         \/ pc[s] = "measure" /\ pc'[s] # "measure" /\ replies' # replies
  PROVE  sid[s] \in created
<1>0. pc \in [Socks -> PCs] /\ ca \in [Socks -> Seq(0 .. MaxMsgs)]
  BY TypeFacts
<1>1. CASE pc[s] \in PastTest
  BY <1>1 DEF CreateInv, PastTest, Using, Owning
<1>2. CASE pc[s] \notin PastTest
  <2>1. ca'[s] # ca[s] /\ ca'[s] # <<>>
    BY <1>2 DEF PastTest
  <2>2. ASSUME NEW t \in Socks, ConnectionStart(t)
        PROVE  ca'[s] \in {<<>>, ca[s]}
    BY <2>2, <1>0 DEF ConnectionStart
  <2>3. ASSUME NEW t \in Socks, InvokeSet(t)
        PROVE  ca'[s] = ca[s]
    BY <2>3, <1>2, <1>0 DEF InvokeSet, Goto, PastTest
  <2>4. CASE UNCHANGED ca
    BY <2>1, <2>4
  <2> QED
    BY <2>1, <2>2, <2>3, <2>4
       DEF Next, Start, Invoke, Free, ReadMsg, vars, sockVars, ScanSlot, InitPrivState,
           InitPrivStateFails, StartCreate, InvokeRetry, InvokeBegin, InvokeRead,
           InvokeMeasure, InvokeClearFlags, InvokeClearRegs, ReleaseFree, ReleaseSend,
           ReleaseIndex, ReleaseNoConn, ReadUpdate, ReadMeasure, StageBadType,
           StageValue, StageFlag, StageMeasureFlag, StageMeasureId, CreateTimeout
<1> QED
  BY <1>1, <1>2

\* The handshake's record is true in every reachable state.
THEOREM CreateInvHolds == Spec => []CreateInv
<1>1. Init => CreateInv
  BY DEF Init, CreateInv, PastTest, Using, Owning
<1>2. Inv /\ CreateInv /\ [Next]_vars => CreateInv'
  BY CreateStep
<1> QED
  BY <1>1, <1>2, InvHolds, PTL DEF Spec

\* No parameter is set and no request answered before the controller was sent this
\* connection's CREATE (spine_invoke's test of sent_create).
THEOREM ControlNeedsCreate == Spec => ControlAfterCreate
<1>1. Inv /\ CreateInv /\ [Next]_vars =>
         \A s \in Socks :
            \/ ca'[s] # ca[s] /\ ca'[s] # <<>>
            \/ pc[s] = "measure" /\ pc'[s] # "measure" /\ replies' # replies
            => sid[s] \in created
  BY ControlStep
<1> QED
  BY <1>1, InvHolds, CreateInvHolds, PTL DEF Spec, ControlAfterCreate

-----------------------------------------------------------------------------
(* Staged values.  A value, the pair of a register and the number of the      *)
(* message that carries it, is coming, lies in a register, is collected by an *)
(* invoke, is handed over, or is lost; it never goes back.                    *)

Values == 1 .. MaxMsgs

\* The reader has yet to write value v to register r.
Coming(r, v) ==
    \/ v > msgs
    \/ /\ reader.id = v
       /\ \E k \in DOMAIN reader.todo :
             reader.todo[k] = r /\ (k > 1 \/ reader.pc = "value")

InRegister(o, r, v) == pending_update[o].control_registers[r] = v

\* An invoke has read the value and not yet given it to set_params.
Collected(s, r, v) ==
    pc[s] = "read" /\ r \in DOMAIN params[s] /\ params[s][r] = v

\* The user of o is between set_params and the end of the memset.
Clearing(o) ==
    \E s \in Socks : pc[s] \in PastTest \ {"read"} /\ Priv(s) = o

\* The reader numbers its messages, and a message names a register once.
ReaderInv ==
    /\ \A j, k \in DOMAIN reader.todo :
          reader.todo[j] = reader.todo[k] /\ reader.todo[j] # BadType => j = k
    /\ reader.id <= msgs
    /\ reader.pc # "idle" => reader.id # 0

\* Where a value may be at the same time: a value that comes is nowhere else; no
\* other private state or invoke has the one of a register or of an invoke; and one
\* that was handed over may only still lie in a register that is being cleared.
ValueInv(r, v) ==
    /\ Coming(r, v) => /\ \A o \in PrivStates : ~InRegister(o, r, v)
                       /\ \A s \in Socks : ~Collected(s, r, v)
                       /\ <<r, v>> \notin handed
    /\ \A o, p \in PrivStates : InRegister(o, r, v) /\ InRegister(p, r, v) => o = p
    /\ \A s \in Socks, o \in PrivStates :
          Collected(s, r, v) /\ InRegister(o, r, v) => o = Priv(s)
    /\ \A s, t \in Socks : Collected(s, r, v) /\ Collected(t, r, v) => s = t
    /\ \A s \in Socks : Collected(s, r, v) => <<r, v>> \notin handed
    /\ \A o \in PrivStates :
          <<r, v>> \in handed /\ InRegister(o, r, v) => Clearing(o)

StagingInv == ReaderInv /\ \A r \in Regs, v \in Values : ValueInv(r, v)

\* A step that only loses values, or stores one that was coming.
LEMMA ValueKept ==
  ASSUME NEW r, NEW v, ValueInv(r, v), NEW new,
         Coming(r, v)' => Coming(r, v),
         \A o \in PrivStates : InRegister(o, r, v)' =>
            InRegister(o, r, v) \/ (o = new /\ Coming(r, v) /\ ~Coming(r, v)'),
         \A s \in Socks : Collected(s, r, v)' => Collected(s, r, v) /\ Priv(s)' = Priv(s),
         handed' = handed,
         \A o \in PrivStates : InRegister(o, r, v)' /\ Clearing(o) => Clearing(o)'
  PROVE  ValueInv(r, v)'
  BY DEF ValueInv

\* The reader's place in a message: it takes messages that name a register once, and
\* works from the first field to the last.
LEMMA ReaderStep ==
  ASSUME Inv, ReaderInv, [Next]_vars
  PROVE  /\ ReaderInv'
         /\ \A r \in Regs, v \in Values : Coming(r, v)' => Coming(r, v)
         /\ \A r \in Regs : StageValue /\ r = Head(reader.todo) => ~Coming(r, reader.id)'
<1> USE RegsAssumption DEF Values
<1>0. /\ reader \in [pc : {"idle", "value", "flag", "measure_flag", "measure_id"},
                     priv : PrivStates \cup {Null},
                     todo : Seq(Regs \cup {BadType}),
                     id : 0 .. MaxMsgs]
      /\ reader.pc \in {"value", "flag"} => reader.todo # <<>>
      /\ msgs \in 0 .. MaxMsgs
  BY DEF Inv, TypeOK, ReaderTypeOK
<1> DEFINE Goal == /\ ReaderInv'
                   /\ \A r \in Regs, v \in Values : Coming(r, v)' => Coming(r, v)
<1>1. ASSUME NEW i \in Slots, NEW first, NEW todo \in FieldLists \cup {<<>>},
             Lookup(i, first, todo)
      PROVE  Goal
  <2>1. reader'.id = msgs + 1 /\ reader'.todo = todo /\ msgs' = msgs + 1
    BY <1>1 DEF Lookup
  <2>2. \A j, k \in DOMAIN todo : todo[j] = todo[k] /\ todo[j] # BadType => j = k
    BY FieldsAssumption
  <2>3. ReaderInv'
    BY <2>1, <2>2, <1>0 DEF ReaderInv
  <2> QED
    BY <2>1, <2>3, <1>0 DEF Coming
<1>2. ASSUME reader' = Idle, msgs' = msgs
      PROVE  Goal
  BY <1>0, <1>2 DEF ReaderInv, Coming, Idle
<1>3. ASSUME reader' = [reader EXCEPT !.pc = "flag"], msgs' = msgs, reader.pc = "value"
      PROVE  /\ Goal
             /\ \A r \in Regs : r = Head(reader.todo) => ~Coming(r, reader.id)'
  <2>1. Goal
    BY <1>0, <1>3 DEF ReaderInv, Coming
  <2>2. ASSUME NEW r \in Regs, r = Head(reader.todo)
        PROVE  ~Coming(r, reader.id)'
    <3>1. reader.todo # <<>> /\ r = reader.todo[1] /\ 1 \in DOMAIN reader.todo
      BY <1>0, <1>3, <2>2
    <3>2. \A k \in DOMAIN reader.todo : reader.todo[k] = r => k = 1
      BY <3>1 DEF ReaderInv
    <3>3. reader'.todo = reader.todo /\ reader'.pc = "flag" /\ reader'.id = reader.id
      BY <1>0, <1>3
    <3> QED
      BY <3>2, <3>3, <1>0, <1>3 DEF Coming, ReaderInv
  <2> QED
    BY <2>1, <2>2
<1>4. ASSUME reader' = [reader EXCEPT !.pc = "value", !.todo = Tail(@)], msgs' = msgs,
             reader.pc = "flag"
      PROVE  Goal
  <2>1. /\ reader'.todo = Tail(reader.todo) /\ reader'.pc = "value"
        /\ reader'.id = reader.id /\ reader.todo # <<>>
    BY <1>0, <1>4
  <2>2. \A k \in DOMAIN Tail(reader.todo) :
           /\ k \in Nat \ {0} /\ k + 1 \in DOMAIN reader.todo
           /\ Tail(reader.todo)[k] = reader.todo[k + 1]
    BY <1>0, <2>1
  <2>3. ReaderInv'
    BY <1>4, <2>1, <2>2 DEF ReaderInv
  <2>4. \A r \in Regs, v \in Values : Coming(r, v)' => Coming(r, v)
    BY <1>0, <1>4, <2>1, <2>2 DEF Coming
  <2> QED
    BY <2>3, <2>4
<1>5. ASSUME reader' = [reader EXCEPT !.pc = "measure_id"], msgs' = msgs,
             reader.pc = "measure_flag"
      PROVE  Goal
  BY <1>0, <1>5 DEF ReaderInv, Coming
<1>6. ASSUME UNCHANGED <<reader, msgs>>
      PROVE  Goal
  BY <1>6 DEF ReaderInv, Coming
<1>7. Goal
  BY <1>1, <1>2, <1>3, <1>4, <1>5, <1>6
     DEF Next, Start, Invoke, Free, ReadMsg, vars, readerVars, ConnectionStart, ScanSlot,
         InitPrivState, InitPrivStateFails, StartCreate, InvokeRetry, InvokeBegin,
         InvokeRead, InvokeSet, InvokeMeasure, InvokeClearFlags, InvokeClearRegs,
         ReleaseFree, ReleaseSend, ReleaseIndex, ReleaseNoConn, ReadUpdate, ReadMeasure,
         StageBadType, StageValue, StageFlag, StageMeasureFlag, StageMeasureId,
         CreateTimeout
<1> QED
  BY <1>3, <1>7 DEF StageValue

\* The registers a step of the reader leaves: those it found, and the value it writes.
LEMMA StageStep ==
  ASSUME Inv, ReaderInv, NEW r \in Regs, NEW v \in Values, NEW o \in PrivStates,
         StageValue \/ StageFlag \/ StageMeasureFlag \/ StageMeasureId, InRegister(o, r, v)'
  PROVE  \/ InRegister(o, r, v)
         \/ /\ StageValue /\ r = Head(reader.todo) /\ v = reader.id /\ o = reader.priv
            /\ Coming(r, v)
<1> USE RegsAssumption, NullAssumption DEF Values
<1>0. /\ reader.priv \in PrivStates \cup {Null}
      /\ reader.todo \in Seq(Regs \cup {BadType})
      /\ reader.pc = "value" => reader.todo # <<>>
      /\ pending_update \in [PrivStates -> StagedUpdates]
  BY DEF Inv, TypeOK, ReaderTypeOK, PrivTypeOK
<1>1. CASE o # reader.priv
  <2>1. \A u : Store(u) => pending_update'[o] = pending_update[o]
    BY <1>0, <1>1 DEF Store
  <2> QED
    BY <2>1 DEF InRegister, StageValue, StageFlag, StageMeasureFlag, StageMeasureId
<1>2. CASE o = reader.priv
  <2>0. Staged \in StagedUpdates /\ Staged = pending_update[o]
    BY <1>0, <1>2 DEF Staged
  <2>1. \A u : Store(u) => pending_update'[o] = u
    BY <1>0, <1>2 DEF Store
  <2>2. CASE StageValue
    <3>1. pending_update'[o] = [Staged EXCEPT !.control_registers[Head(reader.todo)] = reader.id]
      BY <2>1, <2>2 DEF StageValue
    <3>2. CASE r # Head(reader.todo)
      BY <2>0, <3>1, <3>2 DEF InRegister, StagedUpdates
    <3>3. CASE r = Head(reader.todo)
      <4>1. v = reader.id
        BY <2>0, <3>1, <3>3 DEF InRegister, StagedUpdates
      <4>2. 1 \in DOMAIN reader.todo /\ reader.todo[1] = r /\ reader.pc = "value"
        BY <1>0, <2>2, <3>3 DEF StageValue
      <4> QED
        BY <1>2, <2>2, <3>3, <4>1, <4>2 DEF Coming
    <3> QED
      BY <3>2, <3>3
  <2>3. CASE StageFlag
    <3>1. pending_update'[o] = [Staged EXCEPT !.control_is_pending[Head(reader.todo)] = TRUE]
      BY <2>1, <2>3 DEF StageFlag
    <3> QED
      BY <2>0, <3>1 DEF InRegister, StagedUpdates
  <2>4. CASE StageMeasureFlag
    <3>1. pending_update'[o] = [Staged EXCEPT !.measure_is_pending = TRUE]
      BY <2>1, <2>4 DEF StageMeasureFlag
    <3> QED
      BY <2>0, <3>1 DEF InRegister, StagedUpdates
  <2>5. CASE StageMeasureId
    <3>1. pending_update'[o] = [Staged EXCEPT !.measure_registers = reader.id]
      BY <2>1, <2>5 DEF StageMeasureId
    <3> QED
      BY <2>0, <3>1 DEF InRegister, StagedUpdates
  <2> QED
    BY <2>2, <2>3, <2>4, <2>5
<1> QED
  BY <1>1, <1>2

\* A step that neither collects nor hands over, and moves no socket into or out of the
\* part of invoke that follows its test.
LEMMA SocketsQuiet ==
  ASSUME NEW r, NEW v, UNCHANGED <<params, handed>>,
         \A s \in Socks : pc[s] \in PastTest \/ pc'[s] \in PastTest =>
            pc'[s] = pc[s] /\ Priv(s)' = Priv(s)
  PROVE  /\ \A s \in Socks : Collected(s, r, v)' => Collected(s, r, v) /\ Priv(s)' = Priv(s)
         /\ \A o : Clearing(o) => Clearing(o)'
<1>1. \A s \in Socks : Collected(s, r, v)' => Collected(s, r, v) /\ Priv(s)' = Priv(s)
  BY DEF Collected, PastTest
<1>2. ASSUME NEW o, Clearing(o)
      PROVE  Clearing(o)'
  <2>1. PICK s \in Socks : pc[s] \in PastTest \ {"read"} /\ Priv(s) = o
    BY <1>2 DEF Clearing
  <2>2. pc'[s] \in PastTest \ {"read"} /\ Priv(s)' = o
    BY <2>1
  <2> QED
    BY <2>2 DEF Clearing
<1> QED
  BY <1>1, <1>2

\* Start, retry and release of connections do not touch the rest of invoke, and of the
\* staged updates they write at most one, which kcalloc clears.
LEMMA StartQuiet ==
  ASSUME Inv, NEW s \in Socks,
         Start(s) \/ Free(s) \/ (\E ok \in BOOLEAN : InvokeRetry(s, ok))
  PROVE  /\ UNCHANGED <<params, handed, replies, reader, msgs, requests>>
         /\ \A t \in Socks : pc[t] \in PastTest \/ pc'[t] \in PastTest =>
               pc'[t] = pc[t] /\ Priv(t)' = Priv(t)
         /\ \A o \in PrivStates : pending_update'[o] \in {pending_update[o], NoUpdate}
<1>0. /\ TypeOK /\ SlotOwnership /\ PrivStateOwnership
      /\ pc \in [Socks -> PCs]
      /\ sid \in [Socks -> 0 .. MaxConnections]
      /\ state \in [Slots -> PrivStates \cup {Null}]
      /\ pending_update \in [PrivStates -> StagedUpdates]
  BY TypeFacts
<1>a. \A t \in Socks : pc[t] \in Using => sid[t] \in Slots
  BY <1>0, UsingPriv
<1>1. UNCHANGED <<params, handed, replies, reader, msgs, requests>>
  BY DEF Start, Free, ConnectionStart, ScanSlot, InitPrivState, InitPrivStateFails,
     StartCreate, InvokeRetry, ReleaseFree, ReleaseSend, ReleaseIndex, ReleaseNoConn,
     sockVars, readerVars, historyVars
<1>2. \/ pending_update' = pending_update
      \/ \E p \in PrivStates : pending_update' = [pending_update EXCEPT ![p] = NoUpdate]
  BY DEF Start, Free, ConnectionStart, ScanSlot, InitPrivState, InitPrivStateFails,
     StartCreate, InvokeRetry, ReleaseFree, ReleaseSend, ReleaseIndex, ReleaseNoConn,
     privVars
<1>3. \A t \in Socks \ {s} : pc[t] \in PastTest \/ pc'[t] \in PastTest =>
         pc'[t] = pc[t] /\ Priv(t)' = Priv(t)
  <2>1. ASSUME NEW t \in Socks \ {s}
        PROVE  pc'[t] = pc[t] /\ sid'[t] = sid[t]
    BY <1>0, <2>1
       DEF Start, Free, ConnectionStart, ScanSlot, InitPrivState, InitPrivStateFails,
           StartCreate, InvokeRetry, ReleaseFree, ReleaseSend, ReleaseIndex,
           ReleaseNoConn, Goto, sockVars
  <2>2. \/ state' = state
        \/ pc[s] = "claimed" /\ \E x : state' = [state EXCEPT ![sid[s]] = x]
    BY DEF Start, Free, ConnectionStart, ScanSlot, InitPrivState, InitPrivStateFails,
       StartCreate, InvokeRetry, ReleaseFree, ReleaseSend, ReleaseIndex, ReleaseNoConn,
       Goto, connVars
  <2>3. ASSUME NEW t \in Socks \ {s}, pc[t] \in PastTest
        PROVE  Priv(t)' = Priv(t)
    <3>1. pc[t] \in Using /\ pc[t] \in Owning /\ "claimed" \in Owning
      BY <2>3 DEF PastTest, Using, Owning
    <3>2. sid[t] \in Slots /\ (pc[s] = "claimed" => sid[s] # sid[t])
      BY <3>1, <1>0, <1>a DEF SlotOwnership
    <3> QED
      BY <2>1, <2>2, <3>2, <1>0 DEF Priv
  <2> QED
    BY <2>1, <2>3
<1>4. pc[s] \notin PastTest /\ pc'[s] \notin PastTest
  BY <1>0
     DEF Start, Free, ConnectionStart, ScanSlot, InitPrivState, InitPrivStateFails,
         StartCreate, InvokeRetry, ReleaseFree, ReleaseSend, ReleaseIndex,
         ReleaseNoConn, Goto, PastTest, sockVars
<1> QED
  BY <1>0, <1>1, <1>2, <1>3, <1>4

\* Start and release only lose values.
LEMMA ValueStart ==
  ASSUME Inv, NEW r \in Regs, NEW v \in Values, ValueInv(r, v), NEW s \in Socks,
         Start(s) \/ Free(s) \/ (\E ok \in BOOLEAN : InvokeRetry(s, ok))
  PROVE  ValueInv(r, v)'
<1>1. /\ UNCHANGED <<params, handed, reader, msgs>>
      /\ \A t \in Socks : pc[t] \in PastTest \/ pc'[t] \in PastTest =>
            pc'[t] = pc[t] /\ Priv(t)' = Priv(t)
  BY StartQuiet
<1>2. \A o \in PrivStates : InRegister(o, r, v)' => InRegister(o, r, v)
  <2>1. \A o \in PrivStates : pending_update'[o] \in {pending_update[o], NoUpdate}
    BY StartQuiet
  <2>2. NoUpdate.control_registers[r] # v
    BY DEF NoUpdate, Values
  <2> QED
    BY <2>1, <2>2 DEF InRegister
<1>3. Coming(r, v)' => Coming(r, v)
  BY <1>1 DEF Coming
<1> QED
  BY <1>1, <1>2, <1>3, SocketsQuiet, ValueKept

\* The reader moves a value from its message to a register.
LEMMA ValueRead ==
  ASSUME Inv, ReaderInv, NEW r \in Regs, NEW v \in Values, ValueInv(r, v), [Next]_vars,
         ReadMsg \/ \E i \in Slots : CreateTimeout(i)
  PROVE  ValueInv(r, v)'
<1>1. UNCHANGED <<params, handed, pc, sid, state>>
  BY DEF ReadMsg, CreateTimeout, ReadUpdate, ReadMeasure, StageBadType, StageValue,
     StageFlag, StageMeasureFlag, StageMeasureId, connVars, sockVars, historyVars
<1>2. \A s \in Socks : pc'[s] = pc[s] /\ Priv(s)' = Priv(s)
  BY <1>1 DEF Priv
<1>3. Coming(r, v)' => Coming(r, v)
  BY ReaderStep
<1>4. PICK new : new = reader.priv
  OBVIOUS
<1>5. ASSUME NEW o \in PrivStates, InRegister(o, r, v)'
      PROVE  InRegister(o, r, v) \/ (o = new /\ Coming(r, v) /\ ~Coming(r, v)')
  <2>1. CASE StageValue \/ StageFlag \/ StageMeasureFlag \/ StageMeasureId
    <3>1. \/ InRegister(o, r, v)
          \/ /\ StageValue /\ r = Head(reader.todo) /\ v = reader.id /\ o = reader.priv
             /\ Coming(r, v)
      BY <1>5, <2>1, StageStep
    <3>2. CASE StageValue /\ r = Head(reader.todo) /\ v = reader.id
      <4>1. PICK id : id = reader.id
        OBVIOUS
      <4>2. reader'.id = reader.id
        BY <3>2 DEF StageValue, Inv, TypeOK, ReaderTypeOK
      <4>3. ~Coming(r, reader.id)'
        BY <3>2, ReaderStep
      <4> QED
        BY <3>1, <3>2, <4>2, <4>3, <1>4 DEF Coming
    <3> QED
      BY <3>1, <3>2
  <2>2. CASE UNCHANGED pending_update
    BY <1>5, <2>2 DEF InRegister
  <2> QED
    BY <2>1, <2>2 DEF ReadMsg, ReadUpdate, ReadMeasure, StageBadType, CreateTimeout, privVars
<1> QED
  BY <1>1, <1>2, <1>3, <1>5, SocketsQuiet, ValueKept

\* invoke collects a value from its own private state, hands its collection over, and
\* clears what it handed over before it leaves.
LEMMA ValueInvoke ==
  ASSUME Inv, NEW r \in Regs, NEW v \in Values, ValueInv(r, v), NEW s \in Socks,
         Invoke(s), pc[s] \in PastTest \/ pc'[s] \in PastTest
  PROVE  ValueInv(r, v)'
<1> USE RegsAssumption DEF Values
<1>0. /\ TypeOK /\ SlotOwnership /\ PrivStateOwnership
      /\ pc \in [Socks -> PCs]
      /\ pending_update \in [PrivStates -> StagedUpdates]
      /\ params \in [Socks -> Seq(0 .. MaxMsgs)]
  BY TypeFacts
<1>a. \A t \in Socks : pc[t] \in PastTest => pc[t] \in Using /\ Priv(t) \in PrivStates
  BY <1>0, UsingPriv DEF PastTest, Using, Owning
<1>b. UNCHANGED <<reader, msgs, sid, state>>
  BY DEF Invoke, InvokeRetry, InvokeBegin, InvokeRead, InvokeSet, InvokeMeasure,
     InvokeClearFlags, InvokeClearRegs, connVars, sockVars, readerVars
<1>c. Coming(r, v)' = Coming(r, v) /\ \A t \in Socks : Priv(t)' = Priv(t)
  BY <1>b DEF Coming, Priv
<1>1. CASE InvokeBegin(s)
  <2>1. /\ pc[s] = "open" /\ pc' = [pc EXCEPT ![s] = "read"]
        /\ params' = [params EXCEPT ![s] = <<>>]
        /\ UNCHANGED <<pending_update, handed>>
    BY <1>1 DEF InvokeBegin, Goto, privVars, historyVars
  <2>2. \A t \in Socks : Collected(t, r, v)' => Collected(t, r, v)
    <3>1. ~Collected(s, r, v)'
      BY <2>1, <1>0 DEF Collected
    <3>2. \A t \in Socks \ {s} : pc'[t] = pc[t] /\ params'[t] = params[t]
      BY <2>1, <1>0
    <3> QED
      BY <3>1, <3>2 DEF Collected
  <2>3. \A o : Clearing(o) => Clearing(o)'
    BY <2>1, <1>0, <1>c DEF Clearing, PastTest
  <2>4. \A o \in PrivStates : InRegister(o, r, v)' => InRegister(o, r, v)
    BY <2>1 DEF InRegister
  <2> QED
    BY <2>1, <2>2, <2>3, <2>4, <1>c, ValueKept
<1>2. CASE InvokeRead(s)
  <2> DEFINE n == NextReg(s)
  <2>1. /\ pc[s] = "read" /\ UNCHANGED <<pc, pending_update, handed>>
        /\ n \in Regs /\ n = Len(params[s]) + 1
        /\ params' = [params EXCEPT ![s] =
              Append(@, pending_update[Priv(s)].control_registers[n])]
    BY <1>2 DEF InvokeRead, NextIsPending, NextReg, privVars, historyVars
  <2> HIDE DEF n
  <2>2. \A o \in PrivStates : InRegister(o, r, v)' <=> InRegister(o, r, v)
    BY <2>1 DEF InRegister
  <2>3. \A o : Clearing(o)' <=> Clearing(o)
    BY <2>1, <1>c DEF Clearing
  <2>4. \A t \in Socks \ {s} : Collected(t, r, v)' <=> Collected(t, r, v)
    BY <2>1, <1>0 DEF Collected
  <2>5. Collected(s, r, v)' => Collected(s, r, v) \/ InRegister(Priv(s), r, v)
    <3>1. params[s] \in Seq(0 .. MaxMsgs)
      BY <1>0
    <3>2. params'[s] = Append(params[s], pending_update[Priv(s)].control_registers[n])
      BY <2>1, <1>0
    <3>3. \A k \in DOMAIN params'[s] :
             \/ k \in DOMAIN params[s] /\ params'[s][k] = params[s][k]
             \/ k = n /\ params'[s][k] = pending_update[Priv(s)].control_registers[n]
      BY <2>1, <3>1, <3>2, AppendProperties
    <3> QED
      BY <2>1, <3>3 DEF Collected, InRegister
  <2>6. InRegister(Priv(s), r, v) =>
           /\ ~Coming(r, v) /\ <<r, v>> \notin handed
           /\ \A t \in Socks : Collected(t, r, v) => t = s
           /\ \A o \in PrivStates : InRegister(o, r, v) => o = Priv(s)
    <3>1. Priv(s) \in PrivStates
      BY <2>1, <1>a DEF PastTest
    <3>2. ~Clearing(Priv(s))
      <4>1. \A t \in Socks : pc[t] \in PastTest \ {"read"} => t # s /\ pc[t] \in Using
        BY <2>1, <1>a
      <4>2. pc[s] \in Using
        BY <2>1 DEF Using, Owning
      <4> QED
        BY <4>1, <4>2, <1>0 DEF Clearing, PrivStateOwnership
    <3>3. \A t \in Socks : Collected(t, r, v) /\ Priv(t) = Priv(s) => t = s
      <4>1. pc[s] \in Using /\ \A t \in Socks : Collected(t, r, v) => pc[t] \in Using
        BY <2>1 DEF Using, Owning, Collected
      <4> QED
        BY <4>1, <1>0 DEF PrivStateOwnership
    <3> QED
      BY <3>1, <3>2, <3>3 DEF ValueInv
  <2>7. handed' = handed
    BY <2>1
  <2> QED
    BY <2>2, <2>3, <2>4, <2>5, <2>6, <2>7, <1>c DEF ValueInv
<1>3. CASE InvokeSet(s)
  <2>1. /\ pc[s] = "read" /\ pc' = [pc EXCEPT ![s] = "measure"]
        /\ handed' = handed \cup {<<k, params[s][k]>> : k \in DOMAIN params[s]}
        /\ UNCHANGED <<pending_update, params>>
    BY <1>3 DEF InvokeSet, Goto, sockVars, privVars
  <2>2. <<r, v>> \in handed' <=> <<r, v>> \in handed \/ Collected(s, r, v)
    BY <2>1 DEF Collected
  <2>3. ~Collected(s, r, v)' /\ \A t \in Socks \ {s} : Collected(t, r, v)' <=> Collected(t, r, v)
    BY <2>1, <1>0 DEF Collected
  <2>4. /\ Clearing(Priv(s))'
        /\ \A o : Clearing(o) => Clearing(o)'
    <3>1. pc'[s] \in PastTest \ {"read"}
      BY <2>1, <1>0 DEF PastTest
    <3>2. \A t \in Socks : pc[t] \in PastTest \ {"read"} => pc'[t] \in PastTest \ {"read"}
      BY <2>1, <1>0, <3>1
    <3> QED
      BY <3>1, <3>2, <1>c DEF Clearing
  <2>5. \A o \in PrivStates : InRegister(o, r, v)' <=> InRegister(o, r, v)
    BY <2>1 DEF InRegister
  <2> QED
    BY <2>2, <2>3, <2>4, <2>5, <1>c DEF ValueInv
<1>4. CASE \E ok \in BOOLEAN : InvokeMeasure(s, ok)
  <2>1. /\ pc[s] = "measure" /\ pc' = [pc EXCEPT ![s] = "clear_flags"]
        /\ pending_update' = [pending_update EXCEPT ![Priv(s)].measure_is_pending = FALSE]
        /\ params' = [params EXCEPT ![s] = <<>>] /\ handed' = handed
    BY <1>4 DEF InvokeMeasure, AfterReply, Goto
  <2>2. \A t \in Socks : Collected(t, r, v)' => Collected(t, r, v)
    BY <2>1, <1>0 DEF Collected
  <2>3. \A o : Clearing(o) => Clearing(o)'
    <3>1. \A t \in Socks : pc[t] \in PastTest \ {"read"} => pc'[t] \in PastTest \ {"read"}
      BY <2>1, <1>0 DEF PastTest
    <3> QED
      BY <3>1, <1>c DEF Clearing
  <2>4. \A o \in PrivStates : InRegister(o, r, v)' => InRegister(o, r, v)
    BY <2>1, <1>0 DEF InRegister, StagedUpdates
  <2> QED
    BY <2>1, <2>2, <2>3, <2>4, <1>c, ValueKept
<1>5. CASE InvokeClearFlags(s)
  <2>1. /\ pc[s] = "clear_flags" /\ pc' = [pc EXCEPT ![s] = "clear_regs"]
        /\ pending_update' = [pending_update EXCEPT ![Priv(s)].control_is_pending =
                                  NoUpdate.control_is_pending]
        /\ UNCHANGED <<params, handed>>
    BY <1>5 DEF InvokeClearFlags, Goto, historyVars
  <2>2. \A t \in Socks : Collected(t, r, v)' => Collected(t, r, v)
    BY <2>1, <1>0 DEF Collected
  <2>3. \A o : Clearing(o) => Clearing(o)'
    <3>1. \A t \in Socks : pc[t] \in PastTest \ {"read"} => pc'[t] \in PastTest \ {"read"}
      BY <2>1, <1>0 DEF PastTest
    <3> QED
      BY <3>1, <1>c DEF Clearing
  <2>4. \A o \in PrivStates : InRegister(o, r, v)' => InRegister(o, r, v)
    BY <2>1, <1>0 DEF InRegister, StagedUpdates
  <2> QED
    BY <2>1, <2>2, <2>3, <2>4, <1>c, ValueKept
<1>6. CASE InvokeClearRegs(s)
  <2>1. /\ pc[s] = "clear_regs" /\ pc' = [pc EXCEPT ![s] = "open"]
        /\ \E f : pending_update' = [pending_update EXCEPT ![Priv(s)] =
              [NoUpdate EXCEPT !.control_is_pending = f,
                               !.control_registers = NoUpdate.control_registers]]
        /\ UNCHANGED <<params, handed>>
    BY <1>6 DEF InvokeClearRegs, ClearedRegisters, Goto, historyVars
  <2>2. \A t \in Socks : Collected(t, r, v)' => Collected(t, r, v)
    BY <2>1, <1>0 DEF Collected
  <2>3. \A o \in PrivStates : InRegister(o, r, v)' => InRegister(o, r, v) /\ o # Priv(s)
    <3>1. NoUpdate.control_registers[r] = 0
      BY DEF NoUpdate
    <3>2. \A f : [NoUpdate EXCEPT !.control_is_pending = f,
                     !.control_registers = NoUpdate.control_registers].control_registers
                 = NoUpdate.control_registers
      BY DEF NoUpdate
    <3> QED
      BY <2>1, <3>1, <3>2, <1>0 DEF InRegister
  <2>4. ASSUME NEW o \in PrivStates, InRegister(o, r, v)', Clearing(o)
        PROVE  Clearing(o)'
    <3>1. PICK t \in Socks : pc[t] \in PastTest \ {"read"} /\ Priv(t) = o
      BY <2>4 DEF Clearing
    <3>2. t # s /\ pc'[t] = pc[t]
      BY <2>1, <2>3, <2>4, <3>1, <1>0
    <3> QED
      BY <3>1, <3>2, <1>c DEF Clearing
  <2> QED
    BY <2>1, <2>2, <2>3, <2>4, <1>c, ValueKept
<1> QED
  BY <1>1, <1>2, <1>3, <1>4, <1>5, <1>6, <1>0
     DEF Invoke, InvokeRetry, sockVars, PastTest

\* Every step moves values forward only.
LEMMA StagingStep ==
  ASSUME Inv, StagingInv, [Next]_vars
  PROVE  StagingInv'
<1>1. ReaderInv /\ ReaderInv'
  BY ReaderStep DEF StagingInv
<1>2. ASSUME NEW r \in Regs, NEW v \in Values
      PROVE  ValueInv(r, v)'
  <2>0. Coming(r, v)' => Coming(r, v)
    BY <1>1, ReaderStep DEF StagingInv
  <2>1. CASE ReadMsg \/ \E i \in Slots : CreateTimeout(i)
    BY <2>0, <2>1, <1>1, ValueRead DEF StagingInv
  <2>2. ASSUME NEW s \in Socks, Start(s) \/ Invoke(s) \/ Free(s)
        PROVE  ValueInv(r, v)'
    <3>1. CASE Invoke(s) /\ (pc[s] \in PastTest \/ pc'[s] \in PastTest)
      BY <3>1, ValueInvoke DEF StagingInv
    <3>2. CASE Invoke(s) /\ pc[s] \notin PastTest /\ pc'[s] \notin PastTest
      <4>1. \E ok \in BOOLEAN : InvokeRetry(s, ok)
        BY <3>2, TypeFacts
           DEF Invoke, InvokeBegin, InvokeRead, InvokeSet, InvokeMeasure,
               InvokeClearFlags, InvokeClearRegs, Goto, PastTest
      <4> QED
        BY <4>1, ValueStart DEF StagingInv
    <3>3. CASE Start(s) \/ Free(s)
      BY <3>3, ValueStart DEF StagingInv
    <3> QED
      BY <2>2, <3>1, <3>2, <3>3
  <2>3. CASE UNCHANGED vars
    <3>1. UNCHANGED <<params, handed, pc, sid, state, pending_update, reader, msgs>>
      BY <2>3 DEF vars, connVars, privVars, sockVars, readerVars, historyVars
    <3>2. /\ \A s \in Socks : pc'[s] = pc[s] /\ Priv(s)' = Priv(s)
          /\ \A o \in PrivStates : InRegister(o, r, v)' => InRegister(o, r, v)
          /\ ValueInv(r, v)
      BY <3>1 DEF Priv, InRegister, StagingInv
    <3> QED
      BY <2>0, <3>1, <3>2, SocketsQuiet, ValueKept
  <2> QED
    BY <2>1, <2>2, <2>3 DEF Next
<1> QED
  BY <1>1, <1>2 DEF StagingInv

\* Where staged values may be, in every reachable state.
THEOREM StagingInvHolds == Spec => []StagingInv
<1>1. Init => StagingInv
  <2>1. ASSUME Init
        PROVE  ReaderInv
    BY <2>1 DEF Init, ReaderInv, Idle
  <2>2. ASSUME Init, NEW r \in Regs, NEW v \in Values
        PROVE  ValueInv(r, v)
    <3>1. \A o \in PrivStates : ~InRegister(o, r, v)
      BY <2>2, RegsAssumption DEF Init, InRegister, NoUpdate, Values
    <3> QED
      BY <2>2, <3>1 DEF Init, ValueInv, Collected
  <2> QED
    BY <2>1, <2>2 DEF StagingInv
<1>2. Inv /\ StagingInv /\ [Next]_vars => StagingInv'
  BY StagingStep
<1> QED
  BY <1>1, <1>2, InvHolds, PTL DEF Spec

\* A value staged by the reader is given to set_params at most once, wherever the
\* reader's stores fall between invoke's reads and its memset.
THEOREM HandedOnce == Spec => HandedOverOnce
<1>1. Inv /\ StagingInv /\ [Next]_vars =>
         \A s \in Socks : pc[s] = "read" /\ pc'[s] = "measure" =>
            \A r \in DOMAIN params[s] :
               params[s][r] # 0 => <<r, params[s][r]>> \notin handed
  <2> SUFFICES ASSUME Inv, StagingInv, NEW s \in Socks, pc[s] = "read",
                      NEW r \in DOMAIN params[s], params[s][r] # 0
               PROVE  <<r, params[s][r]>> \notin handed
    OBVIOUS
  <2>1. params[s] \in Seq(0 .. MaxMsgs) /\ Len(params[s]) <= NumRegs
    BY DEF Inv, TypeOK, SockTypeOK
  <2>2. r \in Regs /\ params[s][r] \in Values
    BY <2>1, RegsAssumption DEF Values
  <2>3. Collected(s, r, params[s][r])
    BY DEF Collected
  <2> QED
    BY <2>2, <2>3 DEF StagingInv, ValueInv
<1> QED
  BY <1>1, InvHolds, StagingInvHolds, PTL DEF Spec, HandedOverOnce

-----------------------------------------------------------------------------
(* Measurement requests.  An id is asked by the reader, lies in a private     *)
(* state, is answered, or is lost.                                            *)

\* The reader has yet to store request id v.
Asked(v) == v > msgs \/ (reader.id = v /\ reader.pc \in {"measure_flag", "measure_id"})
Answered(v) == \E k \in DOMAIN replies : replies[k] = v
HasId(o, v) == pending_update[o].measure_registers = v

\* The user of o has replied and not yet cleared the request's id.
Replied(o) ==
    \E s \in Socks : pc[s] \in {"clear_flags", "clear_regs"} /\ Priv(s) = o

\* An id that is asked is nowhere else, lies in one private state at most, and once
\* answered only in one that is being cleared; no two answers carry it.
IdInv(v) ==
    /\ Asked(v) => ~Answered(v) /\ \A o \in PrivStates : ~HasId(o, v)
    /\ \A o, p \in PrivStates : HasId(o, v) /\ HasId(p, v) => o = p
    /\ \A o \in PrivStates : Answered(v) /\ HasId(o, v) => Replied(o)
    /\ \A j, k \in DOMAIN replies : replies[j] = v /\ replies[k] = v => j = k

\* Private states with a raised flag, and the flag the reader is about to raise
Waiting == {o \in PrivStates : pending_update[o].measure_is_pending}
Unraised == IF reader.pc = "measure_flag" THEN 1 ELSE 0

\* Every request raises one flag, and every reply takes one down.
CountInv ==
    /\ IsFiniteSet(Waiting)
    /\ Len(replies) + Cardinality(Waiting) + Unraised <= requests

ReplyInv == CountInv /\ \A v \in Values : IdInv(v)

\* A step that answers nothing and only loses ids, or stores one that was asked.
LEMMA IdKept ==
  ASSUME NEW v, IdInv(v), NEW new, Asked(v)' => Asked(v), replies' = replies,
         \A o \in PrivStates : HasId(o, v)' =>
            HasId(o, v) \/ (o = new /\ Asked(v) /\ ~Asked(v)'),
         \A o \in PrivStates : HasId(o, v)' /\ Replied(o) => Replied(o)'
  PROVE  IdInv(v)'
  BY DEF IdInv, Answered

\* The reader asks for each id once.
LEMMA AskedStep ==
  ASSUME Inv, ReaderInv, [Next]_vars, NEW v \in Values
  PROVE  Asked(v)' => Asked(v)
<1> USE RegsAssumption DEF Values
<1>0. /\ reader \in [pc : {"idle", "value", "flag", "measure_flag", "measure_id"},
                     priv : PrivStates \cup {Null},
                     todo : Seq(Regs \cup {BadType}),
                     id : 0 .. MaxMsgs]
      /\ msgs \in 0 .. MaxMsgs
  BY DEF Inv, TypeOK, ReaderTypeOK
<1>1. ASSUME NEW i \in Slots,
             ReadMeasure(i) \/ \E fields \in FieldLists : ReadUpdate(i, fields)
      PROVE  Asked(v)' => Asked(v)
  <2>1. reader'.id = msgs + 1 /\ msgs' = msgs + 1
    BY <1>1 DEF ReadMeasure, ReadUpdate, Lookup
  <2> QED
    BY <2>1, <1>0 DEF Asked
<1>2. CASE UNCHANGED <<reader, msgs>>
  BY <1>2 DEF Asked
<1>3. CASE StageBadType \/ StageValue \/ StageFlag \/ StageMeasureFlag \/ StageMeasureId
  <2>1. msgs' = msgs
    BY <1>3 DEF StageBadType, StageValue, StageFlag, StageMeasureFlag, StageMeasureId
  <2>2. CASE reader' = Idle
    BY <2>1, <2>2, <1>0 DEF Asked, Idle
  <2>3. CASE StageMeasureFlag
    BY <2>1, <2>3, <1>0 DEF Asked, StageMeasureFlag
  <2>4. CASE (StageValue \/ StageFlag) /\ reader' # Idle
    <3>1. reader'.pc \in {"value", "flag"}
      BY <2>4, <1>0 DEF StageValue, StageFlag
    <3> QED
      BY <2>1, <3>1 DEF Asked
  <2> QED
    BY <1>3, <2>2, <2>3, <2>4 DEF StageBadType, StageMeasureId
<1> QED
  BY <1>1, <1>2, <1>3
     DEF Next, Start, Invoke, Free, ReadMsg, vars, readerVars, ConnectionStart, ScanSlot,
         InitPrivState, InitPrivStateFails, StartCreate, InvokeRetry, InvokeBegin,
         InvokeRead, InvokeSet, InvokeMeasure, InvokeClearFlags, InvokeClearRegs,
         ReleaseFree, ReleaseSend, ReleaseIndex, ReleaseNoConn, CreateTimeout

\* ... and stores it once.
LEMMA StoredId ==
  ASSUME Inv, ReaderInv, StageMeasureId
  PROVE  /\ reader.id \in Values /\ Asked(reader.id)
         /\ \A v \in Values : v = reader.id => ~Asked(v)'
  BY DEF Inv, TypeOK, ReaderTypeOK, ReaderInv, StageMeasureId, Asked, Idle, Values

\* The ids a step of the reader leaves: those it found, and the one it writes.
LEMMA StageIdStep ==
  ASSUME Inv, NEW v \in Values, NEW o \in PrivStates,
         StageValue \/ StageFlag \/ StageMeasureFlag \/ StageMeasureId, HasId(o, v)'
  PROVE  HasId(o, v) \/ (StageMeasureId /\ v = reader.id /\ o = reader.priv)
<1> USE RegsAssumption, NullAssumption DEF Values
<1>0. /\ reader.priv \in PrivStates \cup {Null}
      /\ pending_update \in [PrivStates -> StagedUpdates]
  BY DEF Inv, TypeOK, ReaderTypeOK, PrivTypeOK
<1>1. CASE o # reader.priv
  <2>1. \A u : Store(u) => pending_update'[o] = pending_update[o]
    BY <1>0, <1>1 DEF Store
  <2> QED
    BY <2>1 DEF HasId, StageValue, StageFlag, StageMeasureFlag, StageMeasureId
<1>2. CASE o = reader.priv
  <2>1. Staged \in StagedUpdates /\ Staged = pending_update[o]
    BY <1>0, <1>2 DEF Staged
  <2>2. \A u : Store(u) => pending_update'[o] = u
    BY <1>0, <1>2 DEF Store
  <2>3. CASE StageMeasureId
    <3>1. pending_update'[o] = [Staged EXCEPT !.measure_registers = reader.id]
      BY <2>2, <2>3 DEF StageMeasureId
    <3> QED
      BY <1>2, <2>1, <2>3, <3>1 DEF HasId, StagedUpdates
  <2>4. CASE StageMeasureFlag
    <3>1. pending_update'[o] = [Staged EXCEPT !.measure_is_pending = TRUE]
      BY <2>2, <2>4 DEF StageMeasureFlag
    <3> QED
      BY <2>1, <3>1 DEF HasId, StagedUpdates
  <2>5. CASE StageValue \/ StageFlag
    <3>1. \/ pending_update'[o] = [Staged EXCEPT !.control_registers[Head(reader.todo)] = reader.id]
          \/ pending_update'[o] = [Staged EXCEPT !.control_is_pending[Head(reader.todo)] = TRUE]
      BY <2>2, <2>5 DEF StageValue, StageFlag
    <3> QED
      BY <2>1, <3>1 DEF HasId, StagedUpdates
  <2> QED
    BY <2>3, <2>4, <2>5
<1> QED
  BY <1>1, <1>2

\* A socket's place relative to the memset changes only in invoke.
LEMMA RepliedKept ==
  ASSUME \A s \in Socks : pc[s] \in PastTest =>
            (pc[s] \in {"clear_flags", "clear_regs"} =>
                pc'[s] \in {"clear_flags", "clear_regs"}) /\ Priv(s)' = Priv(s)
  PROVE  \A o : Replied(o) => Replied(o)'
<1> SUFFICES ASSUME NEW o, Replied(o)
             PROVE  Replied(o)'
  OBVIOUS
<1>1. PICK s \in Socks : pc[s] \in {"clear_flags", "clear_regs"} /\ Priv(s) = o
  BY DEF Replied
<1>2. pc'[s] \in {"clear_flags", "clear_regs"} /\ Priv(s)' = o
  BY <1>1 DEF PastTest
<1> QED
  BY <1>2 DEF Replied

\* invoke answers the request it finds, and clears its id before it leaves.
LEMMA IdInvoke ==
  ASSUME Inv, NEW v \in Values, IdInv(v), NEW s \in Socks, Invoke(s),
         pc[s] \in PastTest \/ pc'[s] \in PastTest
  PROVE  IdInv(v)'
<1> USE DEF Values
<1>0. /\ TypeOK /\ SlotOwnership /\ PrivStateOwnership
      /\ pc \in [Socks -> PCs]
      /\ pending_update \in [PrivStates -> StagedUpdates]
      /\ replies \in Seq(0 .. MaxMsgs)
  BY TypeFacts DEF TypeOK, HistoryTypeOK
<1>a. \A t \in Socks : pc[t] \in PastTest => pc[t] \in Using /\ Priv(t) \in PrivStates
  BY <1>0, UsingPriv DEF PastTest, Using, Owning
<1>b. UNCHANGED <<reader, msgs, sid, state>>
  BY DEF Invoke, InvokeRetry, InvokeBegin, InvokeRead, InvokeSet, InvokeMeasure,
     InvokeClearFlags, InvokeClearRegs, connVars, sockVars, readerVars
<1>c. Asked(v)' = Asked(v) /\ \A t \in Socks : Priv(t)' = Priv(t)
  BY <1>b DEF Asked, Priv
<1>1. CASE InvokeBegin(s) \/ InvokeRead(s) \/ InvokeSet(s)
  <2>1. UNCHANGED <<pending_update, replies>>
    BY <1>1 DEF InvokeBegin, InvokeRead, InvokeSet, privVars, historyVars
  <2>2. \A t \in Socks : pc[t] \in {"clear_flags", "clear_regs"} => pc'[t] = pc[t]
    BY <1>1, <1>0 DEF InvokeBegin, InvokeRead, InvokeSet, Goto
  <2> QED
    BY <2>1, <2>2, <1>c, RepliedKept, IdKept DEF HasId
<1>2. ASSUME NEW ok \in BOOLEAN, InvokeMeasure(s, ok)
      PROVE  IdInv(v)'
  <2>1. /\ pc[s] = "measure" /\ pc' = [pc EXCEPT ![s] = "clear_flags"]
        /\ pending_update' = [pending_update EXCEPT ![Priv(s)].measure_is_pending = FALSE]
        /\ \/ replies' = replies
           \/ replies' = Append(replies, pending_update[Priv(s)].measure_registers)
    BY <1>2 DEF InvokeMeasure, AfterReply, Goto
  <2>2. Priv(s) \in PrivStates /\ pc[s] \in Using
    BY <2>1, <1>a DEF PastTest
  <2>3. \A o \in PrivStates : HasId(o, v)' <=> HasId(o, v)
    BY <2>1, <1>0 DEF HasId, StagedUpdates
  <2>4. Replied(Priv(s))' /\ \A o : Replied(o) => Replied(o)'
    BY <2>1, <1>0, <1>c DEF Replied
  <2>5. CASE replies' = replies \/ ~HasId(Priv(s), v)
    <3>1. \A k \in DOMAIN replies' : replies'[k] = v => k \in DOMAIN replies /\ replies[k] = v
      BY <2>1, <2>5, <1>0 DEF HasId
    <3>2. Answered(v)' => Answered(v)
      BY <3>1 DEF Answered
    <3> QED
      BY <3>1, <3>2, <2>3, <2>4, <1>c DEF IdInv
  <2>6. CASE HasId(Priv(s), v) /\ replies' = Append(replies, v)
    <3>1. ~Replied(Priv(s))
      BY <2>1, <2>2, <1>0, <1>a DEF Replied, PrivStateOwnership, PastTest
    <3>2. ~Answered(v) /\ ~Asked(v) /\ \A o \in PrivStates : HasId(o, v) => o = Priv(s)
      BY <2>2, <2>6, <3>1 DEF IdInv
    <3>3. \A k \in DOMAIN replies' : replies'[k] = v => k = Len(replies) + 1
      BY <2>6, <3>2, <1>0 DEF Answered
    <3> QED
      BY <3>2, <3>3, <2>3, <2>4, <1>c DEF IdInv
  <2> QED
    BY <2>1, <2>5, <2>6 DEF HasId
<1>3. CASE InvokeClearFlags(s)
  <2>1. /\ pc[s] = "clear_flags" /\ pc' = [pc EXCEPT ![s] = "clear_regs"]
        /\ pending_update' = [pending_update EXCEPT ![Priv(s)].control_is_pending =
                                  NoUpdate.control_is_pending]
        /\ replies' = replies
    BY <1>3 DEF InvokeClearFlags, Goto, historyVars
  <2>2. \A t \in Socks : pc[t] \in {"clear_flags", "clear_regs"} =>
           pc'[t] \in {"clear_flags", "clear_regs"}
    BY <2>1, <1>0
  <2>3. \A o \in PrivStates : HasId(o, v)' => HasId(o, v)
    BY <2>1, <1>0 DEF HasId, StagedUpdates
  <2> QED
    BY <2>1, <2>2, <2>3, <1>c, RepliedKept, IdKept
<1>4. CASE InvokeClearRegs(s)
  <2>1. /\ pc[s] = "clear_regs" /\ pc' = [pc EXCEPT ![s] = "open"] /\ replies' = replies
        /\ \E f : pending_update' = [pending_update EXCEPT ![Priv(s)] =
              [NoUpdate EXCEPT !.control_is_pending = f,
                               !.control_registers = NoUpdate.control_registers]]
    BY <1>4 DEF InvokeClearRegs, ClearedRegisters, Goto, historyVars
  <2>2. \A o \in PrivStates : HasId(o, v)' => HasId(o, v) /\ o # Priv(s)
    <3>1. \A f : [NoUpdate EXCEPT !.control_is_pending = f,
                     !.control_registers = NoUpdate.control_registers].measure_registers = 0
      BY DEF NoUpdate
    <3> QED
      BY <2>1, <3>1, <1>0 DEF HasId
  <2>3. ASSUME NEW o \in PrivStates, HasId(o, v)', Replied(o)
        PROVE  Replied(o)'
    <3>1. PICK t \in Socks : pc[t] \in {"clear_flags", "clear_regs"} /\ Priv(t) = o
      BY <2>3 DEF Replied
    <3>2. t # s /\ pc'[t] = pc[t]
      BY <2>1, <2>2, <2>3, <3>1, <1>0
    <3> QED
      BY <3>1, <3>2, <1>c DEF Replied
  <2> QED
    BY <2>1, <2>2, <2>3, <1>c, IdKept
<1> QED
  BY <1>1, <1>2, <1>3, <1>4, <1>0 DEF Invoke, InvokeRetry, sockVars, PastTest

\* Every step moves request ids forward only.
LEMMA IdStep ==
  ASSUME Inv, ReaderInv, NEW v \in Values, IdInv(v), [Next]_vars
  PROVE  IdInv(v)'
<1>0. Asked(v)' => Asked(v)
  BY AskedStep
<1>1. ASSUME NEW s \in Socks,
             Start(s) \/ Free(s) \/ (\E ok \in BOOLEAN : InvokeRetry(s, ok))
      PROVE  IdInv(v)'
  <2>1. /\ replies' = replies
        /\ \A t \in Socks : pc[t] \in PastTest \/ pc'[t] \in PastTest =>
              pc'[t] = pc[t] /\ Priv(t)' = Priv(t)
        /\ \A o \in PrivStates : pending_update'[o] \in {pending_update[o], NoUpdate}
    BY <1>1, StartQuiet
  <2>2. \A o \in PrivStates : HasId(o, v)' => HasId(o, v)
    BY <2>1 DEF HasId, NoUpdate, Values
  <2> QED
    BY <2>1, <2>2, <1>0, RepliedKept, IdKept
<1>2. ASSUME NEW s \in Socks, Invoke(s)
      PROVE  IdInv(v)'
  <2>1. CASE pc[s] \in PastTest \/ pc'[s] \in PastTest
    BY <1>2, <2>1, IdInvoke
  <2>2. CASE pc[s] \notin PastTest /\ pc'[s] \notin PastTest
    <3>1. \E ok \in BOOLEAN : InvokeRetry(s, ok)
      BY <1>2, <2>2, TypeFacts
         DEF Invoke, InvokeBegin, InvokeRead, InvokeSet, InvokeMeasure,
             InvokeClearFlags, InvokeClearRegs, Goto, PastTest
    <3> QED
      BY <3>1, <1>1
  <2> QED
    BY <2>1, <2>2
<1>3. ASSUME UNCHANGED <<pc, sid, state, replies>>, NEW new,
             \A o \in PrivStates : HasId(o, v)' =>
                HasId(o, v) \/ (o = new /\ Asked(v) /\ ~Asked(v)')
      PROVE  IdInv(v)'
  <2>1. \A t \in Socks : pc'[t] = pc[t] /\ Priv(t)' = Priv(t)
    BY <1>3 DEF Priv
  <2> QED
    BY <2>1, <1>0, <1>3, RepliedKept, IdKept
<1>4. CASE StageValue \/ StageFlag \/ StageMeasureFlag \/ StageMeasureId
  <2>1. PICK new : new = reader.priv
    OBVIOUS
  <2>2. UNCHANGED <<pc, sid, state, replies>>
    BY <1>4 DEF StageValue, StageFlag, StageMeasureFlag, StageMeasureId, connVars,
       sockVars, historyVars
  <2>3. ASSUME NEW o \in PrivStates, HasId(o, v)'
        PROVE  HasId(o, v) \/ (o = new /\ Asked(v) /\ ~Asked(v)')
    BY <1>4, <2>1, <2>3, StageIdStep, StoredId
  <2> QED
    BY <2>2, <2>3, <1>3
<1>5. CASE UNCHANGED <<pc, sid, state, replies, pending_update>>
  <2>1. \A o \in PrivStates : HasId(o, v)' => HasId(o, v)
    BY <1>5 DEF HasId
  <2> QED
    BY <2>1, <1>3, <1>5
<1> QED
  BY <1>1, <1>2, <1>4, <1>5
     DEF Next, ReadMsg, vars, connVars, privVars, sockVars, historyVars, ReadUpdate,
         ReadMeasure, StageBadType, CreateTimeout

\* A step that raises no flag and answers nothing.
LEMMA CountKept ==
  ASSUME Inv, CountInv, replies' = replies, Waiting' \subseteq Waiting,
         Unraised' + requests <= Unraised + requests', requests' \in Nat
  PROVE  CountInv'
<1>1. /\ IsFiniteSet(Waiting') /\ Cardinality(Waiting') <= Cardinality(Waiting)
      /\ Cardinality(Waiting') \in Nat /\ Cardinality(Waiting) \in Nat
  BY FS_Subset, FS_CardinalityType DEF CountInv
<1>2. Len(replies) \in Nat /\ requests \in Nat /\ Unraised \in Nat /\ Unraised' \in Nat
  BY DEF Inv, TypeOK, HistoryTypeOK, ReaderTypeOK, Unraised
<1>3. Len(replies) + Cardinality(Waiting) + Unraised <= requests
  BY DEF CountInv
<1>4. \A n, c, d, u, v, q, r \in Nat :
         n + c + u <= q /\ d <= c /\ v + q <= u + r => n + d + v <= r
  OBVIOUS
<1>5. Len(replies) + Cardinality(Waiting') + Unraised' <= requests'
  BY <1>1, <1>2, <1>3, <1>4
<1> QED
  BY <1>1, <1>5 DEF CountInv

\* Every step keeps the account of flags and replies.
LEMMA CountStep ==
  ASSUME Inv, CountInv, [Next]_vars
  PROVE  CountInv'
<1> USE RegsAssumption, NullAssumption
<1>0. /\ TypeOK /\ SlotOwnership /\ PrivStateOwnership
      /\ pending_update \in [PrivStates -> StagedUpdates]
      /\ replies \in Seq(0 .. MaxMsgs)
      /\ reader.priv \in PrivStates \cup {Null}
      /\ requests \in Nat
      /\ Unraised \in {0, 1}
  BY TypeFacts DEF TypeOK, HistoryTypeOK, ReaderTypeOK, Unraised
\* Neither the reader's flag nor the requests change.
<1>a. ASSUME UNCHANGED <<replies, requests>>, Unraised' <= Unraised, Unraised' \in {0, 1},
             \A o \in PrivStates :
                pending_update'[o].measure_is_pending => pending_update[o].measure_is_pending
      PROVE  CountInv'
  <2>1. Waiting' \subseteq Waiting
    BY <1>a DEF Waiting
  <2>2. /\ replies' = replies /\ requests' \in Nat
        /\ Unraised' + requests <= Unraised + requests'
    <3>1. PICK u \in {0, 1}, v \in {0, 1}, r \in Nat :
             u = Unraised /\ v = Unraised' /\ r = requests
      BY <1>a, <1>0, Zenon
    <3>2. v <= u /\ requests' = r
      BY <1>a, <3>1
    <3>3. v + r <= u + r
      BY <3>2
    <3> QED
      BY <1>a, <3>1, <3>2, <3>3
  <2> QED
    BY <2>1, <2>2, CountKept
<1>1. ASSUME NEW s \in Socks,
             Start(s) \/ Free(s) \/ (\E ok \in BOOLEAN : InvokeRetry(s, ok))
      PROVE  CountInv'
  <2>1. /\ UNCHANGED <<replies, requests, reader>>
        /\ \A o \in PrivStates : pending_update'[o] \in {pending_update[o], NoUpdate}
    BY <1>1, StartQuiet
  <2> QED
    BY <2>1, <1>0, <1>a DEF Unraised, NoUpdate
<1>2. ASSUME NEW s \in Socks,
             InvokeBegin(s) \/ InvokeRead(s) \/ InvokeSet(s) \/ InvokeClearFlags(s)
             \/ InvokeClearRegs(s)
      PROVE  CountInv'
  <2>1. UNCHANGED <<replies, requests, reader>>
    BY <1>2 DEF InvokeBegin, InvokeRead, InvokeSet, InvokeClearFlags, InvokeClearRegs,
       readerVars, historyVars
  <2>2. CASE UNCHANGED pending_update
    BY <2>1, <2>2, <1>0, <1>a DEF Unraised
  <2>3. CASE InvokeClearFlags(s)
    <3>1. pending_update' = [pending_update EXCEPT ![Priv(s)].control_is_pending =
                                 NoUpdate.control_is_pending]
      BY <2>3 DEF InvokeClearFlags
    <3>2. \A o \in PrivStates :
             pending_update'[o].measure_is_pending = pending_update[o].measure_is_pending
      BY <3>1, <1>0 DEF StagedUpdates
    <3> QED
      BY <2>1, <3>2, <1>0, <1>a DEF Unraised
  <2>4. CASE InvokeClearRegs(s)
    <3>1. PICK f : pending_update' = [pending_update EXCEPT ![Priv(s)] =
              [NoUpdate EXCEPT !.control_is_pending = f,
                               !.control_registers = NoUpdate.control_registers]]
      BY <2>4 DEF InvokeClearRegs, ClearedRegisters
    <3>2. ~[NoUpdate EXCEPT !.control_is_pending = f,
               !.control_registers = NoUpdate.control_registers].measure_is_pending
      BY DEF NoUpdate
    <3>3. \A o \in PrivStates :
             pending_update'[o].measure_is_pending => pending_update[o].measure_is_pending
      BY <3>1, <3>2, <1>0
    <3> QED
      BY <2>1, <3>3, <1>0, <1>a DEF Unraised
  <2> QED
    BY <1>2, <2>2, <2>3, <2>4 DEF InvokeBegin, InvokeRead, InvokeSet, privVars
<1>3. ASSUME NEW s \in Socks, NEW ok \in BOOLEAN, InvokeMeasure(s, ok)
      PROVE  CountInv'
  <2> DEFINE u == pending_update[Priv(s)]
  <2>1. /\ pending_update' = [pending_update EXCEPT ![Priv(s)].measure_is_pending = FALSE]
        /\ replies' = IF u.measure_is_pending /\ ok
                      THEN Append(replies, u.measure_registers) ELSE replies
        /\ UNCHANGED <<requests, reader>> /\ pc[s] = "measure"
    BY <1>3 DEF InvokeMeasure, AfterReply, Goto, readerVars
  <2>2. Priv(s) \in PrivStates /\ u \in StagedUpdates
    BY <2>1, <1>0, UsingPriv DEF Using, Owning
  <2>3. \A o \in PrivStates :
           pending_update'[o].measure_is_pending <=>
              pending_update[o].measure_is_pending /\ o # Priv(s)
    BY <2>1, <2>2, <1>0 DEF StagedUpdates
  <2>4. CASE replies' = replies
    BY <2>1, <2>3, <2>4, <1>0, <1>a DEF Unraised
  <2>5. CASE u.measure_is_pending /\ ok
    <3>1. Len(replies') = Len(replies) + 1
      <4>1. u.measure_registers \in 0 .. MaxMsgs
        BY <2>2 DEF StagedUpdates
      <4> QED
        BY <2>1, <2>5, <4>1, <1>0
    <3>2. PICK o \in PrivStates : o = Priv(s)
      BY <2>2
    <3>3. o \in Waiting /\ Waiting' = Waiting \ {o}
      BY <2>3, <2>5, <3>2 DEF Waiting
    <3>4. IsFiniteSet(Waiting') /\ Cardinality(Waiting') = Cardinality(Waiting) - 1
      BY <3>3, FS_RemoveElement DEF CountInv
    <3>5. Cardinality(Waiting) \in Nat /\ Len(replies) \in Nat
      BY <1>0, FS_CardinalityType DEF CountInv
    <3>6. Unraised' = Unraised
      BY <2>1 DEF Unraised
    <3> QED
      BY <2>1, <3>1, <3>4, <3>5, <3>6, <1>0 DEF CountInv
  <2> QED
    BY <2>1, <2>4, <2>5
<1>4. ASSUME NEW i \in Slots, ReadMeasure(i)
      PROVE  CountInv'
  <2>1. /\ UNCHANGED <<replies, pending_update>> /\ requests' = requests + 1
        /\ reader.pc = "idle"
    BY <1>4 DEF ReadMeasure, Lookup, Idle, privVars, historyVars
  <2>2. Unraised = 0 /\ Unraised' \in {0, 1}
    BY <2>1 DEF Unraised
  <2>3. Waiting' = Waiting
    BY <2>1 DEF Waiting
  <2>4. Unraised' + requests <= Unraised + requests' /\ requests' \in Nat
    <3>1. \A q \in Nat, u \in {0, 1} : u + q <= 0 + (q + 1) /\ q + 1 \in Nat
      OBVIOUS
    <3> QED
      BY <2>1, <2>2, <1>0, <3>1
  <2> QED
    BY <2>1, <2>3, <2>4, CountKept
<1>5. ASSUME NEW i \in Slots, NEW fields \in FieldLists, ReadUpdate(i, fields)
      PROVE  CountInv'
  <2>1. UNCHANGED <<replies, pending_update, requests>> /\ reader'.pc = "value"
    BY <1>5 DEF ReadUpdate, Lookup, privVars, historyVars
  <2> QED
    BY <2>1, <1>0, <1>a DEF Unraised
<1>6. CASE StageBadType
  <2>1. UNCHANGED <<replies, pending_update, requests>> /\ reader'.pc = "idle"
    BY <1>6 DEF StageBadType, Idle, privVars, historyVars
  <2> QED
    BY <2>1, <1>0, <1>a DEF Unraised
<1>7. CASE StageValue \/ StageFlag \/ StageMeasureId
  <2>0. reader \in [pc : {"idle", "value", "flag", "measure_flag", "measure_id"},
                    priv : PrivStates \cup {Null},
                    todo : Seq(Regs \cup {BadType}),
                    id : 0 .. MaxMsgs]
    BY <1>0 DEF TypeOK, ReaderTypeOK
  <2>1. UNCHANGED <<replies, requests>> /\ reader'.pc # "measure_flag"
    <3>1. \/ reader' = Idle
          \/ reader' = [reader EXCEPT !.pc = "flag"]
          \/ reader' = [reader EXCEPT !.pc = "value", !.todo = Tail(@)]
      BY <1>7 DEF StageValue, StageFlag, StageMeasureId
    <3>2. /\ Idle.pc = "idle"
          /\ [reader EXCEPT !.pc = "flag"].pc = "flag"
          /\ [reader EXCEPT !.pc = "value", !.todo = Tail(@)].pc = "value"
      BY <2>0 DEF Idle
    <3>3. reader'.pc # "measure_flag"
      BY <3>1, <3>2
    <3> QED
      BY <1>7, <3>3 DEF StageValue, StageFlag, StageMeasureId, historyVars
  <2>2. ASSUME NEW o \in PrivStates
        PROVE  pending_update'[o].measure_is_pending = pending_update[o].measure_is_pending
    <3>1. CASE reader.priv # o
      BY <1>0, <1>7, <3>1 DEF StageValue, StageFlag, StageMeasureId, Store
    <3>2. CASE reader.priv = o
      <4>1. Staged \in StagedUpdates /\ Staged = pending_update[o]
        BY <1>0, <3>2 DEF Staged
      <4>2. \/ pending_update'[o] = [Staged EXCEPT !.control_registers[Head(reader.todo)] = reader.id]
            \/ pending_update'[o] = [Staged EXCEPT !.control_is_pending[Head(reader.todo)] = TRUE]
            \/ pending_update'[o] = [Staged EXCEPT !.measure_registers = reader.id]
        BY <1>0, <1>7, <3>2 DEF StageValue, StageFlag, StageMeasureId, Store
      <4> QED
        BY <4>1, <4>2 DEF StagedUpdates
    <3> QED
      BY <3>1, <3>2
  <2> QED
    BY <2>1, <2>2, <1>0, <1>a DEF Unraised
<1>8. CASE StageMeasureFlag
  <2>1. /\ UNCHANGED <<replies, requests>> /\ reader.pc = "measure_flag"
        /\ reader'.pc = "measure_id" /\ Store([Staged EXCEPT !.measure_is_pending = TRUE])
    BY <1>8, <1>0 DEF StageMeasureFlag, historyVars, TypeOK, ReaderTypeOK
  <2>2. Unraised = 1 /\ Unraised' = 0
    BY <2>1 DEF Unraised
  <2>3. PICK p : p = reader.priv
    OBVIOUS
  <2>4. \A o \in PrivStates \ {p} : pending_update'[o] = pending_update[o]
    BY <2>1, <2>3, <1>0 DEF Store
  <2>5. Waiting' \subseteq Waiting \cup {p}
    BY <2>4 DEF Waiting
  <2>6. /\ IsFiniteSet(Waiting \cup {p})
        /\ Cardinality(Waiting \cup {p}) <= Cardinality(Waiting) + 1
        /\ Cardinality(Waiting) \in Nat
    <3>1. IsFiniteSet(Waiting)
      BY DEF CountInv
    <3>2. /\ IsFiniteSet(Waiting \cup {p})
          /\ Cardinality(Waiting \cup {p}) =
                IF p \in Waiting THEN Cardinality(Waiting) ELSE Cardinality(Waiting) + 1
      BY <3>1, FS_AddElement
    <3>3. Cardinality(Waiting) \in Nat
      BY <3>1, FS_CardinalityType
    <3> QED
      BY <3>2, <3>3
  <2>7. /\ IsFiniteSet(Waiting') /\ Cardinality(Waiting') <= Cardinality(Waiting \cup {p})
        /\ Cardinality(Waiting') \in Nat
    BY <2>5, <2>6, FS_Subset, FS_CardinalityType
  <2>8. Cardinality(Waiting \cup {p}) \in Nat /\ Len(replies) \in Nat
    BY <2>6, <1>0, FS_CardinalityType
  <2> QED
    BY <2>1, <2>2, <2>6, <2>7, <2>8, <1>0 DEF CountInv
<1>9. CASE UNCHANGED <<replies, requests, reader, pending_update>>
  BY <1>0, <1>9, <1>a DEF Unraised
<1> QED
  BY <1>1, <1>2, <1>3, <1>4, <1>5, <1>6, <1>7, <1>8, <1>9
     DEF Next, Invoke, ReadMsg, vars, readerVars, privVars, sockVars, historyVars,
         CreateTimeout

\* The account of requests and the place of their ids, in every reachable state.
THEOREM ReplyInvHolds == Spec => []ReplyInv
<1>1. Init => ReplyInv
  <2>1. ASSUME Init
        PROVE  CountInv
    <3>1. Waiting = {}
      BY <2>1 DEF Init, Waiting, NoUpdate
    <3> QED
      BY <2>1, <3>1, FS_EmptySet DEF Init, CountInv, Unraised, Idle
  <2>2. ASSUME Init, NEW v \in Values
        PROVE  IdInv(v)
    <3>1. \A o \in PrivStates : ~HasId(o, v)
      BY <2>2, RegsAssumption DEF Init, HasId, NoUpdate, Values
    <3> QED
      BY <2>2, <3>1 DEF Init, IdInv, Answered
  <2> QED
    BY <2>1, <2>2 DEF ReplyInv
<1>2. Inv /\ StagingInv /\ ReplyInv /\ [Next]_vars => ReplyInv'
  BY CountStep, IdStep DEF ReplyInv, StagingInv
<1> QED
  BY <1>1, <1>2, InvHolds, StagingInvHolds, PTL DEF Spec

\* There are no more replies than requests, and no two replies carry the same id.
THEOREM RepliesMatchRequests == Spec => []RepliedOnce
<1>1. Inv /\ ReplyInv => RepliedOnce
  <2> SUFFICES ASSUME Inv, ReplyInv
               PROVE  RepliedOnce
    OBVIOUS
  <2>1. Len(replies) <= requests
    <3>1. Len(replies) \in Nat /\ requests \in Nat /\ Unraised \in Nat
      BY DEF Inv, TypeOK, HistoryTypeOK, ReaderTypeOK, Unraised
    <3>2. Cardinality(Waiting) \in Nat
      BY FS_CardinalityType DEF ReplyInv, CountInv
    <3> QED
      BY <3>1, <3>2 DEF ReplyInv, CountInv
  <2>2. \A j \in DOMAIN replies : replies[j] # 0 => replies[j] \in Values
    BY RegsAssumption DEF Inv, TypeOK, HistoryTypeOK, Values
  <2> QED
    BY <2>1, <2>2 DEF RepliedOnce, ReplyInv, IdInv
<1> QED
  BY <1>1, InvHolds, ReplyInvHolds, PTL

=============================================================================
