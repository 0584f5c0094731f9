# A TLA+ model of spine-kernel

spine-kernel lets a learning agent in user space steer TCP congestion control in the
Linux kernel. A kernel module (libspine plus one congestion control algorithm) keeps a
table of connections and takes parameters for them over netlink; a Python controller
relays between the module and the environments (the agents) that connect over unix
sockets. This directory holds TLA+ modules of these parts, the TLC configurations that
check them on small instances and the proofs of their most important invariants.

To use it: `tlc -config vanilla.cfg MCVanilla` checks a run, `tlapm VanillaProofs.tla`
the proofs of a module.

## 1. Inventory

| Part | State it keeps | Operations | What makes it correct |
|---|---|---|---|
| Connection table, `lib/spine.c`, `lib/spine_priv.c` | per slot: `index`, `impl`, `state` (private memory: `sent_create`, `pending_update`), `last_create_msg_sent` | `spine_connection_start/free/lookup`, `spine_invoke`, `spine_read_msg`, `send_conn_create` | a slot and a private state have one user; the handshake precedes control; nothing is handed over or answered twice; nothing leaks |
| Codec, `lib/serialize.c`, `message.py`, `msg_sender.py` | none | `read_header`, `write_*_msg`, `check_*`; `from_raw`, `serialize` | both sides agree on sids, ports, registers, lengths |
| Netlink, `spine_nl.c`, `netlink.py` | kernel and user socket | multicast send, receive callback | a failed send is noticed |
| Vanilla, `tcp_vanilla.c` | parameters, `cnt`, `prior_cwnd`, `prev_ca_state`, `min_rtt_us` | `vanilla_cong_control`, `set_cwnd`, `ssthresh`, `set_state`, `set_params` | window and counter in range, gradual change, losses reduce |
| Neo, `tcp_neo.c` | ring of monitor intervals, rates, counters | `neo_cong_control`, `neo_process`, `neo_set_state`, `neo_fetch_measurements` | both ends of the ring agree; the agent is told of closed intervals only |
| Scubic, `tcp_scubic.c` | CUBIC epoch, HyStart, two parameters | `bictcp_cong_avoid`, `bictcp_update`, `acked`, `recalc_ssthresh`, `state`, `cwnd_event`, `set_params` | the curve stays consistent when parameters change within an epoch; the window grows by the rules |
| Controller, `spine.py`, `spine_flow.py` | maps env - port - flow - sid, cached clients | one handler per netlink and unix message | the maps agree; ports stay with their environment |
| Event loop, `poller.py` | actions, registered descriptors, removals | `poll_once`, `add_action`, `__remove_action` | live clients stay polled, dead ones are removed, the loop survives |
| Unix sockets, `ipc_socket.py` | `connected`, buffers | `accept`, `read`, `write`, `close` | a message is sent once and whole |
| Scripts, logging, tests | - | - | - |

How they interact. A TCP socket calls its algorithm under the socket lock; the algorithm
calls `spine_invoke` on most ACKs. The controller's netlink message runs
`spine_read_msg` in the sender's context, without the socket lock: the staged update and
the table are shared memory between the two. CREATE, RELEASE and MEASURE go to the
controller by multicast and may fail to be sent. The controller is one thread; its
handlers do not interleave with each other, but the messages they handle may be late: a
sid may have been released and used again. Environments come, go, compete for ports and
reconnect at any time. The controller may be killed and started again while the kernel
keeps its connections; the kernel announces a connection once and does not repeat
itself.

What is hard: the lock-free table; staging against invoke; throttled retries of CREATE;
sids and file descriptors that are used again while messages and callbacks for the
earlier user are under way; counters that count twice; arithmetic in u32 and integer
division; the single thread on which every client depends. `PROJECT.json` lists each
hazard at its line, with the properties that cover it or the reason why none does.

## 2. Modules

### Datapath: the connection table

State. `index`, `impl`, `state`, `last_create_msg_sent` are the fields of `struct
spine_connection`, indexed by sid. `live`, `sent_create` and `pending_update` are the
private states; a private state is an object of `PrivStates`, which the allocator may
hand out again after it was freed. `pc`, `sid`, `params`, `ca` belong to a socket,
`reader` to the netlink reader.

| Action | Code |
|---|---|
| `ConnectionStart`, `ScanSlot` | the scan of `spine_connection_start`, one CAS per step; after it `sid` is the array index plus one on both paths, so taking the last slot returns NULL |
| `InitPrivState`, `InitPrivStateFails` | `init_spine_priv_state` |
| `StartCreate`, `InvokeRetry`, `CreateTimeout` | `send_conn_create` and its throttle |
| `InvokeBegin`, `InvokeRead`, `InvokeSet`, `InvokeMeasure`, `InvokeClearFlags`, `InvokeClearRegs` | `spine_invoke`, a step per access to the shared update; the memset in two halves |
| `ReleaseFree`, `ReleaseSend`, `ReleaseIndex`, `ReleaseNoConn` | `spine_connection_free` and the algorithm's `release` |
| `ReadUpdate`, `ReadMeasure`, `StageValue`, `StageFlag`, `StageBadType`, `StageMeasureFlag`, `StageMeasureId` | `spine_read_msg`, `stage_update`, `stage_measure_request`, a step per store |

Abstractions. A register's content is the number of the message that carried it. The
time since the last CREATE attempt is never, recent or old. A message that is refused
changes nothing and is a stutter. The index check and the read of `conn->state` in the
lookup are one step. A store through a NULL state is taken to have no effect (the kernel
would fault, the table is not involved). Freed memory keeps its content and can be
written through the pointer the reader holds; no property forbids that write, only that
anything comes of it. `stage_update` does not check the register's index
(`spine.c:352`); the model has the indices the controller's senders use
(`FieldsAssumption`). The fallback timer (`fto_us`) is left out:
`_check_fto` has no caller.

**SlotTable** is the abstract specification: a slot is free, held by one socket, or
lost. **DatapathRefinement** maps a slot of Datapath to its owner and states
`ImplementsSlotTable`.

### Vanilla: the window of `tcp_vanilla.c`

One action per call of the stack: `SlowStart` and `CongControl` are the two paths of
`vanilla_cong_control`, `PktAcked`, and `EnterReduction`, `CwrToRecovery`, `Timeout`,
`Repaired` for what the stack does around `ssthresh`, `set_state` and `undo_cwnd`. The
numbers of the code (1024, 500, 512, 10, 2, 2^32) are constants, so the proofs hold for
the real values while TLC works with small ones. The product `srtt * 1024` and the
window wrap at `Word`, `TruncDiv` is C's division. `delay` and `event` are history: the
delay an ACK was served with, before any product, and the kind of call. `gamma` is stored
doubled (`tcp_vanilla.c:81`). The stack itself is the environment:
window reset to 1 on a timeout, an undo to the window it saved, any RTT. Its restart
after idle time is not modelled.

### Controller: `spine.py` and `spine_flow.py`

The dictionaries of `EnvFlows`, of each `ActiveFlowMap` and `client_from_sock` are
functions with `None` for a missing key. One action per message: `NlCreate`, `NlMeasure`,
`NlRelease`, `EnvInit`, `EnvStart`, `EnvEnd`, `EnvTerminate`, `EnvMeasure`, `EnvAlive`.
The kernel is reduced to `Connect`, `Announce`, `Disconnect`, `AnswerMeasure` and a queue
of messages. Messages of environments that are not registered are stutters. A MEASURE
request of a flow without a sid caches the client under `None`, which nothing reads; it is
left out. A RELEASE or a reply may fail to be sent and is then lost, a CREATE is sent
later; `MaxQueue` bounds the messages under way, an overrun of the socket buffer is not
modelled. `RequestLands` is Datapath's reader with a stale pointer, seen from here: a
request whose connection closed while it was being staged (`adrift`) raises the flag of
the next connection on the slot. An action changes nothing here; where it goes is the
matter of Steering.

### Steering: controller and kernel composed

Steering EXTENDS Controller: its handlers and its kernel side are those of Controller,
each with the history that says whose request a message answers. It adds `Restart`, a
crash of the controller and a new start with empty maps and a new netlink socket, and
`listening`: a MEASURE for a connection nobody has asked for raises in the handler, and
the poller then removes the action of the netlink socket (`spine.py:103`,
`poller.py:200-205`). `orphaned` records that such a measurement has become possible: a
request was pending at a restart, or hit a connection it was not for
(`KernelTakesStray`). `ReadsCreate`, `ReadsMeasure` and `ReadsRelease` are one handler,
by type of message. Clients are identified by their environment, and the environments
keep sending across a restart; a message of one that has not registered again is a
stutter. A sid is `abandoned` by an environment whose flow had not ended when the
connection closed; it is `stray` while the cached client was cached for such a flow.
These are history and appear in no guard.

### Neo: monitor intervals of `tcp_neo.c`

`Ack` is `neo_cong_control` with a valid rate sample (`neo_process`: sending side, then
receiving side), `AckNoSample` one without, `Timeout` is `neo_set_state` for a loss,
`Transmit` the stack. `delivered` and `lost` only occur as a sum, `accounted`; `doubles`
is by how much that sum and the segments in flight exceed `data_segs_out` (the SYN, and
segments that were marked lost and then delivered). A flow may be switched to neo in the
middle of its life. The stack calls `cong_control` only when data was outstanding. Of
the times only the order of `recv_start` and `recv_end` of the slot is kept (`fresh`).
`no`, `opened`, `closed` and `overrun` are history. Rates and the window are in NeoRate.
After the ring was full once (`overrun`) send and receive index coincide and nothing is
claimed.

### NeoRate: the rate of `tcp_neo.c`

`CongControl` is `neo_cong_control` with a valid sample: an interval may begin with the
rate that is ready, then `neo_set_params` prepares the next one. `NoSample`,
`EnterReduction`, `Timeout` and `Repaired` are the rest of the calls. An interval may
begin, or fail to, at any ACK; Neo has the condition, and no property here needs it. The
rate an interval records is never read and left out. All numbers of the code are
constants, also the words of 64 and 32 bits in which the products, a decrease of a small
rate and the window wrap: nothing bounds a rate but `sk_max_pacing_rate`, which is ~0
unless the application sets it. `Init` is a flow outside of
loss recovery whose intervals could be allocated: a switch to neo in the middle of a
recovery may find a window of 1, which the cut turns into 0.

### Scubic: `tcp_scubic.c`

One action per call of the stack: `CongAvoid` (`spine_invoke`, slow start,
`bictcp_update`, `tcp_cong_avoid_ai`), `PktsAcked` with HyStart, `EnterReduction`,
`LeaveReduction`, `Timeout` and `LeaveLoss` around `ssthresh`, `state` and `undo_cwnd`,
`TxStart` for `cwnd_event`, `Tick` for the clock. `ca` and `hy` are the fields of
`struct bictcp`. The fixed point is kept with its precision as a constant (`BICTCP_HZ`),
`CubicRoot` is the table and Newton step of the code. The friendliness loop is its
closed form; when it has no end, `spinning` is set and only `Spin` remains. Module
parameters have their defaults apart from the thresholds of HyStart, of which
`hystart_low_window` is two or more, like the clamp of the window. The products of
the curve and the argument of `cubic_root` wrap at `U64Bits`, targets at `Word`.
`PowersAssumption` only says what powers of two are. The wrap of jiffies is outside the
instances.

### Codec: the bytes of a message

A message is a sequence of bytes, on a little-endian machine; one connection, one
message each way. `SendAction` and `SendRequest` are `msg_sender.py`, `ReadMsg` is
`spine_read_msg` with `read_header` and the staging, `Invoke` takes the complete vector
to `set_params` and writes the reply, `ConnectionStart` writes CREATE, `ReadCreate` and
`ReadMeasure` are `from_raw`. `SetParams` is what the three modules do with a vector they
accept (`Passes`): vanilla checks and stores the low 16 bits and doubles `gamma`, scubic
takes 1 to 1023, neo an action; the register is the position in the vector. The sid of a
header is compared as the u16 that `spine_connection_lookup` takes. Fields of one size lie
one behind the other (`Joined`). A vanilla sender may add its fields in any order (a
Python set).
`send_vanilla_message` and `send_scubic_message` raise when asked for a MEASURE, so
`SendRequest` exists for neo only.

### Poller: `poller.py` with the sockets of `ipc_socket.py`

`PollOnce` adds the waiting actions, registers descriptors and collects the events;
`ErrorEvent` and `ReadEvent` take them in the order of the descriptors; a callback is one
action (`ReadNetlink`, `ForwardMeasure`, `Accept`, `RefuseClient`, `ReadClient`,
`ReadEndOfFile`, `ReadPartOfBody`, `ReadMeasure`); `RemoveActions` is `__remove_action`
with the iteration order of the Python set left open, followed by `clear()`. `files` is
the descriptor table: `accept` takes the lowest free number, `close` frees it at once, and
so does the collection of a socket object nothing refers to. Actions are found and removed
by descriptor, so `actions` and `action_to_add` keep for each descriptor the sockets of
its actions in their order; the order among different descriptors decides nothing. What a
callback reads is abstracted to its result: Continue, Cancel or an exception. A body of
which only a part has arrived makes `read` close its socket and go on receiving from it
for ever (`ipc_socket.py:70-89`, `pc` is "spin").

Definitions named `...Slip` are plausible mistakes in the definition that follows them;
no behaviour uses them. They show that the property they are paired with can fail.

## 3. Runs

| Run | Bounds | Shows |
|---|---|---|
| `dp_lifecycle` | 3 sockets, 3 slots (the last one is never usable), 3 private states, reader silent | exclusive slots and private states, only failed starts lose slots, refinement of SlotTable |
| `dp_staging` | 1 socket at a time, 2 slots, 2 private states, 2 registers, 2 messages in any field order | no parameter or reply before CREATE, none handed over or answered twice; a connection whose retries get through has sent its CREATE in the end |
| `vanilla` | unit 1/4 segment, window up to 8, words of 6 bits, vectors of every kind | ranges, change of one segment at most in the direction of exact arithmetic, losses never widen |
| `vanilla_restore` | the same | violated: the saved window is restored after the recovery is over |
| `scubic` | window up to 7, 3 jiffies of half a second, 2 losses, counts up to 6, 4 vectors | K, origin and scale of the curve belong together, epochs do not begin in the future, cnt is usable, growth is at most one per two ACKs, HyStart compares this round |
| `scubic_spin` | the same | violated: the friendliness loop does not end |
| `neo` | ring of 4, 6 intervals opened and closed, 4 segments, 2 counted twice | ring and history agree, intervals are contiguous, what fetch reports was measured |
| `neo_rate` | rates up to 15, of which those above 12 wrap when raised (words 64 and 12), RTT 0 to 8, all actions | the stack paces at the rate neo counts from; one exact step per interval where the product fits |
| `steering` | 2 environments, 2 ports, 2 flow ids, 1 reused sid, 1 message under way, restarts at any time | the maps agree, bindings are served, ports stay with their environment; actions and replies go astray only after a connection closed before END; the netlink socket is lost only to an orphaned reply |
| `steering_live` | 1 environment, 2 ports, 2 flow ids, 1 reused sid, 2 messages under way, restarts | a CREATE under way associates the flow that waits for it |
| `codec` | 3 algorithms, 2 messages, values below and above 16 bits, ids and ports around the limits of a byte and a signed char | what a module works with is one action's values, converted as its `set_params` does; CREATE and MEASURE are read back |
| `poller` | 3 environments | an action for every event, no removal forgotten, live clients stay, dead ones go where callbacks return |

Why the bounds are enough. Three sockets and two usable slots contain claim against
claim, claim against release and a full table. Two messages are what overlapping an
earlier with a later request takes; two registers are what a vector that is staged while
it is read takes. One sid is the worst case for the controller, as every new connection
reuses it; two environments and two ports contain every competition for a port. A ring
of four wraps and fills with six intervals, and two spare slots exist only from four on.
With three environments one can die, one take its descriptor and a third be served in
the same batch. In `scubic` a loss puts the window below the origin of the next epoch,
an epoch is shifted past `now`, parameters change within an epoch, and three jiffies lie
on both sides of the second `bictcp_acked` waits for. In `neo_rate` the rate reaches
both ends of its range, the first loss comes at each of them, and the largest rates wrap
when they are raised. In `steering_live` an earlier CREATE, RELEASE or reply stands before
the CREATE that is followed, and another flow may claim the sid first. In `codec` a value of
65538 is more than 16 bits and passes vanilla's check as 2; a vector vanilla refuses is not
among its values there (the proof has all of them), one that scubic refuses is. In `vanilla`
an srtt of 20 wraps and one of 10 does not.

Every run checks for deadlock; no run disables it.

Fairness. `dp_staging`: weak fairness of the start's own CREATE attempt (code that is
running goes on) and of the clock. That retries get through is no fairness of the code: a
flow retries when it calls `spine_invoke`, which vanilla does not in slow start
(`tcp_vanilla.c:310-314`), and the multicast may fail. It is therefore a premise inside the
property: `CreateIsSent` is about a connection for which `RetriesGetThrough`, which is
strong fairness of its successful retry. What is checked is that nothing else (the
throttle, an old `last_create_msg_sent`, a reused private state) keeps the CREATE back.
The reader, and opening or closing a connection, need not happen.
`poller`: weak fairness of the loop's own steps, as `polling()` has no exit
(`spine.py:209-213`). That callbacks return is again a premise of the property
(`CallbacksReturn`), as the code cannot see to it: `accept` reads the INIT of a new client
with a blocking socket (`spine.py:185`), `write` repeats on EAGAIN while a client does not
read (`ipc_socket.py:209-216`), and `read` never comes back after a part of a body.
`steering_live`: weak fairness of reading the netlink socket while it is polled, which is
the same loop under the same premise. No fairness is assumed of environments, of the
kernel's connections or of restarts.

### What the violations mean

* `RestoreOnlyOnExit` (`tcp_vanilla.c:276`): after its first timeout a flow is lifted
  back to the window before it on every ACK outside of recovery, as `prev_ca_state` is
  never set back.
* `FriendlinessEnds` (`tcp_scubic.c:464`): `delta = (cwnd * beta_scale) >> 3` is zero
  for a window of 2 with `beta` up to 204 and for a window of 3 with `beta` up to 60,
  values `scubic_set_params` accepts; `while (ca->ack_cnt > delta)` then subtracts zero
  under the socket lock.

### Comments the code contradicts, without a run

* `tcp_vanilla.c:331` gives the change of the window as a formula of the delay;
  `(srtt_us >> 3) * 1024` (338) is 32-bit arithmetic, so from 2^22 us (4.2 s) on a delay is
  judged as one that is 2^22 us shorter, and the window grows where the formula takes it
  down. This is the theorem `LongDelayLooksShort`; `GradualChange` is about the delays whose
  product fits.
* `tcp_vanilla.c:28-29` has all parameters in [0, 1024]; `gamma` is checked and then
  doubled (81). `TypeOK` of Vanilla has it in twice the range for this reason, and
  `SetParams` of Codec doubles it.
* `tcp_scubic.c:421-422` rules overflow out below a million packets. `cubic_root` errs
  upwards, and its error is cubed: where the window has fallen far below `last_max_cwnd`
  the curve begins below zero, which is a target of four billion packets in 32 bits (440).
  At the code's own precision it happens with 1080 and 4 packets and a `bic_scale` of 918,
  the theorem `CurveFallsBelowZero`.
* `spine_priv.h:117-118` gives register 0 to beta and 1 to bic_scale; `message.py:24-25`
  and `scubic_set_params` (`tcp_scubic.c:197-198`) have it the other way round. Both ends
  agree, so nothing goes wrong while nobody uses the names of the header.

### Other defects met while modelling

No comment, doc, assertion or test was found that says otherwise, so they have no run;
where the models contain them (all but the failed allocation, the raising senders, the
loop of `write` and the missing check of an index), the properties are stated so that they
hold beside them.

* One of `max_connections` slots cannot be used: the start that takes the last slot
  returns NULL (`spine.c:86`); this is what `OnlyFailedStartsLoseSlots` allows.
* An update may be lost between the read and the memset of `spine_invoke`
  (`spine.c:268`); the next action of the agent replaces it.
* The header of RELEASE names sid 0 (`serialize.c:105`), so the controller does not
  forget the sid; Steering's `abandoned` is about the consequences.
* The ID of a MEASURE is one signed char (`serialize.c:223`): ids above 127 are not
  echoed.
* With the senders for vanilla and scubic a MEASURE raises (`msg_sender.py:25`,
  `70-73`).
* A neo interval can be closed without having been credited (`tcp_neo.c:302`); its
  statistics are zero packets over a negative time, which wraps. `MeasuresClosed` is
  about the others.
* neo repeats the restore of the window like vanilla (`tcp_neo.c:596`). After a failed
  allocation of its intervals the first loss writes through a NULL pointer
  (`tcp_neo.c:508`).
* A client on a reused descriptor is dropped with the dead one, as actions are found by
  descriptor number (`poller.py:108`).
* A MEASURE reply after a restart of the controller finds no client and ends the netlink
  action (`spine.py:103`, `poller.py:200-205`).
* The products of `neo_set_params` and `neo_set_cwnd` wrap for rates from 2^64 / 1025
  on, which the default `sk_max_pacing_rate` allows (`tcp_neo.c:400`): a raise may end in
  `NEO_RATE_MIN`.
* `vanilla_set_params` narrows before it checks (`tcp_vanilla.c:45`): 65536 + x passes for
  x.
* A field of an unknown type ends a message whose earlier fields stay staged
  (`spine.c:357`): a later message completes the vector with its own. `stage_update` writes
  to the index it is given (`spine.c:352`).
* Between the lookup and the store the reader may write through a stale pointer to a
  private state, or through NULL (`spine.c:434`, `156`).
* After the ring of neo was full, send and receive index coincide and an interval is both
  open and waiting (`tcp_neo.c:254`).
* A CREATE that arrives before the START of its port is dropped and not sent again
  (`spine.py:79`). A vanilla flow that stays in slow start does not retry a CREATE that
  failed (`tcp_vanilla.c:310-314`).
* One slow client holds up everybody: `write` spins on EAGAIN and sends its buffer from the
  beginning again (`ipc_socket.py:209-216`), `accept` waits for the INIT
  (`spine.py:185`), `read` goes on with a socket it has closed (`ipc_socket.py:82-89`).
* A first message that is malformed raises through `accept_unix_conn`, and the poller
  removes the action of `unix_sock`: no environment can connect any more
  (`spine.py:186-192`).

## 4. Proofs

All constants are arbitrary within the named assumptions of their module, which TLC
evaluates on the instances. The theorems say the same as the properties of the runs;
what the runs bound (numbers of messages, times, queues) is a constant in them as well.

**DatapathProofs**, for any number of sockets, slots, private states, registers and
messages.
* `Inv == TypeOK /\ SlotOwnership /\ PrivStateOwnership` is inductive (`InvHolds`).
  Typing needs ownership (invoke writes to `pending_update[state[sid]]`, which must be a
  private state) and ownership needs typing, so neither is inductive alone. There is one
  lemma per group of variables and per ownership invariant.
* `OnlyFailedStarts`: a slot loses its owner in the scan that refuses the last slot and
  in the failed `kcalloc`, and nobody writes to a slot without an owner.
* `TableImplemented`: Datapath implements SlotTable. Every action is shown to take, free
  or lose one slot of the mapped table or to stutter.
* `ControlNeedsCreate` rests on `CreateInv`: `sent_create` of the private state a socket
  uses stands for a CREATE of this connection, not of an earlier user of the memory.
* `HandedOnce` rests on `StagingInv`: for each register and message, the value is still
  to come, lies in one register, is collected by one invoke, or was handed over, and then
  it can only lie in a register that is being cleared. It needs `FieldsAssumption`, that
  a message of the controller names a register once (`msg_sender.py`).
* `RepliesMatchRequests` rests on `ReplyInv`: the same for request ids, and a count:
  replies, raised flags and the flag about to be raised are not more than the requests.

**VanillaProofs**: `Inv == TypeOK /\ CntBounded /\ CwndInRange` is inductive. The window's
range rests on that of the saved window, which a restore may bring back, and on the
parameters' (`delta <= Scale`), and `GradualChange` rests on what `cnt` carries over.
`TypeOK` has `gamma` in twice the range that is checked. The arithmetic is in lemmas on
division with remainder, as dividing by a parameter is not linear and beyond the solver.
`WindowMovesGradually` and `LossReduces` are action properties proved from the invariant;
the former compares with exact arithmetic, so it carries the condition that `srtt * Scale`
is below `Word`. `LongDelayLooksShort` proves what happens beyond: where `Word` is
`wrap * Scale` (2^22 times 1024 in the code), a delay of `srtt + wrap` is judged as `srtt`.

**SteeringProofs**, for any number of environments, ports, flows, sids and messages under
way. Its first half is about Controller alone, without crashes: `Inv` is
`TypeOK`, `AssociationsAgree` and `BoundToRegistered`; END is the step that needs all of
them, since it unbinds the port it reaches through three maps.

The second half follows one sid through crashes. A flow holds the sid for the connection
that has it now, with no CREATE left in the queue that could give it to another flow, or
its own connection is gone and the sid is abandoned (`SidInv`). A request is only counted
for an environment that holds the sid in the first way, so whoever is cached when the
reply arrives is that environment or a stray (`AskInv`). What a step does to the queue is
in two lemmas, one for a message appended and one for the first taken.
`ActionsReachTheirConnection` and `RepliesReachTheirAsker` follow, and with `Inv` the
theorems about the maps and the action property `PortsOfOthersAreKept` across crashes.
`NetlinkIsServed` needs besides that a request waits for an answer only where its client
is cached (`ClientInv`), which a restart or a stray request ends; `orphaned` records both
(`ServedInv`).

**NeoProofs**, for rings of three slots and more and any number of segments. `RingAgrees`,
`Contiguous` and `MeasuresClosed` speak of the slots that wait for ACKs and of the two
closed last, and are not inductive: what is closed now was waiting before, and what is
opened takes the slot of an old use. `GoodRing` follows every use of a slot until the slot
is taken again `NumIntervals` openings later: the slot has the number of the use, it ends
where the next use begins, and nothing is credited to it before the receiving side comes
to it. `TypesHold` needs that what is counted twice is at most half of what is accounted
for, or the difference of the code would be negative.

**NeoRateProofs**, for all rates, scales, RTTs, windows and word sizes. `PacedAtRate` rests
on the window before the first loss, the one step that derives the rate from the window:
until then only `neo_set_cwnd` has set it (`WindowInv`); whatever wraps, `InRange` comes
after it. `OneActionAtMost` follows from what is ready being one action away from what is
in force (`RateInv`), and from `StepsAreExact`: where the products fit, that action is the
exact one.

**ScubicProofs**, for every precision, clamp, parameter and idle time.
* `EpochsNotAhead` and `CntIsUsable` are inductive together with the shape of the fields
  they are about. The latter needs the earlier update when `bictcp_update` returns early;
  neither depends on what the cubic arithmetic yields, which the lemmas hide.
* `CurrRttIsOfRound`: no delay is 0, so `curr_rtt = 0` means that the round has no sample,
  and the first sample of a round is always counted (`HystartMinSamples` is not 0).
* `TypeCorrect` needs that every division and root is of numbers. `RootType` shows that
  `cubic_root` reads its table between 8 and 63 and that its guess is at least two, from
  the position of the highest bit (`FlsRange`); its argument is a product that has wrapped
  (`WideRoot`).
* `GrowthIsBounded`: from `CntUsable` and the typing, `tcp_cong_avoid_ai` divides by two
  or more whenever it is reached, and then one segment is spent for two (`AdditiveGrowth`).
* `CurveHasOneScale`: whatever parameters arrive within an epoch and however it is
  shifted, K, scale and origin of the curve in use come from one `bic_scale` and one origin.
  The invariant needs in addition that `cube_factor` and `cube_rtt_scale` always belong to
  one `bic_scale`, between epochs too.
* `CurveFallsBelowZero` computes the curve of one case with the code's own constants: the
  steps of the table and of Newton's method by hand, since the solver knows no powers. The
  small instances of the runs do not come to it.

**PollerProofs**, for any finite number of environments. Events, actions and removals
follow from each other's bookkeeping (`BatchInv`), which gives `EventsHaveActions` and
`NoRemovalForgotten`. `LiveClientsStay` needs to know whose descriptor is whose: a
descriptor has one socket (`FilesInv`), a client that waits for the next `poll_once` owns
its descriptor (`AddedInv`), a client nothing has ended is alone on it (`OwnerInv`), so
the descriptors a batch has doomed serve only clients that ended or went away
(`DoomedInv`). A client that was given the descriptor of a closed socket still polled is
the exception of the theorem (`reused`): the code does drop it. That `accept` finds a free
descriptor is a counting argument: there are as many descriptors as sockets, and the
socket that is accepted has none.

**CodecProofs**, for all values, ports, ids and measurements of the right width.
* First the bytes: `MessageRead` (a header and what follows it), `FieldOfJoined` (the k-th
  of several fields of one size), `UpdateRead`, `CreateRead` and `MeasureRead` say that
  each reader finds at its fixed offsets what the writer put there. A number of fields
  stays below 128 and a number of measurements below 2^16, as the orders of the senders
  and `REPORT_MSG_SIZE` see to; the lemmas need both.
* `CodecInv` traces what is under way and staged back to the environment: the message to
  the kernel is an update or a request it sent, a pending register holds a value given
  under the name that has this number, the message to the controller is the CREATE of the
  connection or a reply with measurements that were fetched.
* `ParametersArrive` then needs that the numbers of `message.py` and the positions
  `set_params` reads agree for each module (`SetParamsByName`). `WritesAreReadBack` is the
  inductive invariant together with `WhatIsRead`.

### Only model-checked

* Liveness (`CreateIsSent`, `CreateAssociates`, `DeadClientsRemoved`): temporal reasoning
  under fairness is out of the prover's reach.

## 5. Not modelled

* Module load and unload (`*_register`, `*_unregister`): every socket that uses the
  algorithm pins its module, so an unload meets no socket.
* The fallback timer (`fto_us`): `_check_fto` has no caller.
* Partial sends and buffers of `ipc_socket.py` (`write_once` and `add_to_buffer` have no
  caller), EAGAIN of a netlink send.
* Non-default module parameters of scubic, the wrap of jiffies.
* `spine_eval.py` (a variant of `spine.py` with one fixed environment), `helper.py`,
  `logger.py`, `context.py`, scripts, Makefiles and tests.

The TCP stack, the agent, sockets and the Python runtime appear as environment.

## 6. Plan

Modelled, in this order: Datapath with SlotTable and DatapathRefinement; Vanilla;
Controller; Neo; Poller; Scubic; NeoRate; Steering; Codec. Proved: every safety invariant
and action property of the runs and the refinement.

Left:
1. Scubic: a bound on the error of `CubicRoot` for every argument, which would say from
   which windows on `CurveStaysPositive` fails.
2. Poller: what becomes of a new client on a descriptor that is still polled for a closed
   socket, as a property of its own.
