--------------------------------- MODULE Neo ---------------------------------
(***************************************************************************)
(* The monitor intervals of tcp_neo.c for one flow: a ring in which the    *)
(* sending side opens an interval every MONITOR_INTERVAL and the receiving *)
(* side closes it when its packets have been acked or lost; the controller *)
(* is sent the statistics of the last two closed ones.  Every call of the  *)
(* module runs under the socket lock and is one step.                      *)
(*                                                                         *)
(* Whether MONITOR_INTERVAL has passed is any Boolean.  Of the times of an *)
(* interval only the order of recv_start and recv_end is kept.  delivered  *)
(* and lost only occur as a sum, accounted.  Rates and the window are left *)
(* out.                                                                    *)
(*                                                                         *)
(* A definition with the suffix Slip is a plausible mistake in the         *)
(* definition after it; no behaviour uses it.                              *)
(***************************************************************************)
EXTENDS Integers

CONSTANTS
    NumIntervals,    \* NEO_INTERVALS
    Ignore,          \* NEO_IGNORE_PACKETS
    MaxSegs,         \* bound: segments sent in a behaviour
    MaxDoubles,      \* bound: doubles below
    MaxIntervals     \* bound: intervals opened, and intervals closed

ASSUME RingAssumption == NumIntervals \in Nat /\ NumIntervals >= 3
ASSUME BoundsAssumption ==
    /\ Ignore \in {0, 1}  \* packets_ended - Ignore does not wrap once packets_ended # 0
    /\ MaxSegs \in Nat /\ MaxSegs >= 2 /\ MaxDoubles \in Nat \ {0} /\ MaxIntervals \in Nat \ {0}

Ring == 0 .. NumIntervals - 1

VARIABLES
    intervals, send_index, receive_index, first_circle,
    packets_counted, double_counted,
    accounted_base,          \* delivered_base + lost_base
    \* the stack: segments sent, delivered + lost, and how often that counted
    \* what data_segs_out did not: the SYN, a segment first lost and then delivered
    data_segs_out, accounted, doubles,
    \* history: intervals opened and closed, and whether the ring was ever full
    opened, closed, overrun

tcp  == <<data_segs_out, accounted, doubles>>
neo  == <<intervals, send_index, receive_index, first_circle, packets_counted,
          double_counted, accounted_base>>
vars == <<neo, tcp, opened, closed, overrun>>

Larger(a, b) == IF a >= b THEN a ELSE b
InFlight == data_segs_out + doubles - accounted

\* Upper bound of the segments that were counted as lost and may still be delivered.
MaybeLost == accounted + 1 - 2 * doubles

\* get_next_index, get_previous_index
NextIndex(i) == IF i < NumIntervals - 1 THEN i + 1 ELSE 0
PrevIndex(i) == IF i > 0 THEN i - 1 ELSE NumIntervals - 1

\* start_interval: recv_start and recv_end are left as they are.  no is history:
\* which interval the slot holds.
BaseSlip(segs) == Larger(segs, 1) - 1
Base(segs) == Larger(segs, 1)

StartSlip(r, i, segs) ==
    [r EXCEPT ![i].packets_sent_base = Base(segs), ![i].accounted = 0, ![i].no = opened + 1]
Start(r, i, segs) ==
    [r EXCEPT ![i].packets_ended = 0, ![i].accounted = 0,
              ![i].packets_sent_base = Base(segs), ![i].no = opened + 1]

\* kzalloc; fresh: recv_end was taken after recv_start
EmptyInterval ==
    [packets_sent_base |-> 0, packets_ended |-> 0, accounted |-> 0,
     fresh |-> FALSE, no |-> 0]

\* neo_init
Init ==
    /\ data_segs_out \in {0, 2} /\ doubles = 1  \* a new connection, or one in the middle
    /\ accounted \in 1 .. data_segs_out + 1
    /\ intervals = [i \in Ring |->
                      IF i = 0 THEN [EmptyInterval EXCEPT !.no = 1,
                                                          !.packets_sent_base = Base(data_segs_out)]
                      ELSE EmptyInterval]
    /\ send_index = 0 /\ receive_index = 0 /\ first_circle = TRUE
    /\ packets_counted = 0 /\ double_counted = 0 /\ accounted_base = 0
    /\ opened = 1 /\ closed = 0 /\ overrun = FALSE

-----------------------------------------------------------------------------
(* neo_process, on the statistics of the ACK *)

\* The sending side: when the interval is over it notes where it ended and opens the
\* next slot, unless that is the one the receiving side is at.  The index has moved
\* by then.
SendSide(over) ==
    LET ended == [intervals EXCEPT ![send_index].packets_ended = data_segs_out]
        next == NextIndex(send_index)
        full == next = receive_index
    IN  IF over
          THEN [ring |-> IF full THEN ended ELSE Start(ended, next, data_segs_out),
                index |-> next, full |-> full, started |-> IF full THEN 0 ELSE 1]
          ELSE [ring |-> intervals, index |-> send_index, full |-> FALSE, started |-> 0]

Counted(acc) == acc - double_counted

\* The receiving side: the interval is credited with what was accounted since the
\* last ACK if the count before this ACK lies inside it, and is closed when all but
\* Ignore of its packets are accounted for.
Inside(interval) == packets_counted > Ignore + interval.packets_sent_base
Closes(interval, counted) ==
    /\ interval.packets_ended # 0
    /\ interval.packets_ended - Ignore < counted

Process(over, acc) ==
    LET send == SendSide(over)
        r == receive_index
        ring == IF Inside(send.ring[r])
                  THEN [send.ring EXCEPT ![r].fresh = TRUE, ![r].accounted = @ + acc - accounted_base]
                  ELSE send.ring
        closes == Closes(ring[r], Counted(acc))
        next == NextIndex(r)
    IN  /\ send_index' = send.index
        /\ packets_counted' = Counted(acc)
        /\ receive_index' = IF closes THEN next ELSE r
        /\ intervals' = IF closes THEN [ring EXCEPT ![next].fresh = FALSE] ELSE ring
        /\ first_circle' = IF closes /\ next = 0 THEN FALSE ELSE first_circle
        /\ opened' = opened + send.started
        /\ closed' = IF closes THEN closed + 1 ELSE closed
        /\ overrun' = (overrun \/ send.full)

\* neo_cong_control for an ACK that accounts for n more segments; late of them had
\* been counted as lost and were not sent again.  The stack calls it when data was
\* outstanding, so some was sent.
Ack(n, late, over) ==
    /\ data_segs_out > 0
    /\ late <= n /\ n - late <= InFlight
    /\ late <= MaybeLost /\ doubles + late <= MaxDoubles
    /\ opened < MaxIntervals /\ closed < MaxIntervals
    /\ accounted' = accounted + n
    /\ doubles' = doubles + late
    /\ Process(over, accounted')
    /\ accounted_base' = accounted'
    /\ UNCHANGED <<data_segs_out, double_counted>>

\* An ACK without a valid rate sample only moves the base.
AckNoSample(n) ==
    /\ n <= InFlight
    /\ accounted' = accounted + n
    /\ accounted_base' = accounted'
    /\ UNCHANGED <<intervals, send_index, receive_index, first_circle, packets_counted,
                   double_counted, data_segs_out, doubles, opened, closed, overrun>>

\* neo_set_state on a timeout, after n segments were marked lost: what is counted
\* twice is found by comparing with what was sent.
DoubleCountedSlip(acc, inFlight) == double_counted + (acc + inFlight - data_segs_out)
DoubleCounted(acc, inFlight) ==
    double_counted + (acc + inFlight - data_segs_out - double_counted)

Timeout(n) ==
    /\ n <= InFlight
    /\ accounted' = accounted + n
    /\ double_counted' = DoubleCounted(accounted', InFlight - n)
    /\ UNCHANGED <<intervals, send_index, receive_index, first_circle, packets_counted,
                   accounted_base, data_segs_out, doubles, opened, closed, overrun>>

Transmit ==
    /\ data_segs_out < MaxSegs
    /\ data_segs_out' = data_segs_out + 1
    /\ UNCHANGED <<neo, accounted, doubles, opened, closed, overrun>>

Segs == 0 .. MaxSegs

Next ==
    \/ \E n \in Segs, late \in 0 .. MaxDoubles, over \in BOOLEAN : Ack(n, late, over)
    \/ \E n \in Segs : AckNoSample(n) \/ Timeout(n)
    \/ Transmit

Spec == Init /\ [][Next]_vars

\* neo_fetch_measurements answers with zeros while this holds, and otherwise from the
\* two slots before receive_index.
TooEarlySlip == first_circle /\ receive_index < 1
TooEarly == first_circle /\ receive_index < 2
LastReceived == PrevIndex(receive_index)
LastLastReceived == PrevIndex(LastReceived)

-----------------------------------------------------------------------------
(* Correctness *)

TypeOK ==
    /\ intervals \in [Ring -> [packets_sent_base : Nat, packets_ended : Nat,
                               accounted : Nat, fresh : BOOLEAN, no : Nat]]
    /\ send_index \in Ring /\ receive_index \in Ring
    /\ first_circle \in BOOLEAN /\ overrun \in BOOLEAN
    /\ packets_counted \in Nat /\ double_counted \in 0 .. doubles
    /\ accounted_base \in 0 .. accounted
    /\ data_segs_out \in Segs /\ doubles \in 0 .. MaxDoubles
    /\ accounted \in 0 .. data_segs_out + doubles
    /\ opened \in Nat /\ closed \in Nat

Slot(n) == (n - 1) % NumIntervals

\* Until the ring is full for the first time, the indices and the slots say what was
\* opened and closed: the receiving side stays behind the sending side, also when
\* slots are used again and segments are counted twice.
RingAgrees ==
    ~overrun =>
        /\ closed < opened /\ opened - closed <= NumIntervals
        /\ send_index = Slot(opened) /\ receive_index = Slot(closed + 1)
        /\ \A n \in closed + 1 .. opened : intervals[Slot(n)].no = n

\* Every segment belongs to one interval: an interval that is waiting for ACKs ends
\* where the next one begins.
Contiguous ==
    ~overrun =>
        \A n \in closed + 1 .. opened - 1 :
            /\ intervals[Slot(n + 1)].packets_sent_base = Larger(intervals[Slot(n)].packets_ended, 1)
            /\ intervals[Slot(n)].packets_ended \in 1 .. data_segs_out

\* The controller is told of the last two closed intervals, as long as two slots are
\* neither waiting for ACKs nor being sent.  Packets that are reported as accounted for
\* come with the times of the same use of the slot.
MeasuresClosed ==
    ~overrun /\ ~TooEarly /\ opened - closed <= NumIntervals - 2 =>
        /\ intervals[LastReceived].no = closed /\ closed >= 2
        /\ intervals[LastLastReceived].no = closed - 1
        /\ \A i \in {LastReceived, LastLastReceived} :
              /\ intervals[i].packets_ended >= intervals[i].packets_sent_base
              /\ intervals[i].accounted > 0 => intervals[i].fresh

=============================================================================
