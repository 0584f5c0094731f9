------------------------------- MODULE Scubic -------------------------------
(***************************************************************************)
(* CUBIC with parameters the controller changes while it runs              *)
(* (tcp_scubic.c), for one flow.  The TCP stack calls the module under the *)
(* socket lock, so a call is one step; what the stack does between the     *)
(* calls is the environment.                                               *)
(*                                                                         *)
(* Time is counted in jiffies.  The fixed point of the code is kept with   *)
(* its precision as a constant: BICTCP_HZ is 10, HZ the kernel's, Word     *)
(* 2^32 and U64Bits 64 in the code.  The wrap of jiffies is left out.  A   *)
(* definition with the suffix Slip is a plausible mistake in the           *)
(* definition after it; no behaviour uses it.                              *)
(***************************************************************************)
EXTENDS Integers, Sequences

CONSTANTS
    BICTCP_HZ,           \* bits of the fraction of a second
    U64Bits,             \* bits of a u64: products wrap there
    HZ, Word,            \* jiffies in a second, values of a u32
    HystartLowWindow, HystartMinSamples, HystartAckDelta,   \* module parameters
    Clamp,               \* tp->snd_cwnd_clamp
    ParamVectors,        \* what spine_invoke may hand to scubic_set_params
    InitCwnds, InitSsthreshs,
    Rtts,                \* rtt_us of a sample, negative without a timestamp
    AckCounts, IdleTimes,
    MaxTime,             \* bound: jiffies
    MaxLosses,           \* bound: reductions and timeouts
    MaxCount             \* bound: ACKed segments and Reno window of an epoch

ASSUME UnitAssumption ==
    BICTCP_HZ \in Nat /\ U64Bits \in 7 .. 64 /\ HZ \in Nat \ {0} /\ Word \in Nat \ {0}
ASSUME HystartAssumption ==
    HystartLowWindow \in Nat \ {0, 1} /\ HystartMinSamples \in Nat \ {0} /\ HystartAckDelta \in Nat
ASSUME InputAssumption ==
    /\ Clamp \in Nat \ {0, 1} /\ MaxTime \in Nat \ {0}
    /\ MaxCount \in Nat /\ MaxLosses \in Nat
    /\ ParamVectors \subseteq Seq(Nat)
    /\ InitCwnds \subseteq 1 .. Clamp /\ InitSsthreshs \subseteq Nat \ {0, 1}
    /\ Rtts \subseteq Int /\ AckCounts \subseteq Nat \ {0} /\ IdleTimes \subseteq Nat

BICTCP_BETA_SCALE == 1024

VARIABLES
    ca,            \* struct bictcp: the cubic epoch and the parameters
    hy,            \* struct bictcp: its fields for hybrid slow start
    tp,            \* the stack's side: window, threshold, congestion state
    now,           \* tcp_jiffies32
    spinning,      \* bictcp_update does not leave the friendliness loop
    losses,        \* reductions and timeouts so far
    spent,         \* history: segments this step used in congestion avoidance
    round          \* history: delays sampled since the round began

vars == <<ca, hy, tp, now, spinning, losses, spent, round>>

Larger(a, b)  == IF a >= b THEN a ELSE b
Smaller(a, b) == IF a <= b THEN a ELSE b

-----------------------------------------------------------------------------
(* Parameters *)

BetaScale(beta) ==
    ((8 * (BICTCP_BETA_SCALE + beta)) \div 3) \div (BICTCP_BETA_SCALE - beta)
CubeShift == 10 + 3 * BICTCP_HZ
CubeFactor(bic) == (2 ^ CubeShift) \div (bic * 10)

UpdateParams(c, bic, beta) ==
    [c EXCEPT !.bic_scale = bic, !.beta = beta,
              !.beta_scale = BetaScale(beta), !.cube_factor = CubeFactor(bic)]

\* scubic_set_params: two values in 1 .. 1023, or the vector is ignored.
SetParams(c, v) ==
    IF Len(v) = 2 /\ \A k \in 1 .. 2 : v[k] \in 1 .. 1023
      THEN UpdateParams(c, v[1], v[2]) ELSE c

-----------------------------------------------------------------------------
(* Initialisation and reset *)

\* bictcp_reset leaves the parameters and cube_rtt_scale alone.
ResetCurve(c) ==
    [c EXCEPT !.cnt = 0, !.last_max_cwnd = 0, !.last_time = 0,
              !.bic_origin_point = 0, !.bic_K = 0, !.delay_min = 0,
              !.epoch_start = 0, !.ack_cnt = 0, !.tcp_cwnd = 0]
ResetSlip(c) == ResetCurve(c)
Reset(c) == [ResetCurve(c) EXCEPT !.last_cwnd = 0]

\* bictcp_clock in milliseconds
Clock(j) == (j * 1000) \div HZ

HystartReset(h) ==
    [h EXCEPT !.round_start = Clock(now), !.last_ack = Clock(now),
              !.curr_rtt = 0, !.sample_cnt = 0]

Zeroes ==
    [cnt |-> 0, last_max_cwnd |-> 0, last_cwnd |-> 0, last_time |-> 0,
     bic_origin_point |-> 0, bic_K |-> 0, delay_min |-> 0, epoch_start |-> 0,
     ack_cnt |-> 0, tcp_cwnd |-> 0, cube_rtt_scale |-> 0,
     bic_scale |-> 0, beta |-> 0, beta_scale |-> 0, cube_factor |-> 0]

Init ==
    /\ now = 1
    /\ ca = UpdateParams(Reset(Zeroes), 41, 717)
    /\ hy = [round_start |-> Clock(1), last_ack |-> Clock(1), curr_rtt |-> 0,
             sample_cnt |-> 0, found |-> {}]
    /\ \E w \in InitCwnds, ssthresh \in InitSsthreshs :
          tp = [cwnd |-> w, cwnd_cnt |-> 0, ssthresh |-> ssthresh, state |-> "open",
                prior_cwnd |-> 0, prior_ssthresh |-> 0]
    /\ spinning = FALSE
    /\ losses = 0 /\ spent = 0 /\ round = {}

-----------------------------------------------------------------------------
(* cubic_root: a table lookup and one step of Newton's method *)

RootTable ==
    <<0, 54, 54, 54, 118, 118, 118, 118, 123, 129, 134, 138, 143, 147, 151, 156,
      157, 161, 164, 168, 170, 173, 176, 179, 181, 185, 187, 190, 192, 194, 197, 199,
      200, 202, 204, 206, 209, 211, 213, 215, 217, 219, 221, 222, 224, 225, 227, 229,
      231, 232, 234, 236, 237, 239, 240, 242, 244, 245, 246, 248, 250, 251, 252, 254>>

Fls(a) == CHOOSE b \in 0 .. U64Bits : a < 2 ^ b /\ (b = 0 \/ a >= 2 ^ (b - 1))

CubicRoot(a) ==
    LET b == ((Fls(a) * 84) \div 256) - 1
        guess == ((RootTable[a \div 2 ^ (3 * b) + 1] + 10) * 2 ^ b) \div 64
        newton == 2 * guess + (a \div (guess * (guess - 1)))
    IN  IF a < 64 THEN (RootTable[a + 1] + 35) \div 64
        ELSE (newton * 341) \div 1024

\* Powers of two double from one to the next; the provers do not know what ^ is.
ASSUME PowersAssumption ==
    /\ 2 ^ 0 = 1 /\ 2 ^ BICTCP_HZ \in Nat \ {0} /\ 2 ^ CubeShift \in Nat \ {0}
    /\ \A k \in 0 .. U64Bits : 2 ^ k \in Nat \ {0}
    /\ \A k \in 1 .. U64Bits : 2 ^ k = 2 * 2 ^ (k - 1)

-----------------------------------------------------------------------------
(* bictcp_update *)

\* A new epoch fixes K, the origin and the scale the curve is computed with; they
\* belong together, so a parameter that changes later waits for the next epoch.
StartEpoch(c, w, acked) ==
    [c EXCEPT
        !.epoch_start = now, !.ack_cnt = acked, !.tcp_cwnd = w,
        !.cube_rtt_scale = c.bic_scale * 10,
        !.bic_K = IF c.last_max_cwnd <= w THEN 0
                  ELSE CubicRoot((c.cube_factor * (c.last_max_cwnd - w)) % 2 ^ U64Bits),
        !.bic_origin_point = Larger(c.last_max_cwnd, w)]

BeginEpochSlip(c, w, acked) ==
    IF c.epoch_start = 0 THEN StartEpoch(c, w, acked)
    ELSE [c EXCEPT !.cube_rtt_scale = c.bic_scale * 10]
BeginEpoch(c, w, acked) ==
    IF c.epoch_start = 0 THEN StartEpoch(c, w, acked) ELSE c

MsecsToJiffies(m) == (m * HZ + 999) \div 1000

\* Time in the epoch, in units of 2^-BICTCP_HZ seconds
Elapsed(c) ==
    ((now - c.epoch_start + MsecsToJiffies(c.delay_min \div 8)) * 2 ^ BICTCP_HZ) \div HZ

BelowOrigin(c) == Elapsed(c) < c.bic_K

\* c/rtt * (t-K)^3, computed in a u64 and kept in a u32
CubeAt(scale, offs) ==
    (((scale * offs * offs * offs) % 2 ^ U64Bits) \div 2 ^ CubeShift) % Word
CubeDelta(c) ==
    CubeAt(c.cube_rtt_scale,
           IF BelowOrigin(c) THEN c.bic_K - Elapsed(c) ELSE Elapsed(c) - c.bic_K)

Target(c) == (IF BelowOrigin(c) THEN c.bic_origin_point - CubeDelta(c)
              ELSE c.bic_origin_point + CubeDelta(c)) % Word

Cubic(c, w) ==
    LET cnt == IF Target(c) > w THEN w \div (Target(c) - w) ELSE 100 * w
    IN  [c EXCEPT !.cnt = IF c.last_max_cwnd = 0 THEN Smaller(cnt, 20) ELSE cnt]

\* The estimate of a Reno window: while (ack_cnt > delta) in closed form.  With a
\* delta of zero the loop has no end.
RenoDelta(c, w) == (w * c.beta_scale) \div 8
LoopEnds(c, w) == c.ack_cnt = 0 \/ RenoDelta(c, w) > 0
Friendly(c, w) ==
    LET d == RenoDelta(c, w)
        rounds == IF c.ack_cnt > d THEN (c.ack_cnt - 1) \div d ELSE 0
        est == c.tcp_cwnd + rounds
    IN  [c EXCEPT !.ack_cnt = @ - rounds * d, !.tcp_cwnd = est,
                  !.cnt = IF est > w THEN Smaller(@, w \div (est - w)) ELSE @]

\* cwnd grows by one per two ACKs at most.
AtLeastTwoSlip(c) == [c EXCEPT !.cnt = Larger(@, 1)]
AtLeastTwo(c) == [c EXCEPT !.cnt = Larger(@, 2)]

TooSoon(c, w) == c.last_cwnd = w /\ now - c.last_time <= HZ \div 32
SameJiffy(c) == c.epoch_start # 0 /\ now = c.last_time

\* The fields as the friendliness code finds them
BeforeFriendly(c, w, acked) ==
    IF SameJiffy(c) THEN c
    ELSE Cubic(BeginEpoch([c EXCEPT !.last_cwnd = w, !.last_time = now], w, acked), w)

\* tcp_cong_avoid_ai of the stack: one segment per cnt acked ones
Additive(t, cnt, acked) ==
    LET early == t.cwnd_cnt >= cnt
        credit == (IF early THEN 0 ELSE t.cwnd_cnt) + acked
    IN  [t EXCEPT !.cwnd = Smaller(@ + (IF early THEN 1 ELSE 0) + credit \div cnt, Clamp),
                  !.cwnd_cnt = credit % cnt]

\* bictcp_update and tcp_cong_avoid_ai
Avoid(c, t, acked) ==
    LET counted == [c EXCEPT !.ack_cnt = @ + acked]
        before == BeforeFriendly(counted, t.cwnd, acked)
        after == IF TooSoon(counted, t.cwnd) THEN counted
                 ELSE AtLeastTwo(Friendly(before, t.cwnd))
    IN  IF ~TooSoon(counted, t.cwnd) /\ ~LoopEnds(before, t.cwnd)
          THEN /\ spinning' = TRUE
               /\ ca' = before
               /\ UNCHANGED <<tp, spent>>
          ELSE /\ ca' = after
               /\ tp' = Additive(t, after.cnt, acked)
               /\ spent' = acked
               /\ UNCHANGED spinning

-----------------------------------------------------------------------------
(* The calls of the stack *)

InSlowStart == tp.cwnd < tp.ssthresh

\* bictcp_cong_avoid: spine_invoke may change the parameters, then the window
\* grows.  In slow start tcp_slow_start takes its share of the ACK first, and
\* after(ack, end_seq) begins a new round.
CongAvoid(v, acked, cwnd_limited, passes_end_seq) ==
    LET c == SetParams(ca, v)
        grown == IF InSlowStart THEN Smaller(tp.cwnd + acked, tp.ssthresh) ELSE tp.cwnd
        left == acked - (grown - tp.cwnd)
        t == [tp EXCEPT !.cwnd = Smaller(grown, Clamp)]
    IN  /\ ~spinning
        /\ ca.ack_cnt <= MaxCount /\ ca.tcp_cwnd <= MaxCount
        /\ tp.state # "reduction"
        /\ IF cwnd_limited /\ InSlowStart /\ passes_end_seq
             THEN hy' = HystartReset(hy) /\ round' = {}
             ELSE UNCHANGED <<hy, round>>
        /\ IF cwnd_limited /\ left > 0
             THEN Avoid(c, t, left)
             ELSE /\ ca' = c
                  /\ tp' = IF cwnd_limited THEN t ELSE tp
                  /\ spent' = 0
                  /\ UNCHANGED spinning
        /\ UNCHANGED <<now, losses>>

\* hystart_update; h.found gains what is detected at this ACK.
Trains(h) == Clock(now) - h.last_ack <= HystartAckDelta
TrainFound(h, delay_min) ==
    Trains(h) /\ Clock(now) - h.round_start > delay_min \div 16

DelayThresh(x) == Smaller(Larger(x, 32), 128)

HystartUpdate(h, delay, delay_min) ==
    LET sampling == h.sample_cnt < HystartMinSamples
        rtt == IF h.curr_rtt > delay \/ (sampling /\ h.curr_rtt = 0) THEN delay
               ELSE h.curr_rtt
        late == ~sampling /\ rtt > delay_min + DelayThresh(delay_min \div 8)
    IN  IF h.found # {} THEN h
        ELSE [h EXCEPT
            !.last_ack = IF Trains(h) THEN Clock(now) ELSE @,
            !.curr_rtt = rtt,
            !.sample_cnt = IF sampling THEN @ + 1 ELSE @,
            !.found = (IF TrainFound(h, delay_min) THEN {"train"} ELSE {})
                      \cup (IF late THEN {"delay"} ELSE {})]

\* bictcp_acked: a delay in 1/8 ms, never 0, which stands for no sample.
DelaySlip(rtt_us) == (rtt_us * 8) \div 1000
Delay(rtt_us) == Larger((rtt_us * 8) \div 1000, 1)

Discarded(rtt_us) ==
    rtt_us < 0 \/ (ca.epoch_start # 0 /\ now - ca.epoch_start < HZ)

PktsAcked(rtt_us) ==
    LET delay == Delay(rtt_us)
        delay_min == IF ca.delay_min = 0 \/ ca.delay_min > delay THEN delay
                     ELSE ca.delay_min
        looks == InSlowStart /\ tp.cwnd >= HystartLowWindow
        h == IF looks THEN HystartUpdate(hy, delay, delay_min) ELSE hy
    IN  /\ ~spinning
        /\ ~Discarded(rtt_us)
        /\ ca' = [ca EXCEPT !.delay_min = delay_min]
        /\ hy' = h
        /\ tp' = IF h.found # hy.found THEN [tp EXCEPT !.ssthresh = tp.cwnd] ELSE tp
        /\ round' = IF looks /\ hy.found = {} THEN round \cup {delay} ELSE round
        /\ spent' = 0
        /\ UNCHANGED <<now, spinning, losses>>

\* bictcp_recalc_ssthresh
LastMax(w) ==
    IF w < ca.last_max_cwnd
      THEN (w * (BICTCP_BETA_SCALE + ca.beta)) \div (2 * BICTCP_BETA_SCALE) ELSE w
SsthreshSlip(w) == Larger((w * ca.beta) \div BICTCP_BETA_SCALE, 0)
Ssthresh(w) == Larger((w * ca.beta) \div BICTCP_BETA_SCALE, 2)
EndOfEpoch == [ca EXCEPT !.epoch_start = 0, !.last_max_cwnd = LastMax(tp.cwnd)]

\* The stack enters CWR or Recovery, remembering what an undo brings back.
EnterReduction ==
    /\ ~spinning
    /\ tp.state = "open"
    /\ losses < MaxLosses
    /\ losses' = losses + 1
    /\ ca' = EndOfEpoch
    /\ tp' = [tp EXCEPT !.state = "reduction", !.ssthresh = Ssthresh(tp.cwnd),
                        !.cwnd_cnt = 0, !.prior_cwnd = tp.cwnd, !.prior_ssthresh = tp.ssthresh]
    /\ spent' = 0
    /\ UNCHANGED <<hy, now, spinning, round>>

\* At its end the window is ssthresh, or both values are restored
\* (tcp_reno_undo_cwnd).
LeaveReduction(undo) ==
    /\ ~spinning
    /\ tp.state = "reduction"
    /\ tp' = [tp EXCEPT
                !.state = "open",
                !.cwnd = IF undo THEN Larger(@, tp.prior_cwnd) ELSE tp.ssthresh,
                !.ssthresh = IF undo THEN Larger(@, tp.prior_ssthresh) ELSE @,
                !.prior_cwnd = 0, !.prior_ssthresh = 0]
    /\ spent' = 0
    /\ UNCHANGED <<ca, hy, now, spinning, losses, round>>

\* A retransmission timeout; within a recovery the stack may keep ssthresh.
\* bictcp_state then resets the epoch and hybrid slow start.
Timeout(asks_ssthresh) ==
    /\ ~spinning
    /\ asks_ssthresh \/ tp.state # "open"
    /\ losses < MaxLosses
    /\ losses' = losses + 1
    /\ ca' = Reset(IF asks_ssthresh THEN EndOfEpoch ELSE ca)
    /\ hy' = [HystartReset(hy) EXCEPT !.found = {}]
    /\ tp' = IF asks_ssthresh
               THEN [tp EXCEPT !.state = "loss", !.cwnd = 1, !.cwnd_cnt = 0,
                               !.ssthresh = Ssthresh(tp.cwnd),
                               !.prior_cwnd = tp.cwnd, !.prior_ssthresh = tp.ssthresh]
               ELSE [tp EXCEPT !.state = "loss", !.cwnd = 1, !.cwnd_cnt = 0]
    /\ round' = {}
    /\ spent' = 0
    /\ UNCHANGED <<now, spinning>>

\* The loss is repaired, or was none.
LeaveLoss(undo) ==
    /\ ~spinning
    /\ tp.state = "loss"
    /\ tp' = [tp EXCEPT
                !.state = "open",
                !.cwnd = IF undo THEN Larger(@, tp.prior_cwnd) ELSE @,
                !.ssthresh = IF undo THEN Larger(@, tp.prior_ssthresh) ELSE @,
                !.prior_cwnd = 0, !.prior_ssthresh = 0]
    /\ spent' = 0
    /\ UNCHANGED <<ca, hy, now, spinning, losses, round>>

\* bictcp_cwnd_event(CA_EVENT_TX_START) after some idle time: the epoch moves on,
\* never into the future.
ShiftedSlip(delta) == ca.epoch_start + delta
Shifted(delta) == Smaller(ca.epoch_start + delta, now)

TxStart(delta) ==
    /\ ~spinning
    /\ delta \in 1 .. now
    /\ ca.epoch_start # 0
    /\ ca' = [ca EXCEPT !.epoch_start = Shifted(delta)]
    /\ spent' = 0
    /\ UNCHANGED <<hy, tp, now, spinning, losses, round>>

Tick ==
    /\ ~spinning
    /\ now < MaxTime
    /\ now' = now + 1
    /\ spent' = 0
    /\ UNCHANGED <<ca, hy, tp, spinning, losses, round>>

\* The friendliness loop goes on.
Spin == spinning /\ UNCHANGED vars

Next ==
    \/ \E v \in ParamVectors, acked \in AckCounts, limited, passes \in BOOLEAN :
          CongAvoid(v, acked, limited, passes)
    \/ \E rtt_us \in Rtts : PktsAcked(rtt_us)
    \/ EnterReduction
    \/ \E undo \in BOOLEAN : LeaveReduction(undo) \/ LeaveLoss(undo)
    \/ \E asks_ssthresh \in BOOLEAN : Timeout(asks_ssthresh)
    \/ \E delta \in IdleTimes : TxStart(delta)
    \/ Tick
    \/ Spin

Spec == Init /\ [][Next]_vars

-----------------------------------------------------------------------------
(* Correctness *)

TypeOK ==
    /\ ca \in [DOMAIN Zeroes -> Nat]
    /\ ca.bic_scale \in 1 .. 1023 /\ ca.beta \in 1 .. 1023
    /\ hy \in [round_start : Nat, last_ack : Nat, curr_rtt : Nat,
               sample_cnt : 0 .. HystartMinSamples, found : SUBSET {"train", "delay"}]
    /\ tp \in [cwnd : 1 .. Clamp, cwnd_cnt : Nat, ssthresh : Nat \ {0, 1},
               state : {"open", "reduction", "loss"},
               prior_cwnd : 0 .. Clamp, prior_ssthresh : Nat]
    /\ now \in 1 .. MaxTime
    /\ spinning \in BOOLEAN
    /\ losses \in 0 .. MaxLosses
    /\ spent \in Nat /\ round \subseteq Nat

\* The controller may change bic_scale in the middle of an epoch; the K of the epoch and
\* the scale its curve is computed with are still of one bic_scale ("we would make these
\* parameters private for each flow", tcp_scubic.c:67), or the curve would miss both the
\* window it began with and its origin.
CurveOfOneScale ==
    ca.epoch_start # 0 /\ ca.bic_K # 0 =>
        \E bic \in 1 .. 1023, lost \in 1 .. ca.bic_origin_point :
            /\ ca.cube_rtt_scale = bic * 10
            /\ ca.bic_K = CubicRoot((CubeFactor(bic) * lost) % 2 ^ U64Bits)

\* An epoch never begins in the future, whatever idle time TX_START shifts it by:
\* the unsigned t of bictcp_update would be huge.
EpochNotAhead == ca.epoch_start <= now

\* "The maximum rate of cwnd increase CUBIC allows is 1 packet per 2 packets ACKed"
\* (tcp_scubic.c:477), also with what cwnd_cnt has saved up under another cnt and
\* with cnt of the last update when bictcp_update returns early.
OnePerTwoAcked ==
    [][spent' > 0 =>
          LET slow_started == Smaller(Larger(tp.cwnd, tp.ssthresh), Clamp)
          IN  2 * (tp'.cwnd - slow_started) + tp'.cwnd_cnt <= tp.cwnd_cnt + spent']_vars

\* The stack divides by cnt: once there was an update cnt is usable, also when the
\* next one returns early, and a reset of cnt forces the next one to compute it.
CntUsable == ca.last_cwnd # 0 /\ ~spinning => ca.cnt >= 2

\* "the minimum rtt of current round" (tcp_scubic.c:119): what HyStart compares with
\* the path's minimum is the least delay of this round alone.
CurrRttOfRound ==
    /\ hy.sample_cnt = 0 <=> round = {}
    /\ round # {} => hy.curr_rtt \in round /\ \A d \in round : hy.curr_rtt <= d

\* "Unless CUBIC is enabled and congestion window is large this behaves the same as
\* the original Reno" (tcp_scubic.c:23): with a small window an ACK is handled and
\* control returns to the stack.
FriendlinessEnds == ~spinning

=============================================================================
