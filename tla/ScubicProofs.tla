---------------------------- MODULE ScubicProofs ----------------------------
(***************************************************************************)
(* Proofs about Scubic for all values of the constants: an epoch never     *)
(* begins in the future; once there was an update the stack never divides  *)
(* by a cnt below two; HyStart compares delays of one round; every field   *)
(* stays in its range, cubic_root included; congestion avoidance grows by  *)
(* one packet per two ACKed ones at most; and the curve of an epoch is of  *)
(* one bic_scale.  The first three need nothing of the fixed point and are *)
(* proved from invariants of their own.  The last theorem computes, with   *)
(* the code's constants, an epoch whose curve begins below zero.           *)
(***************************************************************************)
EXTENDS Scubic, FiniteSetTheorems, WellFoundedInduction, TLAPS

\* A step that preserves the invariant sees ca through these fields.
Fields == {"cnt", "last_cwnd", "epoch_start"}
Shape(c) == Fields \subseteq DOMAIN c /\ c.epoch_start \in Nat

ClockInv == now \in Nat /\ Shape(ca) /\ EpochNotAhead
Inv == ClockInv /\ CntUsable

-----------------------------------------------------------------------------
(* What the helpers leave of the fields *)

\* d has the epoch, the window and the cnt of c.
SameFields(c, d) ==
    /\ Fields \subseteq DOMAIN d
    /\ d.cnt = c.cnt /\ d.last_cwnd = c.last_cwnd /\ d.epoch_start = c.epoch_start

\* scubic_set_params touches none of the fields.
LEMMA SetParamsKeeps ==
  ASSUME NEW c, NEW v, Fields \subseteq DOMAIN c
  PROVE  SameFields(c, SetParams(c, v))
BY DEF SameFields, SetParams, UpdateParams, Fields

\* bictcp_reset ends the epoch and forgets the last update.
LEMMA ResetClears ==
  ASSUME NEW c, Fields \subseteq DOMAIN c
  PROVE  /\ Fields \subseteq DOMAIN Reset(c)
         /\ Reset(c).epoch_start = 0 /\ Reset(c).last_cwnd = 0
BY DEF Reset, ResetCurve, Fields

\* An update before friendliness keeps the epoch or starts one now.
LEMMA EpochKeptOrNow ==
  ASSUME NEW c, NEW w, NEW acked, Fields \subseteq DOMAIN c
  PROVE  LET d == BeforeFriendly(c, w, acked)
         IN  Fields \subseteq DOMAIN d /\ d.epoch_start \in {c.epoch_start, now}
<1> DEFINE seen == [c EXCEPT !.last_cwnd = w, !.last_time = now]
           begun == BeginEpoch(seen, w, acked)
<1>1. Fields \subseteq DOMAIN seen /\ seen.epoch_start = c.epoch_start
  BY DEF Fields
<1>2. Fields \subseteq DOMAIN begun /\ begun.epoch_start \in {c.epoch_start, now}
  <2>1. CASE seen.epoch_start = 0
    <3>1. begun = StartEpoch(seen, w, acked)
      BY <2>1 DEF BeginEpoch
    <3>2. Fields \subseteq DOMAIN StartEpoch(seen, w, acked)
          /\ StartEpoch(seen, w, acked).epoch_start = now
      BY <1>1 DEF StartEpoch, Fields
    <3> QED BY <3>1, <3>2
  <2>2. CASE seen.epoch_start # 0
    BY <1>1, <2>2 DEF BeginEpoch
  <2> QED BY <2>1, <2>2
<1> HIDE DEF begun
<1>3. Fields \subseteq DOMAIN Cubic(begun, w)
      /\ Cubic(begun, w).epoch_start = begun.epoch_start
  BY <1>2 DEF Cubic, Fields
<1>4. CASE SameJiffy(c)
  BY <1>4 DEF BeforeFriendly
<1>5. CASE ~SameJiffy(c)
  BY <1>2, <1>3, <1>5 DEF BeforeFriendly, begun
<1> QED BY <1>4, <1>5

\* Friendliness and the last line of bictcp_update only change cnt, which ends at two
\* at least.
LEMMA UpdateLeavesTwo ==
  ASSUME NEW c, NEW w, Fields \subseteq DOMAIN c
  PROVE  LET d == AtLeastTwo(Friendly(c, w))
         IN  /\ Fields \subseteq DOMAIN d
             /\ d.epoch_start = c.epoch_start /\ d.cnt >= 2
<1> DEFINE f == Friendly(c, w)
<1>1. Fields \subseteq DOMAIN f /\ f.epoch_start = c.epoch_start
  BY DEF Friendly, Fields
<1> HIDE DEF f
<1>2. Fields \subseteq DOMAIN AtLeastTwo(f) /\ AtLeastTwo(f).epoch_start = f.epoch_start
      /\ AtLeastTwo(f).cnt = Larger(f.cnt, 2)
  BY <1>1 DEF AtLeastTwo, Fields
<1>3. Larger(f.cnt, 2) >= 2
  BY DEF Larger
<1> QED BY <1>1, <1>2, <1>3 DEF f

\* bictcp_update and tcp_cong_avoid_ai keep the invariant.
LEMMA AvoidStep ==
  ASSUME Inv, ~spinning, now' = now,
         NEW v, NEW t, NEW acked, Avoid(SetParams(ca, v), t, acked)
  PROVE  Inv'
<1> DEFINE c == SetParams(ca, v)
           counted == [c EXCEPT !.ack_cnt = @ + acked]
           before == BeforeFriendly(counted, t.cwnd, acked)
           after == AtLeastTwo(Friendly(before, t.cwnd))
<1>1. SameFields(ca, c)
  BY SetParamsKeeps DEF Inv, ClockInv, Shape
<1> HIDE DEF c
<1>2. SameFields(ca, counted)
  BY <1>1 DEF SameFields, Fields
<1> HIDE DEF counted
<1>3. Fields \subseteq DOMAIN before /\ before.epoch_start \in {ca.epoch_start, now}
  BY <1>2, EpochKeptOrNow DEF SameFields
<1> HIDE DEF before
<1>4. Fields \subseteq DOMAIN after /\ after.epoch_start = before.epoch_start
      /\ after.cnt >= 2
  BY <1>3, UpdateLeavesTwo
<1> HIDE DEF after
<1>5. CASE TooSoon(counted, t.cwnd)
  <2>1. ca' = counted /\ spinning' = spinning
    BY <1>5 DEF Avoid, c, counted
  <2> QED BY <1>2, <2>1 DEF Inv, ClockInv, Shape, SameFields, EpochNotAhead, CntUsable
<1>6. CASE ~TooSoon(counted, t.cwnd) /\ LoopEnds(before, t.cwnd)
  <2>1. ca' = after
    BY <1>6 DEF Avoid, c, counted, before, after
  <2> QED BY <1>3, <1>4, <2>1 DEF Inv, ClockInv, Shape, EpochNotAhead, CntUsable
<1>7. CASE ~TooSoon(counted, t.cwnd) /\ ~LoopEnds(before, t.cwnd)
  <2>1. ca' = before /\ spinning' = TRUE
    BY <1>7 DEF Avoid, c, counted, before
  <2> QED BY <1>3, <2>1 DEF Inv, ClockInv, Shape, EpochNotAhead, CntUsable
<1> QED BY <1>5, <1>6, <1>7

-----------------------------------------------------------------------------
(* The invariant *)

LEMMA InitInv == ASSUME Init PROVE Inv
<1>1. Fields \subseteq DOMAIN Zeroes
  BY DEF Fields, Zeroes
<1>2. Fields \subseteq DOMAIN Reset(Zeroes)
      /\ Reset(Zeroes).epoch_start = 0 /\ Reset(Zeroes).last_cwnd = 0
  BY <1>1, ResetClears
<1>3. Fields \subseteq DOMAIN ca /\ ca.epoch_start = 0 /\ ca.last_cwnd = 0
  <2>1. ca = UpdateParams(Reset(Zeroes), 41, 717)
    BY DEF Init
  <2> QED BY <1>2, <2>1 DEF UpdateParams, Fields
<1> QED BY <1>3 DEF Init, Inv, ClockInv, Shape, EpochNotAhead, CntUsable

\* bictcp_cong_avoid: the parameters change, the window grows or not.
LEMMA CongAvoidStep ==
  ASSUME Inv, NEW v, NEW acked, NEW limited, NEW passes,
         CongAvoid(v, acked, limited, passes)
  PROVE  Inv'
<1>1. now' = now /\ ~spinning
  BY DEF CongAvoid
<1>2. CASE \E t, left : Avoid(SetParams(ca, v), t, left)
  BY <1>1, <1>2, AvoidStep
<1>3. CASE ca' = SetParams(ca, v) /\ spinning' = spinning
  <2>1. SameFields(ca, ca')
    BY <1>3, SetParamsKeeps DEF Inv, ClockInv, Shape
  <2> QED BY <1>1, <1>3, <2>1
          DEF Inv, ClockInv, Shape, SameFields, EpochNotAhead, CntUsable
<1> QED BY <1>2, <1>3 DEF CongAvoid

\* A call that ends the epoch, resets the curve or leaves the fields alone
LEMMA EpochEndsStep ==
  ASSUME Inv, now' = now, spinning' = spinning, Fields \subseteq DOMAIN ca',
         ca'.epoch_start \in {0, ca.epoch_start},
         \/ ca'.last_cwnd = 0
         \/ ca'.last_cwnd = ca.last_cwnd /\ ca'.cnt = ca.cnt
  PROVE  Inv'
BY DEF Inv, ClockInv, Shape, EpochNotAhead, CntUsable

\* A timeout resets the curve, after the epoch was ended or not.
LEMMA TimeoutStep ==
  ASSUME Inv, NEW asks_ssthresh, Timeout(asks_ssthresh)
  PROVE  Inv'
<1> DEFINE c == IF asks_ssthresh THEN EndOfEpoch ELSE ca
<1>1. Fields \subseteq DOMAIN c
  BY DEF EndOfEpoch, Inv, ClockInv, Shape, Fields
<1>2. now' = now /\ spinning' = spinning /\ ca' = Reset(c)
  BY DEF Timeout
<1> HIDE DEF c
<1>3. Fields \subseteq DOMAIN Reset(c)
      /\ Reset(c).epoch_start = 0 /\ Reset(c).last_cwnd = 0
  BY <1>1, ResetClears
<1> QED BY <1>2, <1>3, EpochEndsStep

\* Every step preserves the invariant.
LEMMA NextInv == ASSUME Inv, [Next]_vars PROVE Inv'
<1>0. Fields \subseteq DOMAIN ca /\ ca.epoch_start \in Nat /\ now \in Nat
  BY DEF Inv, ClockInv, Shape
<1>1. ASSUME NEW v \in ParamVectors, NEW acked \in AckCounts,
             NEW limited \in BOOLEAN, NEW passes \in BOOLEAN,
             CongAvoid(v, acked, limited, passes)
      PROVE  Inv'
  BY <1>1, CongAvoidStep
<1>2. ASSUME NEW rtt_us \in Rtts, PktsAcked(rtt_us) PROVE Inv'
  BY <1>0, <1>2, EpochEndsStep DEF PktsAcked, Fields
<1>3. CASE EnterReduction
  BY <1>0, <1>3, EpochEndsStep DEF EnterReduction, EndOfEpoch, Fields
<1>4. ASSUME NEW undo \in BOOLEAN, LeaveReduction(undo) \/ LeaveLoss(undo)
      PROVE  Inv'
  BY <1>0, <1>4, EpochEndsStep DEF LeaveReduction, LeaveLoss
<1>5. ASSUME NEW asks_ssthresh \in BOOLEAN, Timeout(asks_ssthresh) PROVE Inv'
  BY <1>5, TimeoutStep
<1>6. ASSUME NEW delta \in IdleTimes, TxStart(delta) PROVE Inv'
  <2>1. ca.epoch_start + delta \in Nat
    BY <1>0, <1>6 DEF TxStart
  <2>2. Shifted(delta) \in Nat /\ Shifted(delta) <= now
    BY <1>0, <2>1 DEF Shifted, Smaller
  <2>3. now' = now /\ spinning' = spinning /\ Fields \subseteq DOMAIN ca'
        /\ ca'.epoch_start = Shifted(delta)
        /\ ca'.last_cwnd = ca.last_cwnd /\ ca'.cnt = ca.cnt
    BY <1>0, <1>6 DEF TxStart, Fields
  <2> QED BY <1>0, <2>2, <2>3 DEF Inv, ClockInv, Shape, EpochNotAhead, CntUsable
<1>7. CASE Tick
  BY <1>0, <1>7 DEF Tick, Inv, ClockInv, Shape, EpochNotAhead, CntUsable
<1>8. CASE Spin \/ UNCHANGED vars
  BY <1>8 DEF Spin, vars, Inv, ClockInv, Shape, EpochNotAhead, CntUsable
<1> QED BY <1>1, <1>2, <1>3, <1>4, <1>5, <1>6, <1>7, <1>8 DEF Next

\* ClockInv and CntUsable are inductive together: an early return of bictcp_update
\* relies on the cnt of an earlier one.
THEOREM InvHolds == Spec => []Inv
BY InitInv, NextInv, PTL DEF Spec

\* No epoch begins in the future: the t of bictcp_update does not wrap, whatever idle
\* times TX_START reports (tcp_scubic.c:305-314).
THEOREM EpochsNotAhead == Spec => []EpochNotAhead
<1>1. Inv => EpochNotAhead
  BY DEF Inv, ClockInv
<1> QED BY <1>1, InvHolds, PTL

\* tcp_cong_avoid_ai never divides by zero: since the first update of a curve, cnt is
\* two or more, whatever parameters arrive and whenever the update returns early.
THEOREM CntIsUsable == Spec => []CntUsable
<1>1. Inv => CntUsable
  BY DEF Inv
<1> QED BY <1>1, InvHolds, PTL

-----------------------------------------------------------------------------
(* Hybrid slow start *)

HystartType == hy \in [round_start : Nat, last_ack : Nat, curr_rtt : Nat,
                       sample_cnt : 0 .. HystartMinSamples, found : SUBSET {"train", "delay"}]

\* The inductive invariant: no delay is 0, so curr_rtt = 0 means that this round has no
\* sample yet and the next one, which is always counted, is taken as it is.
HystartInv ==
    /\ now \in Nat /\ HystartType
    /\ round \subseteq Nat \ {0}
    /\ round = {} => hy.curr_rtt = 0
    /\ CurrRttOfRound

\* bictcp_clock yields a number of milliseconds.
LEMMA ClockType == ASSUME NEW j \in Nat  PROVE  Clock(j) \in Nat
<1>1. HZ \in Nat /\ HZ > 0
  BY UnitAssumption
<1>2. \A a \in Nat, b \in Nat : b > 0 => a \div b \in Nat
  OBVIOUS
<1>3. j * 1000 \in Nat
  OBVIOUS
<1> QED BY <1>1, <1>2, <1>3 DEF Clock

\* bictcp_acked never makes a delay of 0.
LEMMA DelayType == ASSUME NEW r \in Int, r >= 0  PROVE  Delay(r) \in Nat \ {0}
<1>1. (r * 8) \div 1000 \in Nat
  OBVIOUS
<1>2. \A a \in Nat : Larger(a, 1) \in Nat \ {0}
  BY DEF Larger
<1> QED BY <1>1, <1>2 DEF Delay

\* A new round begins without a sample.
LEMMA RoundBegins ==
  ASSUME HystartInv, NEW found \in SUBSET {"train", "delay"},
         hy' = [HystartReset(hy) EXCEPT !.found = found], round' = {}, now' \in Nat
  PROVE  HystartInv'
<1>1. Clock(now) \in Nat /\ 0 \in 0 .. HystartMinSamples
  BY ClockType, HystartAssumption DEF HystartInv
<1>2. hy' = [round_start |-> Clock(now), last_ack |-> Clock(now), curr_rtt |-> 0,
             sample_cnt |-> 0, found |-> found]
  BY DEF HystartInv, HystartType, HystartReset
<1>3. hy'.sample_cnt = 0 /\ hy'.curr_rtt = 0
  BY <1>2
<1>4. HystartType'
  <2>1. \A c, r \in Nat, k \in 0 .. HystartMinSamples, f \in SUBSET {"train", "delay"} :
            [round_start |-> c, last_ack |-> c, curr_rtt |-> r, sample_cnt |-> k, found |-> f]
              \in [round_start : Nat, last_ack : Nat, curr_rtt : Nat,
                   sample_cnt : 0 .. HystartMinSamples, found : SUBSET {"train", "delay"}]
    OBVIOUS
  <2>2. 0 \in Nat
    OBVIOUS
  <2>3. hy' \in [round_start : Nat, last_ack : Nat, curr_rtt : Nat,
                 sample_cnt : 0 .. HystartMinSamples, found : SUBSET {"train", "delay"}]
    BY <1>1, <1>2, <2>2, <2>1, ZenonT(30)
  <2> QED BY <2>3 DEF HystartType
<1> QED BY <1>3, <1>4 DEF HystartInv, CurrRttOfRound

\* A sample keeps curr_rtt the least delay of its round, counted or not.
LEMMA SampleStep ==
  ASSUME HystartInv, NEW delay \in Nat \ {0}, NEW delay_min, hy.found = {},
         hy' = HystartUpdate(hy, delay, delay_min), round' = round \cup {delay}, now' = now
  PROVE  HystartInv'
<1> DEFINE sampling == hy.sample_cnt < HystartMinSamples
           rtt == IF hy.curr_rtt > delay \/ (sampling /\ hy.curr_rtt = 0) THEN delay
                  ELSE hy.curr_rtt
           late == ~sampling /\ rtt > delay_min + DelayThresh(delay_min \div 8)
           last_ack == IF Trains(hy) THEN Clock(now) ELSE hy.last_ack
           cnt == IF sampling THEN hy.sample_cnt + 1 ELSE hy.sample_cnt
           found == (IF TrainFound(hy, delay_min) THEN {"train"} ELSE {})
                    \cup (IF late THEN {"delay"} ELSE {})
<1>1. hy' = [hy EXCEPT !.last_ack = last_ack, !.curr_rtt = rtt, !.sample_cnt = cnt,
                       !.found = found]
  BY DEF HystartUpdate
<1>2. /\ hy.sample_cnt \in 0 .. HystartMinSamples /\ hy.curr_rtt \in Nat
      /\ HystartMinSamples \in Nat \ {0} /\ hy.last_ack \in Nat /\ hy.round_start \in Nat
  BY HystartAssumption DEF HystartInv, HystartType
<1>3. last_ack \in Nat /\ found \in SUBSET {"train", "delay"}
  BY <1>2, ClockType DEF HystartInv
<1>4. cnt \in 0 .. HystartMinSamples /\ cnt # 0 /\ rtt \in Nat
  BY <1>2
<1>5. rtt \in round \cup {delay} /\ \A d \in round \cup {delay} : rtt <= d
  <2>1. CASE round = {}
    <3>1. hy.sample_cnt = 0 /\ hy.curr_rtt = 0
      BY <2>1 DEF HystartInv, CurrRttOfRound
    <3> QED BY <1>2, <2>1, <3>1
  <2>2. CASE round # {}
    <3>1. hy.curr_rtt \in round /\ \A d \in round : d \in Nat \ {0} /\ hy.curr_rtt <= d
      BY <2>2 DEF HystartInv, CurrRttOfRound
    <3> QED BY <1>2, <3>1
  <2> QED BY <2>1, <2>2
<1> HIDE DEF sampling, rtt, late, last_ack, cnt, found
<1>6. hy' = [round_start |-> hy.round_start, last_ack |-> last_ack, curr_rtt |-> rtt,
             sample_cnt |-> cnt, found |-> found]
  BY <1>1 DEF HystartInv, HystartType
<1>7. HystartType'
  BY <1>2, <1>3, <1>4, <1>6 DEF HystartType
<1>8. hy'.sample_cnt # 0 /\ hy'.curr_rtt = rtt
  BY <1>4, <1>6
<1> QED BY <1>5, <1>7, <1>8 DEF HystartInv, CurrRttOfRound

\* Every step preserves the invariant of hybrid slow start.
LEMMA HystartStep == ASSUME HystartInv, [Next]_vars PROVE HystartInv'
<1>1. ASSUME UNCHANGED <<hy, round>>, now' \in Nat PROVE HystartInv'
  BY <1>1 DEF HystartInv, HystartType, CurrRttOfRound
<1>2. ASSUME NEW v \in ParamVectors, NEW acked \in AckCounts,
             NEW limited \in BOOLEAN, NEW passes \in BOOLEAN,
             CongAvoid(v, acked, limited, passes)
      PROVE  HystartInv'
  <2>1. now' \in Nat
    BY <1>2 DEF CongAvoid, HystartInv
  <2>2. CASE hy' = HystartReset(hy) /\ round' = {}
    <3>1. hy.found \in SUBSET {"train", "delay"} /\ hy' = [HystartReset(hy) EXCEPT !.found = hy.found]
      BY <2>2 DEF HystartInv, HystartType, HystartReset
    <3> QED BY <2>1, <2>2, <3>1, RoundBegins
  <2> QED BY <1>1, <1>2, <2>1, <2>2 DEF CongAvoid
<1>3. ASSUME NEW rtt_us \in Rtts, PktsAcked(rtt_us) PROVE HystartInv'
  <2> DEFINE delay == Delay(rtt_us)
             delay_min == IF ca.delay_min = 0 \/ ca.delay_min > delay THEN delay ELSE ca.delay_min
             looks == InSlowStart /\ tp.cwnd >= HystartLowWindow
  <2>1. now' = now /\ now' \in Nat /\ delay \in Nat \ {0}
    <3>1. rtt_us \in Int /\ rtt_us >= 0
      BY <1>3, InputAssumption DEF PktsAcked, Discarded
    <3> QED BY <1>3, <3>1, DelayType DEF PktsAcked, HystartInv
  <2>2. /\ hy' = IF looks THEN HystartUpdate(hy, delay, delay_min) ELSE hy
        /\ round' = IF looks /\ hy.found = {} THEN round \cup {delay} ELSE round
    BY <1>3 DEF PktsAcked
  <2> HIDE DEF delay, delay_min, looks
  <2>3. CASE looks /\ hy.found = {}
    BY <2>1, <2>2, <2>3, SampleStep
  <2>4. CASE ~(looks /\ hy.found = {})
    <3>1. UNCHANGED <<hy, round>>
      BY <2>2, <2>4 DEF HystartUpdate
    <3> QED BY <1>1, <2>1, <3>1
  <2> QED BY <2>3, <2>4
<1>4. ASSUME NEW asks_ssthresh \in BOOLEAN, Timeout(asks_ssthresh) PROVE HystartInv'
  <2>1. now' \in Nat /\ hy' = [HystartReset(hy) EXCEPT !.found = {}] /\ round' = {}
    BY <1>4 DEF Timeout, HystartInv
  <2> QED BY <2>1, RoundBegins
<1>5. CASE Tick
  BY <1>1, <1>5 DEF Tick, HystartInv
<1>6. CASE EnterReduction \/ Spin \/ UNCHANGED vars
  BY <1>1, <1>6 DEF EnterReduction, Spin, vars, HystartInv
<1>7. ASSUME NEW undo \in BOOLEAN, LeaveReduction(undo) \/ LeaveLoss(undo) PROVE HystartInv'
  BY <1>1, <1>7 DEF LeaveReduction, LeaveLoss, HystartInv
<1>8. ASSUME NEW delta \in IdleTimes, TxStart(delta) PROVE HystartInv'
  BY <1>1, <1>8 DEF TxStart, HystartInv
<1> QED BY <1>2, <1>3, <1>4, <1>5, <1>6, <1>7, <1>8 DEF Next

\* What HyStart compares with the least delay of the path is the least delay of this
\* round alone, across timeouts, rounds that begin without a sample and samples that
\* come after the counted ones.
THEOREM CurrRttIsOfRound == Spec => []CurrRttOfRound
<1>1. Init => HystartInv
  <2>1. Clock(1) \in Nat /\ 0 \in 0 .. HystartMinSamples
    BY ClockType, HystartAssumption
  <2> QED BY <2>1 DEF Init, HystartInv, HystartType, CurrRttOfRound
<1>2. HystartInv => CurrRttOfRound
  BY DEF HystartInv
<1> QED BY <1>1, <1>2, HystartStep, PTL DEF Spec

-----------------------------------------------------------------------------
(* cubic_root *)

\* A set of numbers has a least one.
LEMMA Lowest ==
  ASSUME NEW T, T \subseteq Nat, T # {}
  PROVE  \E n \in T : \A m \in T : n <= m
<1> DEFINE Upto == {0 .. m : m \in T}
<1>1. Upto \subseteq FiniteSubsetsOf(Nat) /\ Upto # {}
  <2>1. \A m \in T : 0 .. m \in SUBSET Nat /\ IsFiniteSet(0 .. m)
    BY FS_Interval
  <2> QED
    BY <2>1 DEF FiniteSubsetsOf
<1>2. IsWellFoundedOn(StrictSubsetOrdering(Nat), FiniteSubsetsOf(Nat))
  BY FS_StrictSubsetOrderingWellFounded, Zenon
<1>3. PICK x \in Upto : \A y \in Upto : <<y, x>> \notin StrictSubsetOrdering(Nat)
  <2> HIDE DEF Upto
  <2> QED
    BY <1>1, <1>2, WFMin, Zenon
<1>4. PICK n \in T : x = 0 .. n
  BY <1>3
<1>5. ASSUME NEW m \in T, m < n
      PROVE  FALSE
  <2>1. 0 .. m \in Upto /\ 0 .. m \subseteq 0 .. n /\ n \in 0 .. n /\ n \notin 0 .. m
    BY <1>5
  <2>2. <<0 .. m, 0 .. n>> \in StrictSubsetOrdering(Nat)
    BY <2>1 DEF StrictSubsetOrdering
  <2> QED
    BY <1>3, <1>4, <2>1, <2>2
<1> QED
  BY <1>5

\* Quotients are numbers.
LEMMA DivType == ASSUME NEW a \in Nat, NEW b \in Nat \ {0}  PROVE  a \div b \in Nat
OBVIOUS

LEMMA DivMod ==
  ASSUME NEW a \in Nat, NEW b \in Nat \ {0}
  PROVE  /\ a \div b \in Nat /\ a % b \in 0 .. b - 1
         /\ a = b * (a \div b) + (a % b)
OBVIOUS

LEMMA TableType ==
  /\ \A k \in 1 .. 64 : RootTable[k] \in Nat
  /\ \A k \in 9 .. 64 : RootTable[k] >= 123
BY SMTT(60) DEF RootTable

\* fls64 of an argument that is not looked up directly
LEMMA FlsRange ==
  ASSUME NEW a \in Nat, a >= 64, a < 2 ^ U64Bits
  PROVE  /\ Fls(a) \in 7 .. U64Bits
         /\ a < 2 ^ Fls(a) /\ a >= 2 ^ (Fls(a) - 1)
<1> DEFINE T == {b \in 0 .. U64Bits : a < 2 ^ b}
<1>0. U64Bits \in 7 .. 64
  BY UnitAssumption
<1>1. PICK b \in T : \A c \in T : b <= c
  <2>1. T \subseteq Nat /\ U64Bits \in T
    BY <1>0
  <2> HIDE DEF T
  <2> QED
    BY <2>1, Lowest
<1>2. b = 0 \/ a >= 2 ^ (b - 1)
  <2> SUFFICES ASSUME b # 0, ~(a >= 2 ^ (b - 1))  PROVE  FALSE
    OBVIOUS
  <2>1. b - 1 \in 0 .. U64Bits /\ 2 ^ (b - 1) \in Nat
    BY <1>0, PowersAssumption
  <2> QED
    BY <1>1, <2>1
<1>3. Fls(a) \in 0 .. U64Bits /\ a < 2 ^ Fls(a) /\ (Fls(a) = 0 \/ a >= 2 ^ (Fls(a) - 1))
  <2> HIDE DEF T
  <2>1. b \in 0 .. U64Bits /\ a < 2 ^ b
    BY DEF T
  <2> QED
    BY <1>2, <2>1 DEF Fls
<1>4. 2 ^ 0 = 1 /\ 2 ^ 1 = 2 /\ 2 ^ 2 = 4 /\ 2 ^ 3 = 8 /\ 2 ^ 4 = 16 /\ 2 ^ 5 = 32 /\ 2 ^ 6 = 64
  <2>1. \A k \in 1 .. 6 : k \in 1 .. U64Bits
    BY <1>0
  <2>2. 2 ^ 1 = 2 * 2 ^ 0 /\ 2 ^ 2 = 2 * 2 ^ 1 /\ 2 ^ 3 = 2 * 2 ^ 2
    BY <2>1, PowersAssumption
  <2>3. 2 ^ 4 = 2 * 2 ^ 3 /\ 2 ^ 5 = 2 * 2 ^ 4 /\ 2 ^ 6 = 2 * 2 ^ 5
    BY <2>1, PowersAssumption
  <2> QED
    BY <2>2, <2>3, PowersAssumption
<1>5. Fls(a) \notin 0 .. 6
  <2> SUFFICES ASSUME Fls(a) \in 0 .. 6  PROVE  FALSE
    OBVIOUS
  <2>1. Fls(a) = 0 \/ Fls(a) = 1 \/ Fls(a) = 2 \/ Fls(a) = 3 \/ Fls(a) = 4 \/ Fls(a) = 5 \/ Fls(a) = 6
    OBVIOUS
  <2>2. 2 ^ Fls(a) \in {1, 2, 4, 8, 16, 32, 64}
    BY <1>4, <2>1, Zenon
  <2>3. PICK p \in {1, 2, 4, 8, 16, 32, 64} : p = 2 ^ Fls(a)
    BY <2>2
  <2> QED
    BY <1>3, <2>3
<1> QED
  BY <1>0, <1>3, <1>5

\* The table is read within its bounds, and the guess is at least two.
LEMMA RootType ==
  ASSUME NEW a \in Nat, a < 2 ^ U64Bits
  PROVE  CubicRoot(a) \in Nat
<1> DEFINE b == ((Fls(a) * 84) \div 256) - 1
           guess == ((RootTable[a \div 2 ^ (3 * b) + 1] + 10) * 2 ^ b) \div 64
           newton == 2 * guess + (a \div (guess * (guess - 1)))
<1>1. CASE a < 64
  <2>1. RootTable[a + 1] \in Nat
    BY <1>1, TableType
  <2>2. CubicRoot(a) = (RootTable[a + 1] + 35) \div 64
    BY <1>1 DEF CubicRoot
  <2> QED
    BY <2>1, <2>2, DivType
<1>2. CASE a >= 64
  <2>0. U64Bits \in 7 .. 64
    BY UnitAssumption
  <2>1. PICK f \in 7 .. U64Bits : f = Fls(a) /\ a < 2 ^ f /\ a >= 2 ^ (f - 1)
    BY <1>2, FlsRange
  <2>2. /\ b \in Nat /\ b >= 1 /\ 3 * b \in 0 .. U64Bits
        /\ f = 3 * b + 4 \/ f = 3 * b + 5 \/ f = 3 * b + 6
    BY <2>0, <2>1
  <2>3. PICK e \in Nat : e = b
    BY <2>2
  <2> HIDE DEF b
  <2>4. PICK p \in Nat \ {0} : p = 2 ^ (3 * e)
    BY <2>2, <2>3, PowersAssumption
  <2>5. a >= 8 * p /\ a < 64 * p
    <3>0. \A k \in 1 .. U64Bits : 2 ^ k = 2 * 2 ^ (k - 1)
      BY PowersAssumption
    <3>a. \A k \in 0 .. U64Bits : 2 ^ k \in Nat
      BY PowersAssumption
    <3>1. 2 ^ (3 * e + 1) = 2 * p /\ 2 ^ (3 * e + 2) = 4 * p /\ 2 ^ (3 * e + 3) = 8 * p
      <4>1. 3 * e + 1 \in 1 .. U64Bits /\ 3 * e + 2 \in 1 .. U64Bits /\ 3 * e + 3 \in 1 .. U64Bits
            /\ (3 * e + 1) - 1 = 3 * e /\ (3 * e + 2) - 1 = 3 * e + 1 /\ (3 * e + 3) - 1 = 3 * e + 2
        BY <2>0, <2>1, <2>2, <2>3
      <4> QED
        BY <4>1, <3>0, <2>4
    <3>2. CASE f = 3 * e + 4
      <4>1. 3 * e + 4 \in 1 .. U64Bits /\ (3 * e + 4) - 1 = 3 * e + 3 /\ f - 1 = 3 * e + 3
        BY <2>0, <2>1, <3>2
      <4>2. 2 ^ f = 16 * p /\ 2 ^ (f - 1) = 8 * p
        BY <4>1, <3>0, <3>1, <3>2
      <4> QED
        BY <4>2, <2>1
    <3>3. CASE f = 3 * e + 5
      <4>1. 3 * e + 4 \in 1 .. U64Bits /\ (3 * e + 4) - 1 = 3 * e + 3
            /\ 3 * e + 5 \in 1 .. U64Bits /\ (3 * e + 5) - 1 = 3 * e + 4 /\ f - 1 = 3 * e + 4
        BY <2>0, <2>1, <3>3
      <4>2. 2 ^ f = 32 * p /\ 2 ^ (f - 1) = 16 * p
        BY <4>1, <3>0, <3>1, <3>3
      <4> QED
        BY <4>2, <2>1
    <3>4. CASE f = 3 * e + 6
      <4>1. 3 * e + 4 \in 1 .. U64Bits /\ (3 * e + 4) - 1 = 3 * e + 3
            /\ 3 * e + 5 \in 1 .. U64Bits /\ (3 * e + 5) - 1 = 3 * e + 4
            /\ 3 * e + 6 \in 1 .. U64Bits /\ (3 * e + 6) - 1 = 3 * e + 5 /\ f - 1 = 3 * e + 5
        BY <2>0, <2>1, <3>4
      <4>2. 2 ^ f = 64 * p /\ 2 ^ (f - 1) = 32 * p
        BY <4>1, <3>0, <3>1, <3>4
      <4> QED
        BY <4>2, <2>1
    <3> QED
      BY <2>2, <2>3, <3>2, <3>3, <3>4
  <2>6. a \div p + 1 \in 9 .. 64
    <3>0. PICK q \in Nat : q = a \div p
      BY DivMod
    <3>1. PICK r \in 0 .. p - 1 : a = p * q + r
      <4>1. a % p \in 0 .. p - 1 /\ a = p * (a \div p) + (a % p)
        BY DivMod
      <4> QED
        BY <3>0, <4>1
    <3>2. ~(q <= 7)
      <4> SUFFICES ASSUME q <= 7  PROVE  FALSE
        OBVIOUS
      <4>1. q = 0 \/ q = 1 \/ q = 2 \/ q = 3 \/ q = 4 \/ q = 5 \/ q = 6 \/ q = 7
        OBVIOUS
      <4> QED
        BY <4>1, <3>1, <2>5
    <3>3. ~(q >= 64)
      <4> SUFFICES ASSUME q >= 64  PROVE  FALSE
        OBVIOUS
      <4>1. p * q = 64 * p + p * (q - 64) /\ p * (q - 64) \in Nat
        OBVIOUS
      <4> QED
        BY <4>1, <3>1, <2>5
    <3> QED
      BY <3>0, <3>2, <3>3
  <2>7. PICK v \in Nat : v = RootTable[a \div 2 ^ (3 * b) + 1] /\ v >= 123
    BY <2>3, <2>4, <2>6, TableType
  <2>8. PICK w \in Nat : w = 2 ^ b /\ w >= 2
    <3>1. e \in 1 .. U64Bits /\ e - 1 \in 0 .. U64Bits
      BY <2>0, <2>2, <2>3
    <3>2. 2 ^ e = 2 * 2 ^ (e - 1) /\ 2 ^ (e - 1) \in Nat \ {0}
      BY <3>1, PowersAssumption
    <3> QED
      BY <3>2, <2>3
  <2>9. PICK g \in Nat : g = guess /\ g >= 2
    <3>1. PICK x \in Nat : x = (v + 10) * w /\ x >= 266
      <4>1. (v + 10) * w = 133 * w + (v - 123) * w /\ (v - 123) * w \in Nat
        BY <2>7
      <4> QED
        BY <4>1, <2>8
    <3>2. guess = x \div 64
      BY <2>7, <2>8, <3>1
    <3> QED
      BY <3>1, <3>2
  <2> HIDE DEF guess
  <2>10. newton \in Nat
    <3>1. g * (g - 1) \in Nat \ {0}
      <4>1. g * (g - 1) = (g - 1) * (g - 1) + (g - 1) /\ (g - 1) * (g - 1) \in Nat
        BY <2>9
      <4> QED
        BY <4>1, <2>9
    <3>2. PICK d \in Nat \ {0} : d = guess * (guess - 1)
      BY <3>1, <2>9
    <3>3. a \div d \in Nat
      BY DivType
    <3> QED
      BY <3>2, <3>3, <2>9
  <2>11. CubicRoot(a) = (newton * 341) \div 1024
    BY <1>2 DEF CubicRoot, guess, b
  <2> HIDE DEF newton
  <2> QED
    BY <2>10, <2>11, DivType
<1> QED
  BY <1>1, <1>2

-----------------------------------------------------------------------------
(* The ranges of the variables *)

\* A curve whose next K can be computed
CurveOK(c) ==
    /\ c \in [DOMAIN Zeroes -> Nat]
    /\ c.bic_scale \in 1 .. 1023 /\ c.beta \in 1 .. 1023
    /\ c.cube_factor = CubeFactor(c.bic_scale) /\ c.last_max_cwnd <= Clamp

\* The window a reduction ends with is within the clamp.
TypeInv == TypeOK /\ CurveOK(ca) /\ (tp.state = "reduction" => tp.ssthresh <= Clamp)

\* The fields of struct bictcp
LEMMA FieldNames ==
  \A f \in {"cnt", "last_max_cwnd", "last_cwnd", "last_time", "bic_origin_point", "bic_K",
            "delay_min", "epoch_start", "ack_cnt", "tcp_cwnd", "cube_rtt_scale",
            "bic_scale", "beta", "beta_scale", "cube_factor"} : f \in DOMAIN Zeroes
BY DEF Zeroes

\* What CurveOK says of the fields, for a set of names that is not looked into
LEMMA CurveFields ==
  ASSUME NEW c, CurveOK(c)
  PROVE  DOMAIN c = DOMAIN Zeroes /\ Fields \subseteq DOMAIN c
<1>1. PICK D : D = DOMAIN Zeroes
  OBVIOUS
<1>2. c \in [D -> Nat]
  BY <1>1 DEF CurveOK
<1>3. Fields \subseteq D
  BY <1>1, FieldNames DEF Fields
<1> QED
  BY <1>1, <1>2, <1>3

LEMMA CurveNumbers ==
  ASSUME NEW c, CurveOK(c), NEW f \in DOMAIN Zeroes
  PROVE  c[f] \in Nat
<1>1. PICK D : D = DOMAIN Zeroes
  OBVIOUS
<1>2. c \in [D -> Nat]
  BY <1>1 DEF CurveOK
<1> QED
  BY <1>1, <1>2

\* cubic_root is given a u64.
LEMMA WideRoot == ASSUME NEW x \in Nat  PROVE  CubicRoot(x % 2 ^ U64Bits) \in Nat
<1>1. PICK p \in Nat \ {0} : p = 2 ^ U64Bits
  <2>1. U64Bits \in 0 .. U64Bits
    BY UnitAssumption
  <2> QED
    BY <2>1, PowersAssumption
<1>2. x % p \in Nat /\ x % p < p
  OBVIOUS
<1> QED
  BY <1>1, <1>2, RootType

\* The cube factor of a bic_scale is a number.
LEMMA FactorType == ASSUME NEW bic \in 1 .. 1023  PROVE  CubeFactor(bic) \in Nat
<1>1. PICK p \in Nat : p = 2 ^ CubeShift
  BY PowersAssumption
<1>2. PICK d \in Nat \ {0} : d = bic * 10
  OBVIOUS
<1>3. p \div d \in Nat
  BY DivType
<1> QED
  BY <1>1, <1>2, <1>3 DEF CubeFactor

\* What scubic_set_params accepts is a number.
LEMMA ParamsAreNumbers == \A x \in 1 .. 1023 : x \in Nat
OBVIOUS

\* Numbers stored in the four fields of the parameters leave the other fields numbers.
LEMMA ParamsStored ==
  ASSUME NEW D, NEW e \in [D -> Nat], NEW b \in Nat, NEW m \in Nat, NEW s \in Nat, NEW f \in Nat
  PROVE  [e EXCEPT !.bic_scale = b, !.beta = m, !.beta_scale = s, !.cube_factor = f]
           \in [D -> Nat]
OBVIOUS

\* _update_params makes a curve usable.
LEMMA UpdateParamsOK ==
  ASSUME NEW c, c \in [DOMAIN Zeroes -> Nat], c.last_max_cwnd <= Clamp,
         NEW bic, bic \in 1 .. 1023, NEW beta, beta \in 1 .. 1023
  PROVE  CurveOK(UpdateParams(c, bic, beta))
<1>1. PICK f \in Nat : f = CubeFactor(bic)
  BY FactorType, ZenonT(30)
<1>2. PICK s \in Nat : s = BetaScale(beta)
  <2>1. (8 * (BICTCP_BETA_SCALE + beta)) \div 3 \in Nat
    BY DEF BICTCP_BETA_SCALE
  <2>2. BICTCP_BETA_SCALE - beta \in Nat \ {0}
    BY DEF BICTCP_BETA_SCALE
  <2> QED
    BY <2>1, <2>2, DivType DEF BetaScale
<1>3. PICK D : D = DOMAIN Zeroes
  OBVIOUS
<1>4. PICK e \in [D -> Nat] : e = c /\ e.last_max_cwnd <= Clamp
  BY <1>3
<1>5. PICK d : d = [e EXCEPT !.bic_scale = bic, !.beta = beta, !.beta_scale = s, !.cube_factor = f]
  OBVIOUS
<1>6. UpdateParams(c, bic, beta) = d
  BY <1>1, <1>2, <1>4, <1>5 DEF UpdateParams
<1>7. d \in [D -> Nat]
  <2>1. bic \in Nat /\ beta \in Nat
    BY ParamsAreNumbers
  <2>2. [e EXCEPT !.bic_scale = bic, !.beta = beta, !.beta_scale = s, !.cube_factor = f]
          \in [D -> Nat]
    BY <2>1, ParamsStored, ZenonT(30)
  <2> QED
    BY <1>5, <2>2
<1>8. "bic_scale" \in D /\ "beta" \in D /\ "cube_factor" \in D
  BY <1>3, FieldNames
<1>9. /\ d.bic_scale = bic /\ d.beta = beta /\ d.cube_factor = f
      /\ d.last_max_cwnd = e.last_max_cwnd
  BY <1>5, <1>8
<1>10. CurveOK(d)
  BY <1>1, <1>3, <1>4, <1>7, <1>9 DEF CurveOK
<1> QED
  BY <1>6, <1>10

\* scubic_set_params keeps the curve usable whatever it is given.
LEMMA SetParamsOK ==
  ASSUME NEW c, CurveOK(c), NEW v
  PROVE  CurveOK(SetParams(c, v)) /\ SameFields(c, SetParams(c, v))
<1>1. SameFields(c, SetParams(c, v))
  BY CurveFields, SetParamsKeeps
<1>2. CASE Len(v) = 2 /\ \A k \in 1 .. 2 : v[k] \in 1 .. 1023
  <2>1. \A k \in 1 .. 2 : v[k] \in 1 .. 1023
    BY <1>2
  <2>2. v[1] \in 1 .. 1023 /\ v[2] \in 1 .. 1023
    BY <2>1
  <2>3. c \in [DOMAIN Zeroes -> Nat] /\ c.last_max_cwnd <= Clamp
    BY DEF CurveOK
  <2>4. PICK bic, beta : bic = v[1] /\ beta = v[2]
    OBVIOUS
  <2>5. bic \in 1 .. 1023 /\ beta \in 1 .. 1023
    BY <2>2, <2>4
  <2>6. CurveOK(UpdateParams(c, bic, beta))
    BY <2>3, <2>5, UpdateParamsOK, ZenonT(30)
  <2>7. SetParams(c, v) = UpdateParams(c, bic, beta)
    BY <1>2, <2>4 DEF SetParams
  <2> QED
    BY <1>1, <2>6, <2>7
<1>3. CASE ~(Len(v) = 2 /\ \A k \in 1 .. 2 : v[k] \in 1 .. 1023)
  BY <1>1, <1>3 DEF SetParams
<1> QED
  BY <1>2, <1>3

\* bictcp_reset keeps the parameters.
LEMMA ResetOK ==
  ASSUME NEW c, CurveOK(c)
  PROVE  CurveOK(Reset(c))
<1>1. PICK D : D = DOMAIN Zeroes
  OBVIOUS
<1>2. c \in [D -> Nat] /\ "last_max_cwnd" \in D
  BY <1>1, FieldNames DEF CurveOK
<1>3. PICK d : d = Reset(c)
  OBVIOUS
<1>a. d \in [D -> Nat]
  BY <1>2, <1>3 DEF Reset, ResetCurve
<1>4. d.bic_scale = c.bic_scale /\ d.beta = c.beta /\ d.cube_factor = c.cube_factor
  BY <1>3 DEF Reset, ResetCurve
<1>b. d.last_max_cwnd = 0
  BY <1>2, <1>3 DEF Reset, ResetCurve
<1>5. CurveOK(d)
  BY <1>1, <1>a, <1>4, <1>b, InputAssumption DEF CurveOK
<1> QED
  BY <1>3, <1>5

\* A new epoch has a K.
LEMMA StartEpochOK ==
  ASSUME NEW c, CurveOK(c), NEW w \in 1 .. Clamp, NEW acked \in Nat, now \in Nat
  PROVE  CurveOK(StartEpoch(c, w, acked))
<1>1. c.last_max_cwnd \in Nat /\ c.cube_factor \in Nat /\ Clamp \in Nat
  <2>1. c.last_max_cwnd \in Nat
    BY CurveNumbers, FieldNames
  <2>2. c.cube_factor \in Nat
    BY CurveNumbers, FieldNames
  <2> QED
    BY <2>1, <2>2, InputAssumption
<1>2. PICK K \in Nat : K = IF c.last_max_cwnd <= w THEN 0
                            ELSE CubicRoot((c.cube_factor * (c.last_max_cwnd - w)) % 2 ^ U64Bits)
  <2>1. CASE c.last_max_cwnd <= w
    BY <2>1
  <2>2. CASE ~(c.last_max_cwnd <= w)
    <3>1. PICK x \in Nat : x = c.cube_factor * (c.last_max_cwnd - w)
      BY <1>1, <2>2
    <3> QED
      BY <2>2, <3>1, WideRoot
  <2> QED
    BY <2>1, <2>2
<1>3. PICK o \in Nat : o = Larger(c.last_max_cwnd, w)
  BY <1>1 DEF Larger
<1>4. PICK r \in Nat : r = c.bic_scale * 10
  <2>1. PICK s \in 1 .. 1023 : s = c.bic_scale
    BY DEF CurveOK
  <2>2. s * 10 \in Nat
    OBVIOUS
  <2> QED
    BY <2>1, <2>2
<1>5. PICK d : d = [c EXCEPT !.epoch_start = now, !.ack_cnt = acked, !.tcp_cwnd = w,
                             !.cube_rtt_scale = r, !.bic_K = K, !.bic_origin_point = o]
  OBVIOUS
<1>6. StartEpoch(c, w, acked) = d
  BY <1>2, <1>3, <1>4, <1>5 DEF StartEpoch
<1>7. PICK D : D = DOMAIN Zeroes
  OBVIOUS
<1>8. c \in [D -> Nat]
  BY <1>7 DEF CurveOK
<1>a. d \in [D -> Nat]
  <2>1. w \in Nat
    BY <1>1
  <2> QED
    BY <1>5, <1>8, <2>1
<1>9. /\ d \in [D -> Nat] /\ d.bic_scale = c.bic_scale /\ d.beta = c.beta
      /\ d.cube_factor = c.cube_factor /\ d.last_max_cwnd = c.last_max_cwnd
  BY <1>5, <1>8, <1>a
<1>10. CurveOK(d)
  BY <1>7, <1>9 DEF CurveOK
<1> QED
  BY <1>6, <1>10

\* A change of other fields keeps the curve usable.
LEMMA OtherFields ==
  ASSUME NEW c, CurveOK(c), NEW d \in [DOMAIN Zeroes -> Nat],
         d.bic_scale = c.bic_scale, d.beta = c.beta, d.cube_factor = c.cube_factor,
         d.last_max_cwnd = c.last_max_cwnd
  PROVE  CurveOK(d)
BY DEF CurveOK

\* bictcp_update computes a cnt from any curve.
LEMMA CubicOK ==
  ASSUME NEW c, CurveOK(c), NEW w \in Nat \ {0}, now \in Nat
  PROVE  CurveOK(Cubic(c, w))
<1>1. /\ c.epoch_start \in Nat /\ c.delay_min \in Nat /\ c.bic_K \in Nat /\ c.cnt \in Nat
      /\ c.bic_origin_point \in Nat /\ c.cube_rtt_scale \in Nat
  BY CurveNumbers, FieldNames
<1>2. PICK hz \in Nat \ {0}, unit \in Nat \ {0}, scale \in Nat \ {0}, word \in Nat \ {0},
              wide \in Nat \ {0} :
         /\ hz = HZ /\ unit = 2 ^ BICTCP_HZ /\ scale = 2 ^ CubeShift /\ word = Word
         /\ wide = 2 ^ U64Bits
  <2>1. U64Bits \in 0 .. U64Bits
    BY UnitAssumption
  <2> QED
    BY <2>1, UnitAssumption, PowersAssumption
<1>3. PICK x \in Int : x = Elapsed(c)
  <2>1. PICK m \in Nat : m = c.delay_min \div 8
    BY <1>1
  <2>2. m * hz + 999 \in Nat
    OBVIOUS
  <2>3. PICK j \in Nat : j = MsecsToJiffies(m)
    BY <1>2, <2>2, DivType DEF MsecsToJiffies
  <2>4. PICK y \in Int : y = now - c.epoch_start + j
    BY <1>1
  <2>5. y * unit \in Int
    OBVIOUS
  <2>6. (y * unit) \div hz \in Int
    BY <2>5
  <2>7. Elapsed(c) = (y * unit) \div hz
    BY <1>2, <2>1, <2>3, <2>4 DEF Elapsed
  <2> QED
    BY <2>6, <2>7
<1>4. PICK delta \in Int : delta = CubeDelta(c)
  <2>1. PICK o \in Int : o = IF BelowOrigin(c) THEN c.bic_K - Elapsed(c) ELSE Elapsed(c) - c.bic_K
    BY <1>1, <1>3
  <2>2. PICK r \in Int : r = c.cube_rtt_scale
    BY <1>1
  <2>3. r * o * o * o \in Int
    OBVIOUS
  <2>4. PICK y \in Int : y = r * o * o * o
    BY <2>3
  <2>5. PICK z \in Int : z = ((y % wide) \div scale) % word
    <3>1. y % wide \in Int
      OBVIOUS
    <3>2. (y % wide) \div scale \in Int
      BY <3>1
    <3> QED
      BY <3>2
  <2>6. CubeDelta(c) = z
    BY <1>2, <2>1, <2>2, <2>4, <2>5 DEF CubeDelta, CubeAt
  <2> QED
    BY <2>6
<1>5. PICK target \in Nat : target = Target(c)
  <2>1. PICK z \in Int : z = IF BelowOrigin(c) THEN c.bic_origin_point - delta
                             ELSE c.bic_origin_point + delta
    BY <1>1
  <2>2. z % word \in Nat
    OBVIOUS
  <2> QED
    BY <1>2, <1>4, <2>1, <2>2 DEF Target
<1>6. PICK cnt \in Nat : cnt = IF target > w THEN w \div (target - w) ELSE 100 * w
  <2>1. CASE target > w
    <3>1. target - w \in Nat \ {0}
      BY <2>1
    <3>2. PICK q \in Nat : q = w \div (target - w)
      BY <3>1, DivType
    <3> QED
      BY <2>1, <3>2
  <2>2. CASE ~(target > w)
    <3>1. 100 * w \in Nat
      OBVIOUS
    <3> QED
      BY <2>2, <3>1
  <2> QED
    BY <2>1, <2>2
<1>7. PICK n \in Nat : n = IF c.last_max_cwnd = 0 THEN Smaller(cnt, 20) ELSE cnt
  BY DEF Smaller
<1>8. PICK D : D = DOMAIN Zeroes
  OBVIOUS
<1>9. PICK e \in [D -> Nat] : e = c
  BY <1>8 DEF CurveOK
<1>10. PICK d : d = [e EXCEPT !.cnt = n]
  OBVIOUS
<1>11. d \in [D -> Nat]
  BY <1>10
<1>12. /\ d.bic_scale = c.bic_scale /\ d.beta = c.beta /\ d.cube_factor = c.cube_factor
       /\ d.last_max_cwnd = c.last_max_cwnd
  BY <1>9, <1>10
<1>13. CurveOK(d)
  BY <1>8, <1>11, <1>12, OtherFields
<1>14. Cubic(c, w) = d
  BY <1>5, <1>6, <1>7, <1>9, <1>10 DEF Cubic
<1> QED
  BY <1>13, <1>14

\* A friendliness loop that ends leaves numbers.
LEMMA FriendlyOK ==
  ASSUME NEW c, CurveOK(c), NEW w \in Nat \ {0}, LoopEnds(c, w)
  PROVE  CurveOK(Friendly(c, w))
<1>1. c.ack_cnt \in Nat /\ c.tcp_cwnd \in Nat /\ c.beta_scale \in Nat /\ c.cnt \in Nat
  BY CurveNumbers, FieldNames
<1>2. PICK delta \in Nat : delta = RenoDelta(c, w)
  <2>1. PICK b \in Nat : b = c.beta_scale
    BY <1>1
  <2>2. w * b \in Nat
    OBVIOUS
  <2>3. (w * b) \div 8 \in Nat
    BY <2>2
  <2> QED
    BY <2>1, <2>3 DEF RenoDelta
<1>3. PICK a \in Nat : a = c.ack_cnt /\ (a > delta => delta > 0)
  BY <1>1, <1>2 DEF LoopEnds
<1>4. PICK rounds \in Nat : /\ rounds = IF a > delta THEN (a - 1) \div delta ELSE 0
                            /\ rounds * delta <= a
  <2>1. CASE a > delta
    <3>1. a - 1 \in Nat /\ delta \in Nat \ {0}
      BY <1>3, <2>1
    <3>2. PICK q \in Nat : q = (a - 1) \div delta
      BY <3>1, DivType
    <3>3. (a - 1) % delta \in Nat /\ a - 1 = delta * q + ((a - 1) % delta)
      <4>1. (a - 1) % delta \in 0 .. delta - 1 /\ a - 1 = delta * ((a - 1) \div delta) + ((a - 1) % delta)
        BY <3>1, DivMod
      <4> QED
        BY <3>2, <4>1
    <3>4. q * delta = delta * q /\ delta * q \in Nat
      OBVIOUS
    <3>5. q * delta <= a
      BY <3>3, <3>4
    <3> QED
      BY <2>1, <3>2, <3>5
  <2>2. CASE ~(a > delta)
    BY <2>2
  <2> QED
    BY <2>1, <2>2
<1>5. PICK rest \in Nat : rest = a - rounds * delta
  <2>1. rounds * delta \in Nat
    OBVIOUS
  <2> QED
    BY <1>4, <2>1
<1>6. PICK est \in Nat : est = c.tcp_cwnd + rounds
  BY <1>1
<1>7. PICK n \in Nat : n = IF est > w THEN Smaller(c.cnt, w \div (est - w)) ELSE c.cnt
  <2>1. CASE est > w
    <3>1. est - w \in Nat \ {0}
      BY <2>1
    <3>2. PICK q \in Nat : q = w \div (est - w)
      BY <3>1, DivType
    <3> QED
      BY <1>1, <2>1, <3>2 DEF Smaller
  <2>2. CASE ~(est > w)
    BY <1>1, <2>2
  <2> QED
    BY <2>1, <2>2
<1>8. PICK D : D = DOMAIN Zeroes
  OBVIOUS
<1>9. PICK e \in [D -> Nat] : e = c
  BY <1>8 DEF CurveOK
<1>10. PICK d : d = [e EXCEPT !.ack_cnt = rest, !.tcp_cwnd = est, !.cnt = n]
  OBVIOUS
<1>11. d \in [D -> Nat]
  BY <1>10
<1>12. /\ d.bic_scale = c.bic_scale /\ d.beta = c.beta /\ d.cube_factor = c.cube_factor
       /\ d.last_max_cwnd = c.last_max_cwnd
  BY <1>9, <1>10
<1>13. CurveOK(d)
  BY <1>8, <1>11, <1>12, OtherFields
<1>14. Friendly(c, w) = d
  <2>1. /\ Friendly(c, w) = [c EXCEPT !.ack_cnt = c.ack_cnt - rounds * delta, !.tcp_cwnd = est,
                                !.cnt = IF est > w THEN Smaller(c.cnt, w \div (est - w)) ELSE c.cnt]
    BY <1>2, <1>3, <1>4, <1>6 DEF Friendly
  <2> QED
    BY <2>1, <1>3, <1>5, <1>7, <1>9, <1>10
<1> QED
  BY <1>13, <1>14

\* The last line of bictcp_update keeps the curve usable and cnt at two or more.
LEMMA AtLeastTwoOK ==
  ASSUME NEW c, CurveOK(c)
  PROVE  CurveOK(AtLeastTwo(c)) /\ AtLeastTwo(c).cnt \in Nat /\ AtLeastTwo(c).cnt >= 2
<1>1. c.cnt \in Nat
  BY CurveNumbers, FieldNames
<1>2. PICK n \in Nat : n = Larger(c.cnt, 2) /\ n >= 2
  BY <1>1 DEF Larger
<1>3. PICK D : D = DOMAIN Zeroes
  OBVIOUS
<1>4. PICK e \in [D -> Nat] : e = c
  BY <1>3 DEF CurveOK
<1>5. PICK d : d = [e EXCEPT !.cnt = n]
  OBVIOUS
<1>6. d \in [D -> Nat]
  BY <1>5
<1>7. /\ d.bic_scale = c.bic_scale /\ d.beta = c.beta /\ d.cube_factor = c.cube_factor
      /\ d.last_max_cwnd = c.last_max_cwnd
  BY <1>4, <1>5
<1>8. CurveOK(d)
  BY <1>3, <1>6, <1>7, OtherFields
<1>9. AtLeastTwo(c) = d
  BY <1>2, <1>4, <1>5 DEF AtLeastTwo
<1>10. d.cnt = n
  <2>1. "cnt" \in D
    BY <1>3, FieldNames
  <2> QED
    BY <1>5, <2>1
<1> QED
  BY <1>2, <1>8, <1>9, <1>10

\* What bictcp_update has computed when friendliness begins.
LEMMA BeforeFriendlyOK ==
  ASSUME NEW c, CurveOK(c), NEW w \in 1 .. Clamp, NEW acked \in Nat, now \in Nat
  PROVE  CurveOK(BeforeFriendly(c, w, acked))
<1>0. w \in Nat \ {0} /\ w \in Nat
  BY InputAssumption
<1>1. PICK D : D = DOMAIN Zeroes
  OBVIOUS
<1>2. PICK e \in [D -> Nat] : e = c
  BY <1>1 DEF CurveOK
<1>3. PICK d : d = [e EXCEPT !.last_cwnd = w, !.last_time = now]
  OBVIOUS
<1>4. d \in [D -> Nat]
  BY <1>0, <1>3
<1>5. /\ d.bic_scale = c.bic_scale /\ d.beta = c.beta /\ d.cube_factor = c.cube_factor
      /\ d.last_max_cwnd = c.last_max_cwnd
  BY <1>2, <1>3
<1>6. CurveOK(d)
  BY <1>1, <1>4, <1>5, OtherFields
<1>7. CurveOK(BeginEpoch(d, w, acked))
  BY <1>6, StartEpochOK DEF BeginEpoch
<1>8. CurveOK(Cubic(BeginEpoch(d, w, acked), w))
  BY <1>0, <1>7, CubicOK
<1> QED
  BY <1>2, <1>3, <1>8 DEF BeforeFriendly

\* tcp_cong_avoid_ai with a cnt of two or more: the window stays within the clamp and
\* grows by one per two ACKed segments at most.
LEMMA AdditiveGrowth ==
  ASSUME NEW w \in 1 .. Clamp, NEW saved \in Nat, NEW cnt \in Nat, cnt >= 2, NEW acked \in Nat,
         NEW t, t.cwnd = w, t.cwnd_cnt = saved, {"cwnd", "cwnd_cnt"} \subseteq DOMAIN t
  PROVE  \E x \in 1 .. Clamp, r \in Nat :
            /\ Additive(t, cnt, acked) = [t EXCEPT !.cwnd = x, !.cwnd_cnt = r]
            /\ x >= w /\ 2 * (x - w) + r <= saved + acked
<1> DEFINE early == saved >= cnt
           credit == (IF early THEN 0 ELSE saved) + acked
           one == IF early THEN 1 ELSE 0
<1>1. Clamp \in Nat
  BY InputAssumption
<1>2. PICK a \in Nat : a = credit
  OBVIOUS
<1>3. PICK i \in {0, 1} : i = one
  OBVIOUS
<1>4. a + 2 * i <= saved + acked
  BY <1>2, <1>3
<1> HIDE DEF credit, one
<1>5. PICK q \in Nat, r \in Nat : q = a \div cnt /\ r = a % cnt /\ a = cnt * q + r
  <2>1. PICK k \in Nat \ {0} : k = cnt
    OBVIOUS
  <2>2. a \div k \in Nat /\ a % k \in 0 .. k - 1 /\ a = k * (a \div k) + (a % k)
    BY DivMod
  <2> QED
    BY <2>1, <2>2
<1>6. 2 * q + r <= a
  <2>1. cnt * q = 2 * q + (cnt - 2) * q /\ (cnt - 2) * q \in Nat
    OBVIOUS
  <2> QED
    BY <1>5, <2>1
<1>7. PICK x \in 1 .. Clamp : x = Smaller(w + i + q, Clamp) /\ x >= w /\ x <= w + i + q
  BY <1>1 DEF Smaller
<1>8. 2 * (x - w) + r <= saved + acked
  BY <1>4, <1>6, <1>7
<1>9. Additive(t, cnt, acked) = [t EXCEPT !.cwnd = x, !.cwnd_cnt = r]
  <2>1. Additive(t, cnt, acked) = [t EXCEPT !.cwnd = Smaller(t.cwnd + one + credit \div cnt, Clamp),
                                            !.cwnd_cnt = credit % cnt]
    BY DEF Additive, credit, one
  <2> QED
    BY <2>1, <1>2, <1>3, <1>5, <1>7
<1> QED
  BY <1>7, <1>8, <1>9

\* bictcp_update and tcp_cong_avoid_ai: they leave the curve usable, and unless the
\* friendliness loop has no end they divide by a cnt of two or more.
LEMMA AvoidKeeps ==
  ASSUME TypeInv, Inv, ~spinning, NEW v, NEW t, t.cwnd \in 1 .. Clamp, NEW acked \in Nat,
         Avoid(SetParams(ca, v), t, acked)
  PROVE  /\ CurveOK(ca') /\ spinning' \in BOOLEAN
         /\ \/ tp' = tp /\ spent' = spent
            \/ \E cnt \in Nat : cnt >= 2 /\ tp' = Additive(t, cnt, acked) /\ spent' = acked
<1> DEFINE c == SetParams(ca, v)
           counted == [c EXCEPT !.ack_cnt = @ + acked]
           before == BeforeFriendly(counted, t.cwnd, acked)
           after == AtLeastTwo(Friendly(before, t.cwnd))
<1>0. now \in Nat /\ t.cwnd \in Nat \ {0} /\ (ca.last_cwnd # 0 => ca.cnt >= 2)
  BY InputAssumption DEF Inv, ClockInv, CntUsable
<1>a. spinning \in BOOLEAN
  BY DEF TypeInv, TypeOK
<1>1. CurveOK(c) /\ SameFields(ca, c)
  BY SetParamsOK DEF TypeInv
<1>2. Avoid(c, t, acked)
  OBVIOUS
<1> HIDE DEF c
<1>3. CurveOK(counted) /\ SameFields(ca, counted)
  <2>1. PICK D : D = DOMAIN Zeroes
    OBVIOUS
  <2>2. PICK e \in [D -> Nat] : e = c
    BY <1>1, <2>1 DEF CurveOK
  <2>3. PICK n \in Nat : n = c.ack_cnt + acked
    <3>1. c.ack_cnt \in Nat
      BY <1>1, CurveNumbers, FieldNames
    <3> QED
      BY <3>1
  <2>4. PICK d : d = [e EXCEPT !.ack_cnt = n]
    OBVIOUS
  <2>5. d \in [D -> Nat]
    BY <2>4
  <2>6. /\ d.bic_scale = c.bic_scale /\ d.beta = c.beta /\ d.cube_factor = c.cube_factor
        /\ d.last_max_cwnd = c.last_max_cwnd
    BY <2>2, <2>4
  <2>7. counted = d
    BY <2>2, <2>3, <2>4
  <2>8. SameFields(ca, counted)
    BY <1>1 DEF SameFields, Fields
  <2> QED
    BY <1>1, <2>1, <2>5, <2>6, <2>7, <2>8, OtherFields
<1>4. counted.cnt \in Nat
  BY <1>3, CurveNumbers, FieldNames
<1> HIDE DEF counted
<1>5. CurveOK(before)
  BY <1>0, <1>3, BeforeFriendlyOK
<1> HIDE DEF before
<1>6. CASE TooSoon(counted, t.cwnd)
  <2>1. ca' = counted /\ tp' = Additive(t, counted.cnt, acked) /\ spent' = acked
        /\ spinning' = spinning
    BY <1>2, <1>6 DEF Avoid, counted
  <2>2. counted.cnt >= 2
    <3>1. counted.last_cwnd = t.cwnd
      BY <1>6 DEF TooSoon
    <3> QED
      BY <1>0, <1>3, <3>1 DEF SameFields
  <2>3. PICK n \in Nat : n = counted.cnt
    BY <1>4
  <2>4. n >= 2 /\ tp' = Additive(t, n, acked) /\ spent' = acked
    BY <2>1, <2>2, <2>3
  <2>5. spinning' \in BOOLEAN
    BY <1>a, <2>1
  <2> QED
    BY <1>3, <2>1, <2>4, <2>5
<1>7. CASE ~TooSoon(counted, t.cwnd) /\ LoopEnds(before, t.cwnd)
  <2>1. CurveOK(after) /\ after.cnt \in Nat /\ after.cnt >= 2
    BY <1>0, <1>5, <1>7, FriendlyOK, AtLeastTwoOK
  <2> HIDE DEF after
  <2>2. ca' = after /\ tp' = Additive(t, after.cnt, acked) /\ spent' = acked
        /\ spinning' = spinning
    BY <1>2, <1>7 DEF Avoid, counted, before, after
  <2>3. PICK n \in Nat : n = after.cnt
    BY <2>1
  <2>4. n >= 2 /\ tp' = Additive(t, n, acked) /\ spent' = acked
    BY <2>1, <2>2, <2>3
  <2>5. spinning' \in BOOLEAN
    BY <1>a, <2>2
  <2> QED
    BY <2>1, <2>2, <2>4, <2>5
<1>8. CASE ~TooSoon(counted, t.cwnd) /\ ~LoopEnds(before, t.cwnd)
  <2>1. ca' = before /\ tp' = tp /\ spent' = spent /\ spinning' = TRUE
    BY <1>2, <1>8 DEF Avoid, counted, before
  <2> QED
    BY <1>5, <2>1
<1> QED
  BY <1>6, <1>7, <1>8

\* The stack's side as TypeOK has it
Stack == [cwnd : 1 .. Clamp, cwnd_cnt : Nat, ssthresh : Nat \ {0, 1},
          state : {"open", "reduction", "loss"}, prior_cwnd : 0 .. Clamp, prior_ssthresh : Nat]

\* What a step in congestion avoidance may add to a window that slow start has left
Bounded(t, u, used) ==
    2 * (u.cwnd - Smaller(Larger(t.cwnd, t.ssthresh), Clamp)) + u.cwnd_cnt <= t.cwnd_cnt + used

\* bictcp_cong_avoid: its slow start ends at ssthresh before additive growth begins.
LEMMA CongAvoidGrowth ==
  ASSUME TypeInv, Inv, NEW v, NEW acked \in Nat, NEW limited \in BOOLEAN, NEW passes \in BOOLEAN,
         CongAvoid(v, acked, limited, passes)
  PROVE  /\ CurveOK(ca') /\ spinning' \in BOOLEAN /\ spent' \in Nat
         /\ tp' \in Stack /\ tp'.state = tp.state /\ tp'.ssthresh = tp.ssthresh
         /\ tp'.cwnd >= tp.cwnd
         /\ \/ ca' = SetParams(ca, v)
            \/ \E u, l : /\ Avoid(SetParams(ca, v), u, l) /\ l \in Nat
                         /\ u.cwnd \in 1 .. Clamp /\ u.cwnd >= tp.cwnd
         /\ spent' > 0 => Bounded(tp, tp', spent')
<1> DEFINE grown == IF InSlowStart THEN Smaller(tp.cwnd + acked, tp.ssthresh) ELSE tp.cwnd
           left == acked - (grown - tp.cwnd)
           t == [tp EXCEPT !.cwnd = Smaller(grown, Clamp)]
<1>0. /\ Clamp \in Nat \ {0, 1} /\ tp \in Stack /\ spinning \in BOOLEAN /\ ~spinning /\ spent \in Nat
  BY InputAssumption DEF TypeInv, TypeOK, Stack, CongAvoid
<1>1. PICK C \in Nat \ {0, 1} : C = Clamp
  BY <1>0
<1>2. PICK w \in 1 .. C : w = tp.cwnd
  BY <1>0, <1>1 DEF Stack
<1>3. PICK s \in Nat \ {0, 1} : s = tp.ssthresh
  BY <1>0 DEF Stack
<1>4. PICK g \in Nat \ {0} : g = grown /\ (w < s => g <= s /\ g <= w + acked /\ (g = s \/ g = w + acked))
                             /\ (~(w < s) => g = w) /\ g >= w
  BY <1>2, <1>3 DEF InSlowStart, Smaller
<1> HIDE DEF grown
<1>5. PICK x \in 1 .. C : x = Smaller(grown, Clamp) /\ (g <= C => x = g) /\ (g > C => x = C)
                          /\ x >= w
  BY <1>1, <1>4 DEF Smaller
<1>6. PICK l \in Int : l = left /\ l = acked - (g - w)
  BY <1>2, <1>4
<1>7. t \in Stack /\ t = [tp EXCEPT !.cwnd = x] /\ t.cwnd = x
      /\ t.cwnd_cnt = tp.cwnd_cnt /\ t.state = tp.state /\ t.ssthresh = tp.ssthresh
  BY <1>0, <1>1, <1>5 DEF Stack
<1> HIDE DEF t
<1>8. CurveOK(SetParams(ca, v))
  BY SetParamsOK DEF TypeInv
<1>9. CASE limited /\ left > 0
  <2>1. Avoid(SetParams(ca, v), t, l)
    BY <1>6, <1>9 DEF CongAvoid, grown, t
  <2>2. l \in Nat /\ l > 0
    BY <1>6, <1>9
  <2>3. t.cwnd \in 1 .. Clamp
    BY <1>1, <1>7
  <2>4. /\ CurveOK(ca') /\ spinning' \in BOOLEAN
        /\ \/ tp' = tp /\ spent' = spent
           \/ \E cnt \in Nat : cnt >= 2 /\ tp' = Additive(t, cnt, l) /\ spent' = l
    BY <1>0, <2>1, <2>2, <2>3, AvoidKeeps
  <2>a. \E u, k : /\ Avoid(SetParams(ca, v), u, k) /\ k \in Nat
                  /\ u.cwnd \in 1 .. Clamp /\ u.cwnd >= tp.cwnd
    BY <1>2, <1>5, <1>7, <2>1, <2>2, <2>3
  <2>5. x = Smaller(Larger(tp.cwnd, tp.ssthresh), Clamp)
    BY <1>1, <1>2, <1>3, <1>4, <1>5, <1>6, <2>2 DEF Smaller, Larger
  <2>6. PICK n \in Nat : n = tp.cwnd_cnt
    BY <1>0 DEF Stack
  <2>7. CASE tp' = tp /\ spent' = spent
    <3>1. w <= Smaller(Larger(tp.cwnd, tp.ssthresh), Clamp)
      BY <1>1, <1>2, <1>3 DEF Smaller, Larger
    <3>2. Bounded(tp, tp', spent')
      BY <1>0, <1>2, <1>5, <2>5, <2>6, <2>7, <3>1 DEF Bounded
    <3>3. tp'.cwnd >= tp.cwnd
      BY <1>2, <2>7
    <3> QED
      BY <1>0, <2>4, <2>7, <2>a, <3>2, <3>3
  <2>8. CASE \E cnt \in Nat : cnt >= 2 /\ tp' = Additive(t, cnt, l) /\ spent' = l
    <3>1. PICK cnt \in Nat : cnt >= 2 /\ tp' = Additive(t, cnt, l) /\ spent' = l
      BY <2>8
    <3>2. PICK y \in 1 .. Clamp, r \in Nat :
             /\ Additive(t, cnt, l) = [t EXCEPT !.cwnd = y, !.cwnd_cnt = r]
             /\ y >= x /\ 2 * (y - x) + r <= n + l
      <4>1. {"cwnd", "cwnd_cnt"} \subseteq DOMAIN t
        BY <1>7 DEF Stack
      <4>2. x \in 1 .. Clamp /\ t.cwnd = x /\ t.cwnd_cnt = n
        BY <1>1, <1>7, <2>6
      <4> QED
        BY <2>2, <3>1, <4>1, <4>2, AdditiveGrowth, ZenonT(30)
    <3>3. tp' \in Stack /\ tp'.cwnd = y /\ tp'.cwnd_cnt = r /\ tp'.state = tp.state
          /\ tp'.ssthresh = tp.ssthresh
      BY <1>7, <3>1, <3>2 DEF Stack
    <3>4. Bounded(tp, tp', spent')
      BY <2>5, <2>6, <3>1, <3>2, <3>3 DEF Bounded
    <3>5. tp'.cwnd >= tp.cwnd
      BY <1>2, <1>5, <3>2, <3>3
    <3> QED
      BY <2>2, <2>4, <2>a, <3>1, <3>3, <3>4, <3>5
  <2> QED
    BY <2>4, <2>7, <2>8
<1>10. CASE ~(limited /\ left > 0)
  <2>1. /\ ca' = SetParams(ca, v) /\ tp' = (IF limited THEN t ELSE tp) /\ spent' = 0
        /\ spinning' = spinning
    BY <1>10 DEF CongAvoid, left, grown, t
  <2>2. tp'.cwnd >= tp.cwnd
    BY <1>2, <1>5, <1>7, <2>1
  <2> QED
    BY <1>0, <1>7, <1>8, <2>1, <2>2
<1> QED
  BY <1>9, <1>10

-----------------------------------------------------------------------------
(* Type correctness *)

\* TypeInv splits into what the actions treat apart.
LEMMA TypeParts ==
  TypeInv <=> /\ CurveOK(ca) /\ HystartType
              /\ tp \in Stack /\ (tp.state = "reduction" => tp.ssthresh <= Clamp)
              /\ now \in 1 .. MaxTime /\ spinning \in BOOLEAN /\ losses \in 0 .. MaxLosses
              /\ spent \in Nat /\ round \subseteq Nat
BY DEF TypeInv, TypeOK, CurveOK, HystartType, Stack

\* scubic_init starts with the parameters 41 and 717.
LEMMA DefaultsOK ==
  ASSUME NEW c, c \in [DOMAIN Zeroes -> Nat], c.last_max_cwnd <= Clamp
  PROVE  CurveOK(UpdateParams(c, 41, 717))
<1>1. ASSUME NEW bic, bic \in 1 .. 1023, NEW beta, beta \in 1 .. 1023
      PROVE  CurveOK(UpdateParams(c, bic, beta))
  BY <1>1, UpdateParamsOK, ZenonT(30)
<1>2. PICK bic \in 1 .. 1023, beta \in 1 .. 1023 : bic = 41 /\ beta = 717
  OBVIOUS
<1>3. CurveOK(UpdateParams(c, bic, beta))
  BY <1>1
<1> QED
  BY <1>2, <1>3

LEMMA InitType == ASSUME Init PROVE TypeInv
<1>1. CurveOK(ca)
  <2>1. Zeroes \in [DOMAIN Zeroes -> Nat]
    BY DEF Zeroes
  <2>2. PICK D : D = DOMAIN Zeroes
    OBVIOUS
  <2>3. PICK e \in [D -> Nat] : e = Zeroes
    BY <2>1, <2>2
  <2>4. PICK d : d = Reset(e)
    OBVIOUS
  <2>5. d \in [D -> Nat]
    BY <2>3, <2>4 DEF Reset, ResetCurve
  <2>6. d.last_max_cwnd = 0
    BY <2>2, <2>3, <2>4, FieldNames DEF Reset, ResetCurve
  <2>7. d \in [DOMAIN Zeroes -> Nat] /\ d.last_max_cwnd <= Clamp
    BY <2>2, <2>5, <2>6, InputAssumption
  <2>8. CurveOK(UpdateParams(d, 41, 717))
    BY <2>7, DefaultsOK
  <2> QED
    BY <2>3, <2>4, <2>8 DEF Init
<1>2. HystartType
  <2>1. Clock(1) \in Nat /\ 0 \in 0 .. HystartMinSamples
    BY ClockType, HystartAssumption
  <2> QED
    BY <2>1 DEF Init, HystartType
<1>3. tp \in Stack /\ tp.state = "open"
  <2>1. PICK w \in InitCwnds, ssthresh \in InitSsthreshs :
          tp = [cwnd |-> w, cwnd_cnt |-> 0, ssthresh |-> ssthresh, state |-> "open",
                prior_cwnd |-> 0, prior_ssthresh |-> 0]
    BY DEF Init
  <2>2. w \in 1 .. Clamp /\ ssthresh \in Nat \ {0, 1} /\ 0 \in 0 .. Clamp
    BY InputAssumption
  <2> QED
    BY <2>1, <2>2 DEF Stack
<1>4. now \in 1 .. MaxTime /\ losses \in 0 .. MaxLosses /\ spent \in Nat /\ round \subseteq Nat
  BY InputAssumption DEF Init
<1>5. spinning \in BOOLEAN
  BY DEF Init
<1> QED
  BY <1>1, <1>2, <1>3, <1>4, <1>5, TypeParts

\* bictcp_recalc_ssthresh: what it remembers of the window is not above the window, and
\* the threshold it returns is two or more and within the clamp.
LEMMA ReductionRange ==
  ASSUME TypeInv
  PROVE  /\ LastMax(tp.cwnd) \in Nat /\ LastMax(tp.cwnd) <= Clamp /\ LastMax(tp.cwnd) <= tp.cwnd
         /\ Ssthresh(tp.cwnd) \in Nat \ {0, 1} /\ Ssthresh(tp.cwnd) <= Clamp
<1>1. PICK C \in Nat \ {0, 1} : C = Clamp
  BY InputAssumption
<1>2. PICK w \in 1 .. C : w = tp.cwnd
  BY <1>1, TypeParts DEF Stack
<1>3. PICK b \in 1 .. 1023 : b = ca.beta
  BY TypeParts DEF CurveOK
<1>4. PICK x \in Nat : x = (w * (1024 + b)) \div 2048 /\ x <= w
  <2>1. PICK p \in Nat : p = w * (1024 + b) /\ p <= 2048 * w
    <3>1. w * (1024 + b) = 2048 * w - w * (1024 - b) /\ w * (1024 - b) \in Nat
          /\ w * (1024 + b) \in Nat
      OBVIOUS
    <3> QED
      BY <3>1
  <2> QED
    BY <2>1
<1>5. PICK y \in Nat : y = (w * b) \div 1024 /\ y <= w
  <2>1. PICK p \in Nat : p = w * b /\ p <= 1024 * w
    <3>1. w * b = 1024 * w - w * (1024 - b) /\ w * (1024 - b) \in Nat /\ w * b \in Nat
      OBVIOUS
    <3> QED
      BY <3>1
  <2> QED
    BY <2>1
<1>6. LastMax(w) \in {x, w}
  BY <1>3, <1>4 DEF LastMax, BICTCP_BETA_SCALE
<1>7. Ssthresh(w) = Larger(y, 2)
  BY <1>3, <1>5 DEF Ssthresh, BICTCP_BETA_SCALE
<1>8. Larger(y, 2) \in Nat \ {0, 1} /\ Larger(y, 2) <= C
  BY <1>1, <1>2, <1>5 DEF Larger
<1> QED
  BY <1>1, <1>2, <1>4, <1>6, <1>7, <1>8

\* The curve after a field that the parameters do not depend on was written
LEMMA FieldWritten ==
  ASSUME NEW c, CurveOK(c), NEW n \in Nat
  PROVE  CurveOK([c EXCEPT !.epoch_start = n]) /\ CurveOK([c EXCEPT !.delay_min = n])
<1>1. PICK D : D = DOMAIN Zeroes
  OBVIOUS
<1>2. PICK e \in [D -> Nat] : e = c
  BY <1>1 DEF CurveOK
<1>3. PICK d : d = [e EXCEPT !.epoch_start = n]
  OBVIOUS
<1>4. PICK f : f = [e EXCEPT !.delay_min = n]
  OBVIOUS
<1>5. d \in [D -> Nat] /\ f \in [D -> Nat]
  BY <1>3, <1>4
<1>6. /\ d.bic_scale = c.bic_scale /\ d.beta = c.beta /\ d.cube_factor = c.cube_factor
      /\ d.last_max_cwnd = c.last_max_cwnd
  BY <1>2, <1>3
<1>7. /\ f.bic_scale = c.bic_scale /\ f.beta = c.beta /\ f.cube_factor = c.cube_factor
      /\ f.last_max_cwnd = c.last_max_cwnd
  BY <1>2, <1>4
<1>8. CurveOK(d) /\ CurveOK(f)
  BY <1>1, <1>5, <1>6, <1>7, OtherFields
<1> QED
  BY <1>2, <1>3, <1>4, <1>8

\* The epoch ends with the window it reached.
LEMMA EndOfEpochOK ==
  ASSUME TypeInv
  PROVE  CurveOK(EndOfEpoch)
<1>0. CurveOK(ca)
  BY TypeParts
<1>1. PICK D : D = DOMAIN Zeroes
  OBVIOUS
<1>2. PICK e \in [D -> Nat] : e = ca
  BY <1>0, <1>1 DEF CurveOK
<1>3. PICK m \in Nat : m = LastMax(tp.cwnd) /\ m <= Clamp
  BY ReductionRange
<1>4. PICK d : d = [e EXCEPT !.epoch_start = 0, !.last_max_cwnd = m]
  OBVIOUS
<1>5. d \in [D -> Nat]
  BY <1>4
<1>6. "last_max_cwnd" \in D
  BY <1>1, FieldNames
<1>7. /\ d.bic_scale = ca.bic_scale /\ d.beta = ca.beta /\ d.cube_factor = ca.cube_factor
      /\ d.last_max_cwnd = m
  BY <1>2, <1>4, <1>6
<1>8. CurveOK(d)
  BY <1>0, <1>1, <1>3, <1>5, <1>7 DEF CurveOK
<1> QED
  BY <1>2, <1>3, <1>4, <1>8 DEF EndOfEpoch

\* bictcp_acked writes delay_min and, when HyStart ends slow start, the threshold.
LEMMA PktsAckedType ==
  ASSUME TypeInv, NEW rtt_us \in Rtts, PktsAcked(rtt_us)
  PROVE  /\ CurveOK(ca') /\ round' \subseteq Nat
         /\ tp' \in Stack /\ (tp'.state = "reduction" => tp'.ssthresh <= Clamp)
<1> DEFINE least == IF ca.delay_min = 0 \/ ca.delay_min > Delay(rtt_us) THEN Delay(rtt_us)
                    ELSE ca.delay_min
           looks == InSlowStart /\ tp.cwnd >= HystartLowWindow
           h == IF looks THEN HystartUpdate(hy, Delay(rtt_us), least) ELSE hy
<1>1. CurveOK(ca) /\ tp \in Stack /\ (tp.state = "reduction" => tp.ssthresh <= Clamp)
      /\ round \subseteq Nat
  BY TypeParts
<1>2. PICK n \in Nat \ {0} : n = Delay(rtt_us)
  <2>1. rtt_us \in Int /\ rtt_us >= 0
    BY InputAssumption DEF PktsAcked, Discarded
  <2> QED
    BY <2>1, DelayType
<1>3. PICK m \in Nat : m = least
  <2>1. ca.delay_min \in Nat
    BY <1>1, CurveNumbers, FieldNames
  <2> QED
    BY <1>2, <2>1
<1>4. /\ ca' = [ca EXCEPT !.delay_min = least]
      /\ tp' = IF h.found # hy.found THEN [tp EXCEPT !.ssthresh = tp.cwnd] ELSE tp
      /\ round' \in {round, round \cup {Delay(rtt_us)}}
  BY DEF PktsAcked
<1>5. h.found # hy.found => looks
  OBVIOUS
<1> HIDE DEF least, h
<1>6. CurveOK(ca')
  BY <1>1, <1>3, <1>4, FieldWritten
<1>7. round' \subseteq Nat
  BY <1>1, <1>2, <1>4
<1>8. CASE h.found # hy.found
  <2>1. PICK C \in Nat : C = Clamp
    BY InputAssumption
  <2>2. PICK w \in 1 .. C : w = tp.cwnd
    BY <1>1, <2>1 DEF Stack
  <2>3. w \in Nat \ {0, 1}
    BY <1>5, <1>8, <2>2, HystartAssumption
  <2>4. tp' = [tp EXCEPT !.ssthresh = w]
    BY <1>4, <1>8, <2>2
  <2>5. tp' \in Stack /\ tp'.ssthresh = w
    BY <1>1, <2>3, <2>4 DEF Stack
  <2> QED
    BY <1>6, <1>7, <2>1, <2>2, <2>5
<1>9. CASE ~(h.found # hy.found)
  BY <1>1, <1>4, <1>6, <1>7, <1>9
<1> QED
  BY <1>8, <1>9

\* The stack's steps around a loss keep its fields in their ranges.
LEMMA LossType ==
  ASSUME TypeInv,
         \/ EnterReduction
         \/ \E undo \in BOOLEAN : LeaveReduction(undo) \/ LeaveLoss(undo)
         \/ \E asks_ssthresh \in BOOLEAN : Timeout(asks_ssthresh)
  PROVE  /\ CurveOK(ca') /\ tp' \in Stack /\ (tp'.state = "reduction" => tp'.ssthresh <= Clamp)
         /\ now' = now /\ spinning' = spinning /\ spent' = 0 /\ losses' \in 0 .. MaxLosses
         /\ round' \in {round, {}}
<1>0. /\ CurveOK(ca) /\ tp \in Stack /\ (tp.state = "reduction" => tp.ssthresh <= Clamp)
      /\ losses \in 0 .. MaxLosses /\ MaxLosses \in Nat
  BY TypeParts, InputAssumption
<1>1. PICK C \in Nat \ {0, 1} : C = Clamp
  BY InputAssumption
<1>2. PICK w \in 1 .. C : w = tp.cwnd
  BY <1>0, <1>1 DEF Stack
<1>3. PICK s \in Nat \ {0, 1} : s = tp.ssthresh
  BY <1>0 DEF Stack
<1>4. PICK z \in Nat \ {0, 1} : z = Ssthresh(tp.cwnd) /\ z <= C
  BY <1>1, ReductionRange
<1>5. PICK p \in 0 .. C : p = tp.prior_cwnd
  BY <1>0, <1>1 DEF Stack
<1>6. PICK q \in Nat : q = tp.prior_ssthresh
  BY <1>0 DEF Stack
<1>7. PICK u \in 1 .. C : u = Larger(w, p)
  BY DEF Larger
<1>8. PICK x \in Nat \ {0, 1} : x = Larger(s, q)
  BY DEF Larger
<1>9. losses < MaxLosses => losses + 1 \in 0 .. MaxLosses
  BY <1>0
<1>10. 0 \in 0 .. C /\ w \in 0 .. C /\ 1 \in 1 .. C /\ s \in Nat /\ 0 \in Nat
  BY <1>1
<1>11. CASE EnterReduction
  <2>1. ca' = EndOfEpoch /\ losses' = losses + 1 /\ losses < MaxLosses
        /\ now' = now /\ spinning' = spinning /\ spent' = 0 /\ round' = round
    BY <1>11 DEF EnterReduction
  <2>2. tp' = [tp EXCEPT !.state = "reduction", !.ssthresh = z, !.cwnd_cnt = 0,
                         !.prior_cwnd = w, !.prior_ssthresh = s]
    BY <1>2, <1>3, <1>4, <1>11 DEF EnterReduction
  <2>3. tp' \in Stack /\ tp'.ssthresh = z
    BY <1>0, <1>1, <1>10, <2>2 DEF Stack
  <2> QED
    BY <1>1, <1>4, <1>9, <2>1, <2>3, EndOfEpochOK
<1>12. ASSUME NEW undo \in BOOLEAN, LeaveReduction(undo) PROVE tp' \in Stack /\ tp'.state = "open"
  <2>1. s <= C
    BY <1>0, <1>1, <1>3, <1>12 DEF LeaveReduction
  <2>2. PICK y \in 1 .. C : y = IF undo THEN u ELSE s
    BY <2>1
  <2>3. PICK r \in Nat \ {0, 1} : r = IF undo THEN x ELSE s
    OBVIOUS
  <2>4. tp' = [tp EXCEPT !.state = "open", !.cwnd = y, !.ssthresh = r,
                         !.prior_cwnd = 0, !.prior_ssthresh = 0]
    BY <1>2, <1>3, <1>5, <1>6, <1>7, <1>8, <1>12, <2>2, <2>3 DEF LeaveReduction
  <2> QED
    BY <1>0, <1>1, <1>10, <2>4 DEF Stack
<1>13. ASSUME NEW undo \in BOOLEAN, LeaveLoss(undo) PROVE tp' \in Stack /\ tp'.state = "open"
  <2>1. PICK y \in 1 .. C : y = IF undo THEN u ELSE w
    OBVIOUS
  <2>2. PICK r \in Nat \ {0, 1} : r = IF undo THEN x ELSE s
    OBVIOUS
  <2>3. tp' = [tp EXCEPT !.state = "open", !.cwnd = y, !.ssthresh = r,
                         !.prior_cwnd = 0, !.prior_ssthresh = 0]
    BY <1>2, <1>3, <1>5, <1>6, <1>7, <1>8, <1>13, <2>1, <2>2 DEF LeaveLoss
  <2> QED
    BY <1>0, <1>1, <1>10, <2>3 DEF Stack
<1>14. CASE \E undo \in BOOLEAN : LeaveReduction(undo) \/ LeaveLoss(undo)
  <2>1. UNCHANGED <<ca, now, spinning, losses, round>> /\ spent' = 0
    BY <1>14 DEF LeaveReduction, LeaveLoss
  <2>2. tp' \in Stack /\ tp'.state = "open"
    BY <1>12, <1>13, <1>14
  <2> QED
    BY <1>0, <2>1, <2>2
<1>15. ASSUME NEW asks_ssthresh \in BOOLEAN, Timeout(asks_ssthresh)
       PROVE  /\ CurveOK(ca') /\ tp' \in Stack /\ tp'.state = "loss"
              /\ now' = now /\ spinning' = spinning /\ spent' = 0
              /\ losses' \in 0 .. MaxLosses /\ round' = {}
  <2>1. /\ ca' = Reset(IF asks_ssthresh THEN EndOfEpoch ELSE ca)
        /\ losses' = losses + 1 /\ losses < MaxLosses
        /\ now' = now /\ spinning' = spinning /\ spent' = 0 /\ round' = {}
    BY <1>15 DEF Timeout
  <2>2. CurveOK(IF asks_ssthresh THEN EndOfEpoch ELSE ca)
    BY <1>0, EndOfEpochOK
  <2>3. CurveOK(ca')
    BY <2>1, <2>2, ResetOK
  <2>4. \/ tp' = [tp EXCEPT !.state = "loss", !.cwnd = 1, !.cwnd_cnt = 0, !.ssthresh = z,
                            !.prior_cwnd = w, !.prior_ssthresh = s]
        \/ tp' = [tp EXCEPT !.state = "loss", !.cwnd = 1, !.cwnd_cnt = 0]
    BY <1>2, <1>3, <1>4, <1>15 DEF Timeout
  <2>5. tp' \in Stack /\ tp'.state = "loss"
    BY <1>0, <1>1, <1>10, <2>4 DEF Stack
  <2> QED
    BY <1>9, <2>1, <2>3, <2>5
<1> QED
  BY <1>11, <1>14, <1>15

\* Every step keeps the variables in their ranges.  Hybrid slow start has its invariant.
LEMMA TypeStep ==
  ASSUME TypeInv, Inv, HystartInv, [Next]_vars
  PROVE  TypeInv'
<1>0. HystartType'
  BY HystartStep DEF HystartInv
<1>1. /\ CurveOK(ca) /\ tp \in Stack /\ (tp.state = "reduction" => tp.ssthresh <= Clamp)
      /\ now \in 1 .. MaxTime /\ spinning \in BOOLEAN /\ losses \in 0 .. MaxLosses
      /\ spent \in Nat /\ round \subseteq Nat
  BY TypeParts
<1>2. SUFFICES /\ CurveOK(ca') /\ tp' \in Stack /\ (tp'.state = "reduction" => tp'.ssthresh <= Clamp)
               /\ now' \in 1 .. MaxTime /\ spinning' \in BOOLEAN /\ losses' \in 0 .. MaxLosses
               /\ spent' \in Nat /\ round' \subseteq Nat
  <2>1. TypeInv' <=> /\ CurveOK(ca') /\ HystartType'
                     /\ tp' \in Stack /\ (tp'.state = "reduction" => tp'.ssthresh <= Clamp)
                     /\ now' \in 1 .. MaxTime /\ spinning' \in BOOLEAN
                     /\ losses' \in 0 .. MaxLosses /\ spent' \in Nat /\ round' \subseteq Nat
    <3>1. TypeOK' <=> /\ ca' \in [DOMAIN Zeroes -> Nat]
                      /\ ca'.bic_scale \in 1 .. 1023 /\ ca'.beta \in 1 .. 1023
                      /\ HystartType' /\ tp' \in Stack
                      /\ now' \in 1 .. MaxTime /\ spinning' \in BOOLEAN
                      /\ losses' \in 0 .. MaxLosses /\ spent' \in Nat /\ round' \subseteq Nat
      BY ZenonT(30) DEF TypeOK, HystartType, Stack
    <3>2. CurveOK(ca') => /\ ca' \in [DOMAIN Zeroes -> Nat]
                          /\ ca'.bic_scale \in 1 .. 1023 /\ ca'.beta \in 1 .. 1023
      BY ZenonT(30) DEF CurveOK
    <3> QED
      BY <3>1, <3>2 DEF TypeInv
  <2> QED
    BY <1>0, <2>1
<1>3. ASSUME NEW v \in ParamVectors, NEW acked \in AckCounts,
             NEW limited \in BOOLEAN, NEW passes \in BOOLEAN,
             CongAvoid(v, acked, limited, passes)
      PROVE  /\ CurveOK(ca') /\ tp' \in Stack /\ tp'.state # "reduction"
             /\ now' = now /\ spinning' \in BOOLEAN /\ losses' = losses
             /\ spent' \in Nat /\ round' \in {round, {}}
  <2>1. acked \in Nat
    BY InputAssumption
  <2>2. CurveOK(ca') /\ spinning' \in BOOLEAN /\ spent' \in Nat
        /\ tp' \in Stack /\ tp'.state = tp.state
    BY <1>3, <2>1, CongAvoidGrowth
  <2>3. tp.state # "reduction" /\ now' = now /\ losses' = losses /\ round' \in {round, {}}
    BY <1>3 DEF CongAvoid
  <2> QED
    BY <2>2, <2>3
<1>4. CASE \E v \in ParamVectors, acked \in AckCounts, limited, passes \in BOOLEAN :
              CongAvoid(v, acked, limited, passes)
  BY <1>1, <1>3, <1>4
<1>5. CASE \E rtt_us \in Rtts : PktsAcked(rtt_us)
  <2>1. PICK rtt_us \in Rtts : PktsAcked(rtt_us)
    BY <1>5
  <2>2. now' = now /\ spinning' = spinning /\ losses' = losses /\ spent' = 0
    BY <2>1 DEF PktsAcked
  <2> QED
    BY <1>1, <2>1, <2>2, PktsAckedType
<1>6. CASE \/ EnterReduction
           \/ \E undo \in BOOLEAN : LeaveReduction(undo) \/ LeaveLoss(undo)
           \/ \E asks_ssthresh \in BOOLEAN : Timeout(asks_ssthresh)
  <2>1. /\ CurveOK(ca') /\ tp' \in Stack /\ (tp'.state = "reduction" => tp'.ssthresh <= Clamp)
        /\ now' = now /\ spinning' = spinning /\ spent' = 0 /\ losses' \in 0 .. MaxLosses
        /\ round' \in {round, {}}
    BY <1>6, LossType
  <2> QED
    BY <1>1, <2>1
<1>7. CASE \E delta \in IdleTimes : TxStart(delta)
  <2>1. PICK delta \in IdleTimes : TxStart(delta)
    BY <1>7
  <2>2. PICK n \in Nat : n = Shifted(delta)
    <3>1. ca.epoch_start \in Nat
      BY <1>1, CurveNumbers, FieldNames
    <3>2. delta \in Nat /\ now \in Nat
      BY <1>1, InputAssumption
    <3> QED
      BY <3>1, <3>2 DEF Shifted, Smaller
  <2>3. ca' = [ca EXCEPT !.epoch_start = n] /\ spent' = 0
        /\ UNCHANGED <<tp, now, spinning, losses, round>>
    BY <2>1, <2>2 DEF TxStart
  <2>4. CurveOK(ca')
    BY <1>1, <2>3, FieldWritten
  <2> QED
    BY <1>1, <2>3, <2>4
<1>8. CASE Tick
  <2>1. UNCHANGED <<ca, tp, spinning, losses, round>> /\ spent' = 0
    BY <1>8 DEF Tick
  <2>2. now' \in 1 .. MaxTime
    BY <1>1, <1>8, InputAssumption DEF Tick
  <2> QED
    BY <1>1, <2>1, <2>2
<1>9. CASE Spin \/ UNCHANGED vars
  BY <1>1, <1>9 DEF Spin, vars
<1> QED
  BY <1>4, <1>5, <1>6, <1>7, <1>8, <1>9 DEF Next

\* The inductive invariant of the whole flow
AllInv == TypeInv /\ Inv /\ HystartInv

LEMMA InitAll == ASSUME Init PROVE AllInv
<1>1. HystartInv
  <2>1. Clock(1) \in Nat /\ 0 \in 0 .. HystartMinSamples
    BY ClockType, HystartAssumption
  <2> QED
    BY <2>1 DEF Init, HystartInv, HystartType, CurrRttOfRound
<1> QED
  BY <1>1, InitType, InitInv DEF AllInv

LEMMA NextAll == ASSUME AllInv, [Next]_vars PROVE AllInv'
BY TypeStep, NextInv, HystartStep DEF AllInv

LEMMA AllInvHolds == Spec => []AllInv
BY InitAll, NextAll, PTL DEF Spec

\* Every field stays in its range: the window within 1 .. snd_cwnd_clamp, the threshold
\* at two or more, the parameters of the controller in 1 .. 1023, and every field of the
\* curve a number, so that cubic_root reads its table within its bounds.
THEOREM TypeCorrect == Spec => []TypeOK
<1>1. AllInv => TypeOK
  BY DEF AllInv, TypeInv
<1> QED
  BY <1>1, AllInvHolds, PTL

\* CUBIC grows by one packet per two ACKed ones at most (tcp_scubic.c:477), whatever cnt
\* the saved cwnd_cnt was counted under and wherever slow start ended in the same call.
THEOREM GrowthIsBounded == Spec => OnePerTwoAcked
<1>1. ASSUME AllInv, [Next]_vars
      PROVE  [spent' > 0 =>
                LET slow_started == Smaller(Larger(tp.cwnd, tp.ssthresh), Clamp)
                IN  2 * (tp'.cwnd - slow_started) + tp'.cwnd_cnt <= tp.cwnd_cnt + spent']_vars
  <2>1. ASSUME NEW v \in ParamVectors, NEW acked \in AckCounts,
               NEW limited \in BOOLEAN, NEW passes \in BOOLEAN,
               CongAvoid(v, acked, limited, passes), spent' > 0
        PROVE  Bounded(tp, tp', spent')
    <3>1. acked \in Nat
      BY InputAssumption
    <3> QED
      BY <1>1, <2>1, <3>1, CongAvoidGrowth DEF AllInv
  <2>2. ASSUME spent' > 0, ~UNCHANGED vars
        PROVE  \E v \in ParamVectors, acked \in AckCounts, limited, passes \in BOOLEAN :
                  CongAvoid(v, acked, limited, passes)
    <3>1. \A rtt_us : PktsAcked(rtt_us) => spent' = 0
      BY DEF PktsAcked
    <3>2. \A b : LeaveReduction(b) \/ LeaveLoss(b) \/ Timeout(b) => spent' = 0
      BY DEF LeaveReduction, LeaveLoss, Timeout
    <3>3. EnterReduction \/ Tick \/ (\E delta : TxStart(delta)) => spent' = 0
      BY DEF EnterReduction, Tick, TxStart
    <3>4. ~Spin
      BY <2>2 DEF Spin
    <3> QED
      BY <1>1, <2>2, <3>1, <3>2, <3>3, <3>4 DEF Next
  <2>3. spent' > 0 /\ ~UNCHANGED vars => Bounded(tp, tp', spent')
    BY <2>1, <2>2
  <2> QED
    BY <2>3 DEF Bounded
<1> QED
  BY <1>1, AllInvHolds, PTL DEF Spec, OnePerTwoAcked

-----------------------------------------------------------------------------
(* The curve of an epoch *)

\* K and the scale of a running epoch belong together.
OnCurve(c) ==
    c.epoch_start # 0 /\ c.bic_K # 0 =>
        \E bic \in 1 .. 1023, lost \in 1 .. c.bic_origin_point :
            /\ c.cube_rtt_scale = bic * 10
            /\ c.bic_K = CubicRoot((CubeFactor(bic) * lost) % 2 ^ U64Bits)

\* What OnCurve looks at
SameCurve(c, d) ==
    /\ d.cube_rtt_scale = c.cube_rtt_scale /\ d.bic_K = c.bic_K
    /\ d.bic_origin_point = c.bic_origin_point
    /\ d.epoch_start # 0 => c.epoch_start # 0

LEMMA SameCurveKept ==
  ASSUME NEW c, NEW d, OnCurve(c), SameCurve(c, d)
  PROVE  OnCurve(d)
<1>1. c.epoch_start = 0 \/ c.epoch_start # 0
  OBVIOUS
<1> QED
  BY <1>1 DEF OnCurve, SameCurve

\* scubic_set_params changes what the next epoch is computed from, not this one.
LEMMA SetParamsCurve == ASSUME NEW c, NEW v  PROVE  SameCurve(c, SetParams(c, v))
<1>1. PICK w, x, y, z : UpdateParams(c, v[1], v[2])
          = [c EXCEPT !.bic_scale = w, !.beta = x, !.beta_scale = y, !.cube_factor = z]
  BY DEF UpdateParams
<1>2. SetParams(c, v) = c \/ SetParams(c, v) = UpdateParams(c, v[1], v[2])
  BY DEF SetParams
<1>3. PICK d : d = [c EXCEPT !.bic_scale = w, !.beta = x, !.beta_scale = y, !.cube_factor = z]
  OBVIOUS
<1>4. SameCurve(c, d) /\ SameCurve(c, c)
  BY <1>3 DEF SameCurve
<1> QED
  BY <1>1, <1>2, <1>3, <1>4

\* A new epoch takes both from the parameters in force.
LEMMA StartEpochCurve ==
  ASSUME NEW c, CurveOK(c), NEW w \in 1 .. Clamp, NEW acked, NEW d, d = StartEpoch(c, w, acked)
  PROVE  OnCurve(d)
<1>1. PICK m \in Nat : m = c.last_max_cwnd
  BY CurveNumbers, FieldNames
<1>2. PICK bic \in 1 .. 1023 : bic = c.bic_scale /\ c.cube_factor = CubeFactor(bic)
  BY DEF CurveOK
<1>3. PICK K : K = IF m <= w THEN 0 ELSE CubicRoot((c.cube_factor * (m - w)) % 2 ^ U64Bits)
  OBVIOUS
<1>4. PICK o : o = Larger(m, w)
  OBVIOUS
<1>5. PICK r \in Nat : r = bic * 10
  OBVIOUS
<1>6. d = [c EXCEPT !.epoch_start = now, !.ack_cnt = acked, !.tcp_cwnd = w,
                    !.cube_rtt_scale = r, !.bic_K = K, !.bic_origin_point = o]
  BY <1>1, <1>2, <1>3, <1>4, <1>5 DEF StartEpoch
<1>7. {"cube_rtt_scale", "bic_K", "bic_origin_point"} \subseteq DOMAIN c
  BY CurveFields, FieldNames
<1>8. d.cube_rtt_scale = r /\ d.bic_K = K /\ d.bic_origin_point = o
  BY <1>6, <1>7
<1>9. ASSUME K # 0
      PROVE  \E lost \in 1 .. o : K = CubicRoot((CubeFactor(bic) * lost) % 2 ^ U64Bits)
  <2>1. ~(m <= w)
    BY <1>3, <1>9
  <2>2. o = m
    BY <1>1, <1>4, <2>1, InputAssumption DEF Larger
  <2>3. m - w \in 1 .. o
    BY <1>1, <2>1, <2>2, InputAssumption
  <2>4. K = CubicRoot((CubeFactor(bic) * (m - w)) % 2 ^ U64Bits)
    BY <1>2, <1>3, <2>1
  <2> QED
    BY <2>3, <2>4
<1> QED
  BY <1>5, <1>8, <1>9 DEF OnCurve

\* The part of bictcp_update that computes the curve
LEMMA BeforeFriendlyCurve ==
  ASSUME NEW c, CurveOK(c), OnCurve(c), NEW w \in 1 .. Clamp, NEW acked \in Nat, now \in Nat,
         NEW d, d = BeforeFriendly(c, w, acked)
  PROVE  OnCurve(d)
<1>1. PICK a : a = [c EXCEPT !.last_cwnd = w, !.last_time = now]
  OBVIOUS
<1>2. CurveOK(a)
  <2>1. PICK D : D = DOMAIN Zeroes
    OBVIOUS
  <2>2. c \in [D -> Nat]
    BY <2>1 DEF CurveOK
  <2>3. w \in Nat /\ now \in Nat
    BY InputAssumption
  <2>4. a \in [D -> Nat]
    BY <1>1, <2>2, <2>3
  <2>5. /\ a.bic_scale = c.bic_scale /\ a.beta = c.beta /\ a.cube_factor = c.cube_factor
        /\ a.last_max_cwnd = c.last_max_cwnd
    BY <1>1
  <2> QED
    BY <2>1, <2>4, <2>5, OtherFields
<1>3. OnCurve(a)
  <2>1. SameCurve(c, a)
    BY <1>1 DEF SameCurve
  <2> QED
    BY <2>1, SameCurveKept
<1>4. PICK b : b = BeginEpoch(a, w, acked)
  OBVIOUS
<1>5. OnCurve(b)
  <2>1. CASE a.epoch_start = 0
    <3>1. b = StartEpoch(a, w, acked)
      BY <1>4, <2>1 DEF BeginEpoch
    <3> QED
      BY <1>2, <3>1, StartEpochCurve
  <2>2. CASE a.epoch_start # 0
    BY <1>3, <1>4, <2>2 DEF BeginEpoch
  <2> QED
    BY <2>1, <2>2
<1>6. PICK e : e = Cubic(b, w)
  OBVIOUS
<1>7. OnCurve(e)
  <2>1. \E n : e = [b EXCEPT !.cnt = n]
    BY <1>6 DEF Cubic
  <2>2. SameCurve(b, e)
    BY <2>1 DEF SameCurve
  <2> QED
    BY <1>5, <2>2, SameCurveKept
<1>8. d = c \/ d = e
  BY <1>1, <1>4, <1>6 DEF BeforeFriendly
<1> QED
  BY <1>7, <1>8

\* bictcp_update keeps the curve, also when it does not return from its loop.
LEMMA AvoidCurve ==
  ASSUME TypeInv, OnCurve(ca), NEW v, NEW u, NEW acked \in Nat, u.cwnd \in 1 .. Clamp,
         Avoid(SetParams(ca, v), u, acked)
  PROVE  OnCurve(ca')
<1>1. PICK c : c = SetParams(ca, v)
  OBVIOUS
<1>2. CurveOK(c) /\ OnCurve(c)
  BY <1>1, SetParamsOK, SetParamsCurve, SameCurveKept DEF TypeInv
<1>3. PICK k : k = [c EXCEPT !.ack_cnt = @ + acked]
  OBVIOUS
<1>4. CurveOK(k)
  <2>1. PICK D : D = DOMAIN Zeroes
    OBVIOUS
  <2>2. c \in [D -> Nat]
    BY <1>2, <2>1 DEF CurveOK
  <2>3. PICK n \in Nat : n = c.ack_cnt + acked
    BY <1>2, CurveNumbers, FieldNames
  <2>4. k = [c EXCEPT !.ack_cnt = n]
    BY <1>3, <2>3
  <2>5. k \in [D -> Nat]
    BY <2>2, <2>4
  <2>6. /\ k.bic_scale = c.bic_scale /\ k.beta = c.beta /\ k.cube_factor = c.cube_factor
        /\ k.last_max_cwnd = c.last_max_cwnd
    BY <2>4
  <2> QED
    BY <1>2, <2>1, <2>5, <2>6, OtherFields
<1>5. OnCurve(k)
  <2>1. SameCurve(c, k)
    BY <1>3 DEF SameCurve
  <2> QED
    BY <1>2, <2>1, SameCurveKept
<1>6. PICK w \in 1 .. Clamp : w = u.cwnd
  OBVIOUS
<1>7. PICK b : b = BeforeFriendly(k, w, acked)
  OBVIOUS
<1>8. OnCurve(b)
  <2>1. now \in Nat
    BY DEF TypeInv, TypeOK
  <2> QED
    BY <1>4, <1>5, <1>7, <2>1, BeforeFriendlyCurve
<1>9. PICK a : a = AtLeastTwo(Friendly(b, w))
  OBVIOUS
<1>10. OnCurve(a)
  <2>1. PICK f : f = Friendly(b, w)
    OBVIOUS
  <2>2. \E x, y, z : f = [b EXCEPT !.ack_cnt = x, !.tcp_cwnd = y, !.cnt = z]
    BY <2>1 DEF Friendly
  <2>3. \E n : a = [f EXCEPT !.cnt = n]
    BY <1>9, <2>1 DEF AtLeastTwo
  <2>4. SameCurve(b, f) /\ SameCurve(f, a)
    BY <2>2, <2>3 DEF SameCurve
  <2> QED
    BY <1>8, <2>4, SameCurveKept
<1>11. ca' = k \/ ca' = b \/ ca' = a
  BY <1>1, <1>3, <1>6, <1>7, <1>9 DEF Avoid
<1> QED
  BY <1>5, <1>8, <1>10, <1>11

\* Every step keeps the curve of the epoch.
LEMMA CurveStep ==
  ASSUME AllInv, OnCurve(ca), [Next]_vars
  PROVE  OnCurve(ca')
<1>0. "epoch_start" \in DOMAIN ca
  BY CurveFields, FieldNames DEF AllInv, TypeInv
<1>1. ASSUME SameCurve(ca, ca')  PROVE  OnCurve(ca')
  BY <1>1, SameCurveKept
<1>2. CASE \E v \in ParamVectors, acked \in AckCounts, limited, passes \in BOOLEAN :
              CongAvoid(v, acked, limited, passes)
  <2>1. PICK v \in ParamVectors, acked \in AckCounts, limited \in BOOLEAN, passes \in BOOLEAN :
             CongAvoid(v, acked, limited, passes)
    BY <1>2
  <2>2. acked \in Nat
    BY InputAssumption
  <2>3. \/ ca' = SetParams(ca, v)
        \/ \E u, l : /\ Avoid(SetParams(ca, v), u, l) /\ l \in Nat /\ u.cwnd \in 1 .. Clamp
    BY <2>1, <2>2, CongAvoidGrowth DEF AllInv
  <2> QED
    BY <1>1, <2>3, SetParamsCurve, AvoidCurve DEF AllInv
<1>3. CASE \E rtt_us \in Rtts : PktsAcked(rtt_us)
  <2>1. \E n : ca' = [ca EXCEPT !.delay_min = n]
    BY <1>3 DEF PktsAcked
  <2> QED
    BY <1>1, <2>1 DEF SameCurve
<1>4. CASE EnterReduction \/ \E asks_ssthresh \in BOOLEAN : Timeout(asks_ssthresh)
  <2>1. ca'.epoch_start = 0
    BY <1>0, <1>4 DEF EnterReduction, Timeout, EndOfEpoch, Reset, ResetCurve
  <2> QED
    BY <2>1 DEF OnCurve
<1>5. CASE \E delta \in IdleTimes : TxStart(delta)
  <2>1. ca.epoch_start # 0 /\ \E delta : ca' = [ca EXCEPT !.epoch_start = Shifted(delta)]
    BY <1>5 DEF TxStart
  <2> QED
    BY <1>1, <2>1 DEF SameCurve
<1>6. CASE \/ \E undo \in BOOLEAN : LeaveReduction(undo) \/ LeaveLoss(undo)
           \/ Tick \/ Spin \/ UNCHANGED vars
  <2>1. ca' = ca
    BY <1>6 DEF LeaveReduction, LeaveLoss, Tick, Spin, vars
  <2> QED
    BY <1>1, <2>1 DEF SameCurve
<1> QED
  BY <1>2, <1>3, <1>4, <1>5, <1>6 DEF Next

\* Whatever parameters come in the middle of an epoch, its K and the scale its curve is
\* computed with are of one bic_scale.
THEOREM CurveHasOneScale == Spec => []CurveOfOneScale
<1> DEFINE I == AllInv /\ OnCurve(ca)
<1>1. Init => I
  <2> SUFFICES ASSUME Init  PROVE  I
    OBVIOUS
  <2>1. ca.epoch_start = 0
    BY DEF Init, UpdateParams, Reset, ResetCurve, Zeroes
  <2> QED
    BY <2>1, InitAll DEF OnCurve
<1>2. I /\ [Next]_vars => I'
  BY NextAll, CurveStep DEF AllInv
<1>3. I => CurveOfOneScale
  BY DEF OnCurve, CurveOfOneScale
<1> QED
  BY <1>1, <1>2, <1>3, PTL DEF Spec

-----------------------------------------------------------------------------
(* The curve at the precision of the code.  The provers take the powers of *)
(* two from a table, whose exponents and values never meet in one step.    *)

\* A table that doubles from one entry to the next
Doubles(p) == p[0] = 1 /\ \A k \in 1 .. 64 : p[k] \in Nat /\ p[k] = 2 * p[k - 1]

LEMMA Doubled ==
  ASSUME NEW p, Doubles(p)
  PROVE  /\ p[11] = 2048 /\ p[33] = 8589934592 /\ p[36] = 68719476736
         /\ p[37] = 137438953472 /\ p[40] = 1099511627776 /\ p[51] = 2251799813685248
         /\ p[64] \in Nat /\ p[64] >= p[51]
<1>1. \A k \in 1 .. 64 : p[k] \in Nat /\ p[k] = 2 * p[k - 1]
  BY DEF Doubles
<1>2. p[1] = 2 /\ p[2] = 4 /\ p[3] = 8 /\ p[4] = 16 /\ p[5] = 32 /\ p[6] = 64 /\ p[7] = 128
  BY <1>1 DEF Doubles
<1>3. p[8] = 256 /\ p[9] = 512 /\ p[10] = 1024 /\ p[11] = 2048 /\ p[12] = 4096 /\ p[13] = 8192
  BY <1>1, <1>2
<1>4. p[14] = 16384 /\ p[15] = 32768 /\ p[16] = 65536 /\ p[17] = 131072 /\ p[18] = 262144
  BY <1>1, <1>3
<1>5. p[19] = 524288 /\ p[20] = 1048576 /\ p[21] = 2097152 /\ p[22] = 4194304 /\ p[23] = 8388608
  BY <1>1, <1>4
<1>6. p[24] = 16777216 /\ p[25] = 33554432 /\ p[26] = 67108864 /\ p[27] = 134217728
  BY <1>1, <1>5
<1>7. p[28] = 268435456 /\ p[29] = 536870912 /\ p[30] = 1073741824 /\ p[31] = 2147483648
  BY <1>1, <1>6
<1>8. p[32] = 4294967296 /\ p[33] = 8589934592 /\ p[34] = 17179869184 /\ p[35] = 34359738368
  BY <1>1, <1>7
<1>9. p[36] = 68719476736 /\ p[37] = 137438953472 /\ p[38] = 274877906944
      /\ p[39] = 549755813888 /\ p[40] = 1099511627776
  BY <1>1, <1>8
<1>10. p[44] = 17592186044416
  <2>1. p[41] = 2 * p[40] /\ p[42] = 2 * p[41] /\ p[43] = 2 * p[42] /\ p[44] = 2 * p[43]
    BY <1>1
  <2> QED
    BY <1>9, <2>1
<1>11. p[48] = 281474976710656
  <2>1. p[45] = 2 * p[44] /\ p[46] = 2 * p[45] /\ p[47] = 2 * p[46] /\ p[48] = 2 * p[47]
    BY <1>1
  <2> QED
    BY <1>10, <2>1
<1>12. p[51] = 2251799813685248
  <2>1. p[49] = 2 * p[48] /\ p[50] = 2 * p[49] /\ p[51] = 2 * p[50]
    BY <1>1
  <2> QED
    BY <1>11, <2>1
<1>13. p[64] \in Nat /\ p[64] >= p[51]
  <2>1. /\ p[52] = 2 * p[51] /\ p[53] = 2 * p[52] /\ p[54] = 2 * p[53] /\ p[55] = 2 * p[54]
        /\ p[56] = 2 * p[55] /\ p[57] = 2 * p[56] /\ p[58] = 2 * p[57] /\ p[59] = 2 * p[58]
        /\ p[60] = 2 * p[59] /\ p[61] = 2 * p[60] /\ p[62] = 2 * p[61] /\ p[63] = 2 * p[62]
        /\ p[64] = 2 * p[63]
    BY <1>1
  <2>2. p[51] \in Nat /\ p[52] \in Nat /\ p[53] \in Nat /\ p[54] \in Nat /\ p[55] \in Nat
        /\ p[56] \in Nat /\ p[57] \in Nat /\ p[58] \in Nat /\ p[59] \in Nat /\ p[60] \in Nat
        /\ p[61] \in Nat /\ p[62] \in Nat /\ p[63] \in Nat /\ p[64] \in Nat
    BY <1>1
  <2> QED
    BY <2>1, <2>2
<1> QED
  BY <1>3, <1>8, <1>9, <1>12, <1>13

\* The numbers of an epoch that begins with a window of 4 after one of 1080, with a
\* bic_scale of 918: the argument of cubic_root, its fls64 f and what it returns
Argument == 128875218608
Root == 5059

LEMMA ExactRoot ==
  ASSUME NEW p, Doubles(p), NEW a \in Nat, a = Argument,
         NEW f \in 7 .. 64, a < p[f], a >= p[f - 1],
         NEW b, b = ((f * 84) \div 256) - 1,
         NEW guess, guess = ((RootTable[a \div p[3 * b] + 1] + 10) * p[b]) \div 64
  PROVE  ((2 * guess + (a \div (guess * (guess - 1)))) * 341) \div 1024 = Root
<1>1. p[36] <= a /\ a < p[37]
  BY Doubled DEF Argument
<1>2. \A k \in 1 .. 64 : p[k] \in Nat /\ p[k] >= p[k - 1]
  <2>1. p[0] \in Nat
    BY DEF Doubles
  <2>2. \A k \in 1 .. 64 : p[k - 1] \in Nat
    <3>1. \A k \in 1 .. 64 : k - 1 = 0 \/ k - 1 \in 1 .. 64
      OBVIOUS
    <3> QED
      BY <2>1, <3>1 DEF Doubles
  <2> QED
    BY <2>2 DEF Doubles
<1>3. f = 37
  <2>1. \A k \in 7 .. 36 : p[k] <= p[36]
    <3>1. /\ p[7] <= p[8] /\ p[8] <= p[9] /\ p[9] <= p[10] /\ p[10] <= p[11] /\ p[11] <= p[12]
          /\ p[12] <= p[13] /\ p[13] <= p[14] /\ p[14] <= p[15] /\ p[15] <= p[16]
          /\ p[16] <= p[17] /\ p[17] <= p[18] /\ p[18] <= p[19] /\ p[19] <= p[20]
          /\ p[20] <= p[21] /\ p[21] <= p[22] /\ p[22] <= p[23] /\ p[23] <= p[24]
          /\ p[24] <= p[25] /\ p[25] <= p[26] /\ p[26] <= p[27] /\ p[27] <= p[28]
          /\ p[28] <= p[29] /\ p[29] <= p[30] /\ p[30] <= p[31] /\ p[31] <= p[32]
          /\ p[32] <= p[33] /\ p[33] <= p[34] /\ p[34] <= p[35] /\ p[35] <= p[36]
      BY <1>2
    <3> QED
      BY <1>2, <3>1, SMTT(60)
  <2>2. \A k \in 37 .. 63 : p[37] <= p[k]
    <3>1. /\ p[37] <= p[38] /\ p[38] <= p[39] /\ p[39] <= p[40] /\ p[40] <= p[41]
          /\ p[41] <= p[42] /\ p[42] <= p[43] /\ p[43] <= p[44] /\ p[44] <= p[45]
          /\ p[45] <= p[46] /\ p[46] <= p[47] /\ p[47] <= p[48] /\ p[48] <= p[49]
          /\ p[49] <= p[50] /\ p[50] <= p[51] /\ p[51] <= p[52] /\ p[52] <= p[53]
          /\ p[53] <= p[54] /\ p[54] <= p[55] /\ p[55] <= p[56] /\ p[56] <= p[57]
          /\ p[57] <= p[58] /\ p[58] <= p[59] /\ p[59] <= p[60] /\ p[60] <= p[61]
          /\ p[61] <= p[62] /\ p[62] <= p[63]
      BY <1>2
    <3> QED
      BY <1>2, <3>1, SMTT(60)
  <2>3. ~(f \in 7 .. 36)
    <3>1. f \in 7 .. 36 => p[f] <= p[36] /\ p[f] \in Nat /\ p[36] \in Nat
      BY <1>2, <2>1
    <3> QED
      BY <1>1, <3>1
  <2>4. ~(f \in 38 .. 64)
    <3>1. f \in 38 .. 64 => p[37] <= p[f - 1] /\ p[f - 1] \in Nat /\ p[37] \in Nat
      BY <1>2, <2>2
    <3> QED
      BY <1>1, <3>1
  <2> QED
    BY <2>3, <2>4
<1>4. b = 11
  BY <1>3
<1>5. p[3 * b] = 8589934592 /\ p[b] = 2048
  BY <1>4, Doubled
<1>6. a \div p[3 * b] = 15
  BY <1>5 DEF Argument
<1>7. RootTable[a \div p[3 * b] + 1] = 156
  BY <1>6 DEF RootTable
<1>8. guess = 5312
  BY <1>5, <1>7
<1>9. a \div (guess * (guess - 1)) = 4568
  <2>1. guess * (guess - 1) = 28212032
    BY <1>8
  <2> QED
    BY <2>1 DEF Argument
<1> QED
  BY <1>8, <1>9 DEF Root

\* "The following code does not have overflow problems, if the cwnd < 1 million packets"
\* (tcp_scubic.c:421-422): with the code's constants, in the jiffy an epoch begins with a
\* window of 4 after one of 1080 and a bic_scale of 918, the curve is below zero.
THEOREM CurveFallsBelowZero ==
  ASSUME NEW c, CurveOK(c), c.bic_scale = 918, c.last_max_cwnd = 1080, c.delay_min < 8,
         NEW acked, now \in Nat
  PROVE  BICTCP_HZ = 10 /\ U64Bits = 64 /\ Word = 4294967296 =>
           LET d == StartEpoch(c, 4, acked)
           IN  BelowOrigin(d) /\ CubeDelta(d) > d.bic_origin_point
<1>1. SUFFICES ASSUME BICTCP_HZ = 10, U64Bits = 64, Word = 4294967296
               PROVE  LET d == StartEpoch(c, 4, acked)
                      IN  BelowOrigin(d) /\ CubeDelta(d) > d.bic_origin_point
  OBVIOUS
<1>2. PICK s, w : s = CubeShift /\ w = U64Bits
  OBVIOUS
<1>3. PICK p : p = [k \in 0 .. w |-> 2 ^ k]
  OBVIOUS
<1>4. s = 40 /\ w = 64
  BY <1>1, <1>2 DEF CubeShift
<1>5. w \in Nat /\ s \in 0 .. w
  BY <1>4
<1>6. Doubles(p)
  <2>1. p[0] = 1
    <3>1. 0 \in 0 .. w
      BY <1>5
    <3> QED
      BY <1>3, <3>1, PowersAssumption
  <2>2. ASSUME NEW k \in 1 .. w  PROVE  p[k] \in Nat /\ p[k] = 2 * p[k - 1]
    <3>1. k \in 0 .. w /\ k - 1 \in 0 .. w
      BY <1>5
    <3>2. p[k] = 2 ^ k /\ p[k - 1] = 2 ^ (k - 1)
      BY <1>3, <3>1
    <3> QED
      BY <1>2, <3>1, <3>2, PowersAssumption
  <2> QED
    BY <1>4, <2>1, <2>2 DEF Doubles
<1>7. 2 ^ CubeShift = p[s] /\ 2 ^ U64Bits = p[w]
  <2>1. w \in 0 .. w
    BY <1>5
  <2> QED
    BY <1>2, <1>3, <1>5, <2>1
<1>8. p[s] = 1099511627776 /\ p[w] \in Nat /\ p[w] >= 2251799813685248
  BY <1>4, <1>6, Doubled
<1>9. CubeFactor(918) = 119772508
  <2>1. CubeFactor(918) = p[s] \div (918 * 10)
    BY <1>7 DEF CubeFactor
  <2> QED
    BY <1>8, <2>1
<1>10. PICK a \in Nat : a = Argument
  BY DEF Argument
<1>11. (CubeFactor(918) * (1080 - 4)) % 2 ^ U64Bits = a
  <2>1. CubeFactor(918) * (1080 - 4) = a
    BY <1>9, <1>10 DEF Argument
  <2>2. a % p[w] = a
    BY <1>8, <1>10 DEF Argument
  <2> QED
    BY <1>7, <2>1, <2>2
<1>12. CubicRoot(a) = Root
  <2>1. a >= 64 /\ a < p[w]
    BY <1>8, <1>10 DEF Argument
  <2>2. PICK f \in 7 .. w : f = Fls(a) /\ a < 2 ^ f /\ a >= 2 ^ (f - 1)
    BY <1>2, <1>7, <2>1, FlsRange
  <2>3. f \in 0 .. w /\ f - 1 \in 0 .. w
    BY <1>5
  <2>4. a < p[f] /\ a >= p[f - 1]
    BY <1>3, <2>2, <2>3
  <2>5. PICK b : b = ((f * 84) \div 256) - 1
    OBVIOUS
  <2>6. b \in 0 .. w /\ 3 * b \in 0 .. w
    BY <1>4, <2>5
  <2>7. PICK guess : guess = ((RootTable[a \div 2 ^ (3 * b) + 1] + 10) * 2 ^ b) \div 64
    OBVIOUS
  <2>8. 2 ^ (3 * b) = p[3 * b] /\ 2 ^ b = p[b]
    BY <1>3, <2>6
  <2>9. guess = ((RootTable[a \div p[3 * b] + 1] + 10) * p[b]) \div 64
    BY <2>7, <2>8
  <2>10. f \in 7 .. 64
    BY <1>4
  <2>11. ((2 * guess + (a \div (guess * (guess - 1)))) * 341) \div 1024 = Root
    BY <1>6, <1>10, <2>4, <2>5, <2>9, <2>10, ExactRoot
  <2>12. CubicRoot(a) = ((2 * guess + (a \div (guess * (guess - 1)))) * 341) \div 1024
    BY <2>1, <2>2, <2>5, <2>7 DEF CubicRoot
  <2> QED
    BY <2>11, <2>12
<1>13. CubeAt(9180, Root) = 1081
  <2>1. 9180 * 5059 * 5059 * 5059 = 1188602719079220
    OBVIOUS
  <2>2. 1188602719079220 % p[w] = 1188602719079220
    BY <1>8
  <2>3. 1188602719079220 \div p[s] = 1081
    BY <1>8
  <2>4. 1081 % Word = 1081
    BY <1>1
  <2>5. CubeAt(9180, Root) = (((9180 * 5059 * 5059 * 5059) % p[w]) \div p[s]) % Word
    BY <1>7 DEF CubeAt, Root
  <2> QED
    BY <2>1, <2>2, <2>3, <2>4, <2>5
<1>14. PICK r, o, K : /\ r = c.bic_scale * 10 /\ o = Larger(c.last_max_cwnd, 4)
                      /\ K = IF c.last_max_cwnd <= 4 THEN 0
                             ELSE CubicRoot((c.cube_factor * (c.last_max_cwnd - 4)) % 2 ^ U64Bits)
  OBVIOUS
<1>15. PICK d : d = StartEpoch(c, 4, acked)
  OBVIOUS
<1>16. /\ d.epoch_start = now /\ d.cube_rtt_scale = 9180 /\ d.bic_K = Root
       /\ d.bic_origin_point = 1080 /\ d.delay_min = c.delay_min
  <2>1. {"epoch_start", "cube_rtt_scale", "bic_K", "bic_origin_point"} \subseteq DOMAIN c
    BY CurveFields, FieldNames
  <2>2. d = [c EXCEPT !.epoch_start = now, !.ack_cnt = acked, !.tcp_cwnd = 4,
                      !.cube_rtt_scale = r, !.bic_K = K, !.bic_origin_point = o]
    BY <1>14, <1>15 DEF StartEpoch
  <2>3. r = 9180 /\ o = 1080 /\ ~(c.last_max_cwnd <= 4)
    BY <1>14 DEF Larger
  <2>4. c.cube_factor = CubeFactor(918)
    BY DEF CurveOK
  <2>5. K = Root
    BY <1>11, <1>12, <1>14, <2>3, <2>4
  <2>6. /\ d.epoch_start = now /\ d.cube_rtt_scale = r /\ d.bic_K = K
        /\ d.bic_origin_point = o /\ d.delay_min = c.delay_min
    BY <2>1, <2>2
  <2> QED
    BY <2>3, <2>5, <2>6
<1>17. Elapsed(d) = 0
  <2>1. c.delay_min \div 8 = 0
    <3>1. c.delay_min \in Nat
      BY CurveNumbers, FieldNames
    <3> QED
      BY <3>1
  <2>2. MsecsToJiffies(0) = 0
    BY UnitAssumption DEF MsecsToJiffies
  <2>3. PICK u \in Nat : u = 2 ^ BICTCP_HZ
    BY PowersAssumption
  <2>4. (0 * u) \div HZ = 0 /\ now - now + 0 = 0
    BY UnitAssumption
  <2> QED
    BY <1>16, <2>1, <2>2, <2>3, <2>4 DEF Elapsed
<1>18. BelowOrigin(d) /\ CubeDelta(d) = 1081
  <2>1. BelowOrigin(d) /\ d.bic_K - Elapsed(d) = Root
    BY <1>16, <1>17 DEF BelowOrigin, Root
  <2> QED
    BY <1>13, <1>16, <2>1 DEF CubeDelta
<1> QED
  BY <1>15, <1>16, <1>18

=============================================================================
