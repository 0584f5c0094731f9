---------------------------- MODULE VanillaProofs ----------------------------
(***************************************************************************)
(* The window arithmetic of Vanilla for every scale, clamp and stream of   *)
(* parameters, round-trip times and losses.                                *)
(***************************************************************************)
EXTENDS Vanilla, TLAPS

\* Division with remainder, from which the facts about TruncDiv follow.
LEMMA DivMod ==
  ASSUME NEW a \in Nat, NEW b \in Nat \ {0}
  PROVE  /\ a \div b \in Nat /\ a % b \in 0 .. b - 1
         /\ a = b * (a \div b) + (a % b)
  OBVIOUS

\* A remainder is at most the dividend, and a quotient at most what times the
\* divisor reaches the dividend.
LEMMA ModAtMost ==
  ASSUME NEW a \in Nat, NEW b \in Nat \ {0}
  PROVE  a % b \in Nat /\ a % b <= a
<1> DEFINE q == a \div b
           r == a % b
<1>1. q \in Nat /\ r \in 0 .. b - 1 /\ a = b * q + r
  BY DivMod, Zenon
<1> HIDE DEF q, r
<1>2. b * q \in Nat
  BY <1>1
<1>3. r \in Nat /\ r <= a
  BY <1>1, <1>2
<1> QED
  BY <1>3 DEF r

\* The quotient.
LEMMA DivAtMost ==
  ASSUME NEW a \in Nat, NEW b \in Nat \ {0}, NEW n \in Nat, a <= b * n
  PROVE  a \div b \in Nat /\ a \div b <= n
<1> DEFINE q == a \div b
           r == a % b
<1>1. q \in Nat /\ r \in 0 .. b - 1 /\ a = b * q + r
  BY DivMod, Zenon
<1> HIDE DEF q, r
<1>2. ASSUME q >= n + 1  PROVE  FALSE
  <2>1. b * (q - (n + 1)) \in Nat
    BY <1>1, <1>2
  <2>2. b * (q - (n + 1)) = b * q - b * n - b
    BY <1>1
  <2>3. b * q \in Nat /\ b * n \in Nat
    BY <1>1
  <2> QED
    BY <1>1, <2>1, <2>2, <2>3
<1>3. q \in Nat /\ q <= n
  BY <1>1, <1>2
<1> QED
  BY <1>3 DEF q

\* What vanilla_set_cwnd leaves in cnt is less than one segment, of the sign of
\* what was there.
LEMMA Remainder ==
  ASSUME NEW x \in Int
  PROVE  /\ TruncDiv(x, Scale) \in Int
         /\ KeptCnt(x, TruncDiv(x, Scale)) \in (1 - Scale) .. (Scale - 1)
<1> USE ScaleAssumption
<1>1. CASE x >= 0
  <2>1. /\ x \div Scale \in Nat /\ x % Scale \in 0 .. Scale - 1
        /\ x = Scale * (x \div Scale) + (x % Scale)
    <3>1. x \in Nat /\ Scale \in Nat \ {0}
      BY <1>1
    <3> QED
      BY <3>1, DivMod, Zenon
  <2>2. TruncDiv(x, Scale) = x \div Scale
    BY <1>1 DEF TruncDiv
  <2>3. KeptCnt(x, x \div Scale) = x % Scale
    BY <2>1 DEF KeptCnt
  <2> QED
    BY <2>1, <2>2, <2>3
<1>2. CASE x < 0
  <2> DEFINE y == -x
  <2>1. y \in Nat /\ x = -y
    BY <1>2
  <2>2. /\ y \div Scale \in Nat /\ y % Scale \in 0 .. Scale - 1
        /\ y = Scale * (y \div Scale) + (y % Scale)
    BY <2>1, DivMod
  <2>3. TruncDiv(x, Scale) = -(y \div Scale)
    BY <1>2 DEF TruncDiv
  <2> HIDE DEF y
  <2>4. KeptCnt(x, -(y \div Scale)) = -(y % Scale)
    BY <2>1, <2>2 DEF KeptCnt
  <2> QED
    BY <2>1, <2>2, <2>3, <2>4
<1> QED
  BY <1>1, <1>2

\* Less than two segments in cnt give at most one, in the direction of cnt.
LEMMA OneSegment ==
  ASSUME NEW x \in Int
  PROVE  /\ x >= 1 - Scale /\ x < 2 * Scale => TruncDiv(x, Scale) \in {0, 1}
         /\ x > -(2 * Scale) /\ x < Scale => TruncDiv(x, Scale) \in {-1, 0}
<1> USE ScaleAssumption
<1> DEFINE q(a) == a \div Scale
           r(a) == a % Scale
<1>1. ASSUME NEW a \in Nat
      PROVE  /\ q(a) \in Nat /\ (a < 2 * Scale => q(a) \in {0, 1})
             /\ a < Scale => q(a) = 0
  <2>1. q(a) \in Nat /\ r(a) \in 0 .. Scale - 1 /\ a = Scale * q(a) + r(a)
    BY DivMod
  <2> HIDE DEF q, r
  <2>2. ASSUME q(a) >= 2  PROVE  a >= 2 * Scale
    <3>1. Scale * q(a) >= Scale * 2
      BY <2>1, <2>2
    <3> QED
      BY <2>1, <3>1
  <2>3. ASSUME q(a) >= 1  PROVE  a >= Scale
    <3>1. Scale * q(a) >= Scale * 1
      BY <2>1, <2>3
    <3> QED
      BY <2>1, <3>1
  <2> QED
    BY <2>1, <2>2, <2>3
<1> HIDE DEF q, r
<1>2. TruncDiv(x, Scale) = IF x >= 0 THEN q(x) ELSE -q(-x)
  BY DEF TruncDiv, q
<1>3. CASE x >= 0
  BY <1>1, <1>2, <1>3
<1>4. CASE x < 0
  <2>1. -x \in Nat
    BY <1>4
  <2> QED
    BY <1>1, <1>2, <1>4, <2>1
<1> QED
  BY <1>3, <1>4

\* The parameters spine_invoke installs are in range.
LEMMA ParamsInRange ==
  ASSUME TypeOK, NEW v \in ParamVectors
  PROVE  SetParams(v) \in [alpha : Param, beta : Param, gamma : 0 .. 2 * Scale, delta : Param]
<1>1. CASE Len(v) = 4 /\ \A j \in 1 .. 4 : CheckParam(v[j])
  <2>1. U16(v[1]) \in Param /\ U16(v[2]) \in Param /\ U16(v[3]) \in Param /\ U16(v[4]) \in Param
    BY <1>1 DEF CheckParam, Param
  <2>2. U16(v[3]) * 2 \in 0 .. 2 * Scale
    BY <2>1, ScaleAssumption DEF Param
  <2> QED
    BY <1>1, <2>1, <2>2 DEF SetParams
<1>2. CASE ~(Len(v) = 4 /\ \A j \in 1 .. 4 : CheckParam(v[j]))
  BY <1>2 DEF SetParams, TypeOK
<1> QED
  BY <1>1, <1>2

\* One ACK asks for at most Scale up or down.
LEMMA ChangeInRange ==
  ASSUME NEW p \in [alpha : Param, beta : Param, gamma : 0 .. 2 * Scale, delta : Param]
  PROVE  Change(p, TRUE) \in -Scale .. 0 /\ Change(p, FALSE) \in 0 .. Scale
  BY ScaleAssumption DEF Change, Larger, Smaller, Param

\* vanilla_ssthresh leaves between LossCwnd segments and the window.
LEMMA ReducedInRange ==
  ASSUME TypeOK, CwndInRange
  PROVE  Reduced \in 1 .. Clamp /\ Reduced <= Larger(snd_cwnd, LossCwnd)
<1> USE ScaleAssumption, CwndAssumption
<1> DEFINE d == param.delta
           prod == d * snd_cwnd
           target == prod % Word
           q == target \div Scale
<1>1. d \in 1 .. Scale /\ snd_cwnd \in 1 .. Clamp
  BY DEF TypeOK, CwndInRange, Param
<1>2. prod \in Nat /\ prod <= Scale * snd_cwnd
  <2>1. d * snd_cwnd \in Nat /\ (Scale - d) * snd_cwnd \in Nat
    BY <1>1
  <2>2. Scale * snd_cwnd = d * snd_cwnd + (Scale - d) * snd_cwnd
    BY <1>1
  <2> QED
    BY <2>1, <2>2, <1>1
<1>3. target \in Nat /\ target <= prod
  <2>1. Word \in Nat \ {0}
    OBVIOUS
  <2> HIDE DEF prod
  <2> QED
    BY <1>2, <2>1, ModAtMost
<1>4. q \in Nat /\ q <= snd_cwnd
  <2> HIDE DEF target, prod
  <2>1. target <= Scale * snd_cwnd
    BY <1>1, <1>2, <1>3
  <2> QED
    BY <1>1, <1>3, <2>1, DivAtMost
<1>5. Reduced = Smaller(Larger(q, LossCwnd), Clamp)
  BY DEF Reduced
<1> HIDE DEF q
<1> QED
  BY <1>1, <1>4, <1>5 DEF Smaller, Larger

-----------------------------------------------------------------------------
(* The inductive invariant: the window and cnt bound each other's next change. *)
Inv == TypeOK /\ CntBounded /\ CwndInRange

\* vanilla_set_cwnd re-establishes both bounds, from any total.
LEMMA SetCwndBounds ==
  ASSUME Inv, NEW total \in Int, SetCwnd(total)
  PROVE  cnt' \in (1 - Scale) .. (Scale - 1) /\ snd_cwnd' \in 1 .. Clamp
<1> USE CwndAssumption
<1> DEFINE segments == TruncDiv(total, Scale)
           base == IF Restoring THEN Larger(snd_cwnd, prior_cwnd) ELSE snd_cwnd
           w == (base + segments) % Word
<1>1. segments \in Int /\ KeptCnt(total, segments) \in (1 - Scale) .. (Scale - 1)
  BY Remainder
<1>2. base \in Int
  BY DEF Inv, CwndInRange, Larger
<1>3. w \in Int
  <2> HIDE DEF segments, base
  <2>1. base + segments \in Int /\ Word \in Nat \ {0}
    BY <1>1, <1>2
  <2> QED
    BY <2>1
<1>4. cnt' = KeptCnt(total, segments) /\ snd_cwnd' = Capped(w)
  BY DEF SetCwnd
<1> HIDE DEF segments, w
<1>5. Capped(w) \in 1 .. Clamp
  BY <1>3 DEF Capped, Smaller, Larger
<1> QED
  BY <1>1, <1>4, <1>5

\* Everything holds when the flow starts.
LEMMA InitInv == Init => Inv
<1> SUFFICES ASSUME Init  PROVE  Inv
  OBVIOUS
<1>1. snd_cwnd \in 1 .. Clamp /\ snd_ssthresh \in Nat
  BY CwndAssumption, Zenon DEF Init
<1>2. param \in [alpha : Param, beta : Param, gamma : 0 .. 2 * Scale, delta : Param]
  BY InputAssumption, Zenon DEF Init
<1>3. min_rtt_us \in Nat \ {0}
  BY InputAssumption, Zenon DEF Init
<1>4. /\ cnt = 0 /\ prior_cwnd = 0 /\ prev_ca_state = 0 /\ ca_state = 0
      /\ slow_start_passed = FALSE /\ exiting = FALSE /\ delay = 0
  BY DEF Init, Open
<1>5. TypeOK
  <2>1. slow_start_passed \in BOOLEAN /\ exiting \in BOOLEAN
    BY <1>4, Zenon
  <2>2. /\ cnt \in Int /\ prior_cwnd \in Nat /\ delay \in Nat
        /\ prev_ca_state \in CaStates /\ ca_state \in CaStates
    BY <1>4 DEF CaStates, Open, Loss
  <2> QED
    BY <1>1, <1>2, <1>3, <2>1, <2>2, Zenon DEF TypeOK
<1>6. CntBounded /\ CwndInRange
  BY <1>1, <1>4, ScaleAssumption, CwndAssumption DEF CntBounded, CwndInRange
<1> QED
  BY <1>5, <1>6 DEF Inv

\* One step per call of the module.
LEMMA InvStep ==
  ASSUME Inv, [Next]_vars
  PROVE  Inv'
<1> USE ScaleAssumption, CwndAssumption, InputAssumption
        DEF CaStates, Open, Disorder, CWR, Recovery, Loss
<1>0. TypeOK /\ CntBounded /\ CwndInRange
  BY DEF Inv
<1>1. ASSUME NEW acked \in AckCounts, SlowStart(acked)
      PROVE  Inv'
  <2>1. acked * SlowStartGain \in Nat /\ cnt \in Int
    BY <1>0 DEF TypeOK
  <2>2. cnt + acked * SlowStartGain \in Int
    BY <2>1
  <2>3. SetCwnd(cnt + acked * SlowStartGain)
    BY <1>1 DEF SlowStart
  <2>4. cnt' \in (1 - Scale) .. (Scale - 1) /\ snd_cwnd' \in 1 .. Clamp
    BY <2>2, <2>3, SetCwndBounds
  <2>5. UNCHANGED <<param, min_rtt_us, prev_ca_state, prior_cwnd, slow_start_passed,
                    snd_ssthresh, ca_state>> /\ exiting' = FALSE /\ delay' = 0
    BY <1>1 DEF SlowStart
  <2>6. cnt' \in Int
    BY <2>4
  <2> QED
    BY <1>0, <2>4, <2>5, <2>6 DEF Inv, TypeOK, CntBounded, CwndInRange
<1>2. ASSUME NEW v \in ParamVectors, NEW srtt \in Rtts, CongControl(v, srtt)
      PROVE  Inv'
  <2> DEFINE p == SetParams(v)
             total == cnt + Change(p, Inflated(srtt, p))
  <2>1. p \in [alpha : Param, beta : Param, gamma : 0 .. 2 * Scale, delta : Param]
    BY <1>0, ParamsInRange
  <2>2. param' = p /\ SetCwnd(total)
    BY <1>2 DEF CongControl
  <2>3. total \in Int
    <3> HIDE DEF p
    <3>1. Change(p, TRUE) \in Int /\ Change(p, FALSE) \in Int
      <4> DEFINE down == Change(p, TRUE)
                 up == Change(p, FALSE)
      <4>1. down \in -Scale .. 0 /\ up \in 0 .. Scale
        BY <2>1, ChangeInRange, Zenon
      <4> HIDE DEF down, up
      <4>2. down \in Int /\ up \in Int
        BY <4>1
      <4> QED
        BY <4>2 DEF down, up
    <3>2. Change(p, Inflated(srtt, p)) \in Int
      BY <3>1 DEF Change
    <3> QED
      BY <1>0, <3>2 DEF TypeOK
  <2>4. cnt' \in (1 - Scale) .. (Scale - 1) /\ snd_cwnd' \in 1 .. Clamp
    <3> HIDE DEF total
    <3> QED
      BY <2>2, <2>3, SetCwndBounds
  <2>5. UNCHANGED <<min_rtt_us, prev_ca_state, prior_cwnd, slow_start_passed,
                    snd_ssthresh, ca_state>> /\ exiting' = FALSE /\ delay' = srtt
    BY <1>2 DEF CongControl
  <2>6. cnt' \in Int
    BY <2>4
  <2> HIDE DEF p, total
  <2> QED
    BY <1>0, <2>1, <2>2, <2>4, <2>5, <2>6 DEF Inv, TypeOK, CntBounded, CwndInRange
<1>3. ASSUME NEW rtt \in Rtts, PktAcked(rtt)
      PROVE  Inv'
  BY <1>0, <1>3 DEF PktAcked, Smaller, Inv, TypeOK, CntBounded, CwndInRange
<1>4. ASSUME NEW new \in {CWR, Recovery}, EnterReduction(new)
      PROVE  Inv'
  <2>1. Reduced \in 1 .. Clamp
    BY <1>0, ReducedInRange
  <2> QED
    BY <1>0, <1>4, <2>1 DEF EnterReduction, Ssthresh, SetState,
       Inv, TypeOK, CntBounded, CwndInRange
<1>5. CASE CwrToRecovery
  BY <1>0, <1>5 DEF CwrToRecovery, SetState, Inv, TypeOK, CntBounded, CwndInRange
<1>6. CASE Timeout
  <2>1. Reduced \in 1 .. Clamp
    BY <1>0, ReducedInRange
  <2> QED
    <3>1. \/ slow_start_passed' = TRUE /\ prior_cwnd' = snd_cwnd /\ snd_ssthresh' = Reduced
          \/ UNCHANGED <<slow_start_passed, prior_cwnd, snd_ssthresh>>
      BY <1>6 DEF Timeout, Ssthresh
    <3>2. /\ snd_cwnd' = 1 /\ ca_state' = Loss /\ prev_ca_state' = Loss /\ delay' = 0
          /\ UNCHANGED <<exiting, param, cnt, min_rtt_us>>
      BY <1>6 DEF Timeout, SetState
    <3>3. prior_cwnd' \in 0 .. Clamp /\ snd_ssthresh' \in Nat /\ slow_start_passed' \in BOOLEAN
      <4>1. prior_cwnd \in 0 .. Clamp /\ snd_cwnd \in 0 .. Clamp /\ Reduced \in Nat
        BY <1>0, <2>1 DEF CwndInRange
      <4>2. snd_ssthresh \in Nat /\ slow_start_passed \in BOOLEAN
        BY <1>0 DEF TypeOK
      <4> QED
        BY <3>1, <4>1, <4>2, Zenon
    <3>4. prior_cwnd' \in Nat /\ snd_cwnd' \in 1 .. Clamp
      BY <3>2, <3>3
    <3> QED
      BY <1>0, <3>2, <3>3, <3>4 DEF Inv, TypeOK, CntBounded, CwndInRange
<1>7. ASSUME NEW new \in {Open, Disorder}, NEW window \in {snd_cwnd, Larger(snd_cwnd, prior_cwnd)},
             Repaired(new, window)
      PROVE  Inv'
  BY <1>0, <1>7 DEF Repaired, SetState, Larger, Inv, TypeOK, CntBounded, CwndInRange
<1>8. CASE UNCHANGED vars
  BY <1>0, <1>8 DEF vars, Inv, TypeOK, CntBounded, CwndInRange
<1> QED
  BY <1>1, <1>2, <1>3, <1>4, <1>5, <1>6, <1>7, <1>8 DEF Next

\* The invariant holds in every reachable state.
THEOREM InvHolds == Spec => []Inv
  BY InitInv, InvStep, PTL DEF Spec

\* Every variable stays in its range, whatever vectors the controller sends: alpha,
\* beta and delta in that of vanilla_set_params, gamma in twice that (tcp_vanilla.c:81).
THEOREM TypeCorrect == Spec => []TypeOK
<1>1. Inv => TypeOK
  BY DEF Inv
<1> QED
  BY <1>1, InvHolds, PTL

\* Less than one segment stays in cnt between two calls of the module.
THEOREM CntAlwaysBounded == Spec => []CntBounded
<1>1. Inv => CntBounded
  BY DEF Inv
<1> QED
  BY <1>1, InvHolds, PTL

\* The window and the saved window never leave their range.
THEOREM CwndAlwaysInRange == Spec => []CwndInRange
<1>1. Inv => CwndInRange
  BY DEF Inv
<1> QED
  BY <1>1, InvHolds, PTL

\* One ACK moves the window by at most one segment, in the direction the delay asks for
\* while its product fits (vanilla_cong_control, vanilla_set_cwnd).
LEMMA GradualStep ==
  ASSUME Inv, Next, event' = "ack", snd_cwnd >= FloorCwnd,
         Larger(snd_cwnd, prior_cwnd) + 1 < Word
  PROVE  Gradual
<1> USE ScaleAssumption, CwndAssumption, InputAssumption
<1>0. TypeOK /\ CntBounded /\ CwndInRange
  BY DEF Inv
<1>1. ASSUME NEW v \in ParamVectors, NEW srtt \in Rtts, CongControl(v, srtt)
      PROVE  Gradual
  <2> DEFINE p == SetParams(v)
             inflated == Inflated(srtt, p)
             total == cnt + Change(p, inflated)
             segments == TruncDiv(total, Scale)
             product == srtt * Scale
             exact == product \div min_rtt_us
             limit == Scale + p.gamma
  <2>1. /\ SetCwnd(total)
        /\ delay' = srtt /\ min_rtt_us' = min_rtt_us /\ param' = p
    BY <1>1 DEF CongControl
  <2>2. p \in [alpha : Param, beta : Param, gamma : 0 .. 2 * Scale, delta : Param]
    BY <1>0, ParamsInRange
  <2>3. snd_cwnd' = Capped((AckFrom + segments) % Word)
    BY <2>1 DEF SetCwnd, AckFrom
  <2>4. \/ inflated /\ segments \in {-1, 0}
        \/ ~inflated /\ segments \in {0, 1}
    <3> DEFINE down == Change(p, TRUE)
               up == Change(p, FALSE)
    <3>1. \/ inflated /\ total = cnt + down
          \/ ~inflated /\ total = cnt + up
      BY DEF Change
    <3> HIDE DEF p, inflated, total
    <3>2. down \in -Scale .. 0 /\ up \in 0 .. Scale
      BY <2>2, ChangeInRange, Zenon
    <3> HIDE DEF down, up
    <3>3. CASE inflated /\ total = cnt + down
      <4>1. total \in Int /\ total > -(2 * Scale) /\ total < Scale
        BY <1>0, <3>2, <3>3 DEF CntBounded
      <4> QED
        BY <4>1, <3>3, OneSegment
    <3>4. CASE ~inflated /\ total = cnt + up
      <4>1. total \in Int /\ total >= 1 - Scale /\ total < 2 * Scale
        BY <1>0, <3>2, <3>4 DEF CntBounded
      <4> QED
        BY <4>1, <3>4, OneSegment
    <3> QED
      BY <3>1, <3>3, <3>4
  \* While the product fits, the module compares what exact arithmetic would.
  <2>5. product < Word => (inflated <=> exact > limit)
    <3>1. product \in Nat
      <4>1. srtt \in Nat
        OBVIOUS
      <4> QED
        BY <4>1
    <3>2. inflated <=> (product % Word) \div min_rtt_us > limit
      BY DEF Inflated
    <3> HIDE DEF product, inflated, limit
    <3>3. product < Word => product % Word = product
      BY <3>1
    <3> QED
      BY <3>2, <3>3
  <2>6. Inflation' = exact /\ Scale + param'.gamma = limit /\ delay' * Scale = product
    BY <2>1 DEF Inflation
  <2> HIDE DEF p, inflated, total, segments, product, exact, limit
  <2> DEFINE w == AckFrom + segments
  <2>7. /\ snd_cwnd \in 1 .. Clamp /\ AckFrom \in snd_cwnd .. Clamp
        /\ AckFrom + 1 < Word
    <3>1. snd_cwnd \in 1 .. Clamp /\ prior_cwnd \in 0 .. Clamp
      BY <1>0 DEF CwndInRange
    <3> QED
      BY <3>1 DEF AckFrom, Larger
  <2>8. w \in 0 .. Word - 1
    BY <2>4, <2>7
  <2>9. snd_cwnd' = Capped(w)
    <3> HIDE DEF w
    <3>1. w % Word = w
      BY <2>8
    <3> QED
      BY <2>3, <3>1 DEF w
  <2>10. CASE inflated
    <3>1. segments \in {-1, 0} /\ (delay' * Scale < Word => Inflation' > Scale + param'.gamma)
      BY <2>4, <2>5, <2>6, <2>10, Zenon
    <3>2. /\ snd_cwnd' - snd_cwnd >= -1 /\ snd_cwnd' - AckFrom <= 1
          /\ snd_cwnd' <= AckFrom
      BY <2>7, <2>9, <3>1 DEF Capped, Larger, Smaller
    <3> QED
      BY <3>1, <3>2, Zenon DEF Gradual
  <2>11. CASE ~inflated
    <3>1. segments \in {0, 1} /\ (delay' * Scale < Word => ~(Inflation' > Scale + param'.gamma))
      BY <2>4, <2>5, <2>6, <2>11, Zenon
    <3>2. /\ snd_cwnd' - snd_cwnd >= -1 /\ snd_cwnd' - AckFrom <= 1
          /\ snd_cwnd' >= snd_cwnd
      BY <2>7, <2>9, <3>1 DEF Capped, Larger, Smaller
    <3> QED
      BY <3>1, <3>2, Zenon DEF Gradual
  <2> QED
    BY <2>10, <2>11
<1> QED
  BY <1>1 DEF Next, SlowStart, PktAcked, EnterReduction, CwrToRecovery, Timeout, Repaired

\* The same for every step of every behaviour, restores included.
THEOREM WindowMovesGradually == Spec => GradualChange
<1>1. Inv /\ [Next]_vars => [event' = "ack" /\ snd_cwnd >= FloorCwnd
                               /\ Larger(snd_cwnd, prior_cwnd) + 1 < Word => Gradual]_vars
  BY GradualStep
<1> QED
  BY <1>1, InvHolds, PTL DEF Spec, GradualChange

\* A loss never widens the window (vanilla_ssthresh, for every delta that
\* vanilla_set_params accepts).
THEOREM LossReduces == Spec => LossNeverWidens
<1>1. Inv /\ [Next]_vars => [event' = "loss" => snd_cwnd' <= Larger(snd_cwnd, LossCwnd)]_vars
  <2> SUFFICES ASSUME Inv, Next, event' = "loss"
               PROVE  snd_cwnd' <= Larger(snd_cwnd, LossCwnd)
    OBVIOUS
  <2> USE CwndAssumption
  <2>1. TypeOK /\ CwndInRange
    BY DEF Inv
  <2>2. Reduced <= Larger(snd_cwnd, LossCwnd)
    BY <2>1, ReducedInRange
  <2>3. 1 <= Larger(snd_cwnd, LossCwnd)
    BY <2>1 DEF Larger, CwndInRange
  <2>4. snd_cwnd' = Reduced \/ snd_cwnd' = 1
    BY DEF Next, SlowStart, CongControl, PktAcked, EnterReduction, CwrToRecovery,
           Timeout, Repaired
  <2> QED
    BY <2>2, <2>3, <2>4
<1> QED
  BY <1>1, InvHolds, PTL DEF Spec, LossNeverWidens

-----------------------------------------------------------------------------
\* "change = alpha / 1024 - (beta / 1024) * (rtt / min_rtt - 1 - gamma / 1024)"
\* (tcp_vanilla.c:331): a delay whose product with the scale is one Word too large, from
\* 2^22 us on in the code, is judged as one that is wrap shorter (338), so
\* WindowMovesGradually cannot do without its condition.
THEOREM LongDelayLooksShort ==
  ASSUME NEW wrap \in Nat, Word = wrap * Scale, NEW srtt \in 0 .. wrap - 1, NEW p
  PROVE  Inflated(srtt + wrap, p) <=> Inflated(srtt, p)
<1> DEFINE product == srtt * Scale
<1>1. product \in Nat /\ (srtt + wrap) * Scale = product + Word
  BY ScaleAssumption
<1>2. product < Word
  <2>1. (wrap - 1 - srtt) * Scale \in Nat
    BY ScaleAssumption
  <2>2. (wrap - 1 - srtt) * Scale = Word - Scale - product
    BY ScaleAssumption
  <2> QED
    BY <1>1, <2>1, <2>2, ScaleAssumption, CwndAssumption
<1> HIDE DEF product
<1>3. Word \in Nat \ {0}
  BY CwndAssumption
<1>4. product % Word = product
  BY <1>1, <1>2, <1>3
<1>5. (product + Word) % Word = product
  <2> DEFINE q == (product + Word) \div Word
             r == (product + Word) % Word
  <2>1. q \in Nat /\ r \in 0 .. Word - 1 /\ product + Word = Word * q + r
    <3>1. product + Word \in Nat
      BY <1>1, <1>3
    <3> QED
      BY <1>3, <3>1, DivMod, Zenon
  <2> HIDE DEF q, r
  <2>2. q >= 1
    BY <1>1, <1>3, <2>1
  <2>3. q <= 1
    <3> SUFFICES ASSUME q >= 2  PROVE  FALSE
      BY <2>1
    <3>1. Word * (q - 2) \in Nat /\ Word * (q - 2) = Word * q - 2 * Word
      BY <1>3, <2>1
    <3>2. Word * q \in Nat
      BY <1>3, <2>1
    <3> QED
      BY <1>1, <1>2, <1>3, <2>1, <3>1, <3>2
  <2>4. Word * q = Word
    BY <1>3, <2>1, <2>2, <2>3
  <2>5. r = product
    BY <1>1, <1>3, <2>1, <2>4
  <2> QED
    BY <2>5 DEF r
<1> QED
  BY <1>1, <1>4, <1>5 DEF Inflated, product

=============================================================================
