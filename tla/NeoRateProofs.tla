---------------------------- MODULE NeoRateProofs ----------------------------
(***************************************************************************)
(* The rate arithmetic of NeoRate for every word, scale, window, RTT and   *)
(* stream of actions and losses.                                           *)
(*                                                                         *)
(* Whatever wraps, an interval starts within the range of the              *)
(* configuration and a cut is bounded by the socket's limit.  One action   *)
(* per interval follows from what is ready being one action away from what *)
(* is in force, in the arithmetic of the code.                             *)
(***************************************************************************)
EXTENDS NeoRate, TLAPS

-----------------------------------------------------------------------------
(* Products and quotients, which are not linear and beyond the solver *)

\* Quotient and remainder.
LEMMA DivMod ==
  ASSUME NEW a \in Nat, NEW b \in Nat \ {0}
  PROVE  /\ a \div b \in Nat /\ a % b \in 0 .. b - 1
         /\ a = b * (a \div b) + (a % b)
  OBVIOUS

\* A larger factor.
LEMMA TimesMonotone ==
  ASSUME NEW a \in Nat, NEW b \in Nat, NEW c \in Nat, a <= b
  PROVE  a * c \in Nat /\ b * c \in Nat /\ a * c <= b * c
<1>1. (b - a) * c \in Nat
  OBVIOUS
<1>2. (b - a) * c = b * c - a * c
  OBVIOUS
<1>3. a * c \in Nat /\ b * c \in Nat
  OBVIOUS
<1> QED
  BY <1>1, <1>2, <1>3

\* What goes into a times, and what does not.
LEMMA DivAtLeast ==
  ASSUME NEW a \in Nat, NEW b \in Nat \ {0}, NEW n \in Nat, n * b <= a
  PROVE  n <= a \div b
<1> DEFINE q == a \div b
           r == a % b
<1>1. q \in Nat /\ r \in 0 .. b - 1 /\ a = b * q + r
  BY DivMod, Zenon
<1> HIDE DEF q, r
<1>2. ASSUME q + 1 <= n  PROVE  FALSE
  <2>1. (q + 1) * b <= n * b /\ n * b \in Nat
    BY <1>1, <1>2, TimesMonotone
  <2>2. (q + 1) * b = b * q + b /\ b * q \in Nat
    BY <1>1
  <2> QED
    BY <1>1, <2>1, <2>2
<1>3. n <= q
  BY <1>1, <1>2
<1> QED
  BY <1>3 DEF q

LEMMA DivAtMost ==
  ASSUME NEW a \in Nat, NEW b \in Nat \ {0}, NEW n \in Nat, a <= n * b
  PROVE  a \div b \in Nat /\ a \div b <= n
<1> DEFINE q == a \div b
           r == a % b
<1>1. q \in Nat /\ r \in 0 .. b - 1 /\ a = b * q + r
  BY DivMod, Zenon
<1> HIDE DEF q, r
<1>2. ASSUME n + 1 <= q  PROVE  FALSE
  <2>1. (n + 1) * b <= q * b /\ q * b \in Nat
    BY <1>1, <1>2, TimesMonotone
  <2>2. (n + 1) * b = n * b + b /\ n * b \in Nat /\ q * b = b * q
    BY <1>1
  <2> QED
    BY <1>1, <2>1, <2>2
<1>3. q <= n
  BY <1>1, <1>2
<1> QED
  BY <1>1, <1>3 DEF q

-----------------------------------------------------------------------------
(* The rates *)

\* A product cut to a word, and divided.
LEMMA CutAndDivided ==
  ASSUME NEW a \in Nat, NEW b \in Nat, NEW w \in Nat \ {0}, NEW d \in Nat \ {0}
  PROVE  ((a * b) % w) \div d \in Nat
<1>1. a * b \in Nat
  OBVIOUS
<1>2. (a * b) % w \in Nat
  <2> DEFINE p == a * b
  <2>1. p \in Nat
    BY <1>1
  <2> HIDE DEF p
  <2>2. p % w \in Nat
    BY <2>1
  <2> QED
    BY <2>2 DEF p
<1>3. PICK q \in Nat : q = (a * b) % w
  BY <1>2
<1>4. q \div d \in Nat
  BY DivMod
<1> QED
  BY <1>3, <1>4

\* What the constants are, in one place.
LEMMA Constants ==
  /\ Word \in Nat \ {0} /\ CwndWord \in Nat \ {0} /\ Clamp \in Nat
  /\ Scale \in Nat \ {0} /\ Increase \in Nat /\ Scale <= Increase
  /\ Decrease \in Nat /\ Decrease <= Scale /\ CwndGain \in Nat
  /\ LossKept \in Nat /\ LossScale \in Nat \ {0}
  /\ Mtu \in Nat /\ Mss \in Nat \ {0} /\ Second \in Nat \ {0} /\ DefaultRtt \in Nat
  /\ RateMin \in Nat /\ MaxPacing \in Nat /\ RateMin <= MaxPacing /\ MaxPacing < Word
  BY RatesAssumption, ScaleAssumption, StackAssumption

\* The window is one, whatever wraps.
LEMMA WindowIsNat ==
  ASSUME NEW pacing \in Nat, NEW srtt \in Rtts
  PROVE  CwndFor(pacing, srtt) \in Nat
<1> USE Constants
<1>1. NeoRtt(srtt) \in Nat
  BY StackAssumption DEF NeoRtt
<1>2. PICK q \in Nat : q = ((pacing * NeoRtt(srtt)) % Word) \div Mss
  BY <1>1, CutAndDivided
<1>3. PICK segments \in Nat : segments = q \div Second
  BY DivMod
<1>4. PICK cwnd \in Nat : cwnd = ((segments * CwndGain) % Word) \div Scale
  BY CutAndDivided
<1>5. CwndFor(pacing, srtt) = Smaller(Larger(cwnd, 4) % CwndWord, Clamp)
  BY <1>2, <1>3, <1>4 DEF CwndFor
<1>6. Larger(cwnd, 4) \in Nat
  BY DEF Larger
<1>7. Larger(cwnd, 4) % CwndWord \in Nat
  BY <1>6, DivMod
<1> QED
  BY <1>5, <1>7 DEF Smaller

\* The rate of a cut is within the socket's limit.
LEMMA PacingInRange ==
  ASSUME NEW cwnd \in Nat, NEW out \in Nat, NEW srtt \in Nat
  PROVE  PacingFor(cwnd, out, srtt) \in 0 .. MaxPacing
<1> USE Constants
<1>1. Larger(cwnd, out) \in Nat /\ Mtu * Second \in Nat
  BY DEF Larger
<1>2. PICK half \in Nat : half = ((Mtu * Second * Larger(cwnd, out)) % Word) \div 2
  BY <1>1, CutAndDivided
<1>3. PacingFor(cwnd, out, srtt) = Smaller(IF srtt = 0 THEN half ELSE half \div srtt, MaxPacing)
  BY <1>2 DEF PacingFor
<1>4. CASE srtt = 0
  BY <1>3, <1>4 DEF Smaller
<1>5. CASE srtt # 0
  <2>1. half \div srtt \in Nat
    BY <1>5, DivMod
  <2> QED
    BY <1>3, <1>5, <2>1 DEF Smaller
<1> QED
  BY <1>4, <1>5

\* The range of the configuration.
LEMMA RangeKept ==
  ASSUME NEW r \in Nat
  PROVE  InRange(r) \in RateMin .. MaxPacing
  BY Constants DEF InRange, Smaller, Larger

\* An action yields a word.
LEMMA ActionsAreWords ==
  ASSUME NEW r \in Nat
  PROVE  Raised(r) \in Nat /\ Lowered(r) \in Nat
<1> USE Constants
<1>1. PICK up \in Nat : up = ((r * Increase) % Word) \div Scale
  BY CutAndDivided
<1>2. PICK down \in Nat : down = ((r * Decrease) % Word) \div Scale
  BY CutAndDivided
<1>3. (up + 1) % Word \in Nat /\ (down - 1) % Word \in Nat
  OBVIOUS
<1> QED
  BY <1>1, <1>2, <1>3 DEF Raised, Lowered

\* Where the steps fit, the arithmetic of the code is exact, and the steps go up and down.
LEMMA StepsAreExact ==
  ASSUME NEW r \in Nat, StepsFit(r)
  PROVE  /\ Raised(r) = StepUp(r) /\ Lowered(r) = StepDown(r)
         /\ StepDown(r) \in Nat /\ StepUp(r) \in Nat
         /\ StepDown(r) <= r /\ r <= StepUp(r)
<1> USE Constants
<1>1. r * Scale \in Nat /\ r * Increase \in Nat /\ r * Scale <= r * Increase
  <2>1. r * Scale = Scale * r /\ r * Increase = Increase * r
    OBVIOUS
  <2> QED
    BY <2>1, TimesMonotone
<1>2. r * Decrease \in Nat /\ r * Decrease <= r * Scale
  <2>1. r * Scale = Scale * r /\ r * Decrease = Decrease * r
    OBVIOUS
  <2> QED
    BY <2>1, TimesMonotone
<1>3. PICK u \in Nat, d \in Nat : u = r * Increase /\ d = r * Decrease
  BY <1>1, <1>2
<1>4. u < Word /\ d <= u
  BY <1>1, <1>2, <1>3 DEF StepsFit
<1>5. u % Word = u /\ d % Word = d
  BY <1>4
<1>6. PICK up \in Nat, down \in Nat : up = u \div Scale /\ down = d \div Scale
  BY DivMod
<1>7. up >= r
  BY <1>1, <1>3, <1>6, DivAtLeast
<1>8. down <= r
  BY <1>2, <1>3, <1>6, DivAtMost
<1>9. StepUp(r) = up + 1 /\ StepDown(r) = down - 1
  BY <1>3, <1>6 DEF StepUp, StepDown
<1>10. up + 1 < Word /\ down - 1 >= 0
  BY <1>9 DEF StepsFit
<1>11. down <= up
  BY <1>7, <1>8
<1>12. (up + 1) % Word = up + 1 /\ (down - 1) % Word = down - 1
  <2>1. up + 1 \in 0 .. Word - 1 /\ down - 1 \in 0 .. Word - 1
    BY <1>10, <1>11
  <2> QED
    BY <2>1
<1>13. Raised(r) = (up + 1) % Word /\ Lowered(r) = (down - 1) % Word
  BY <1>3, <1>5, <1>6 DEF Raised, Lowered
<1> QED
  BY <1>7, <1>8, <1>9, <1>10, <1>12, <1>13

-----------------------------------------------------------------------------
(* The invariant *)

\* What is ready is at most one action away from what is in force.
OneAway(r, ready) == ready \in {r, Raised(r), Lowered(r)}

RateInv ==
    /\ rate \in 0 .. MaxPacing /\ sk_pacing_rate = rate
    /\ OneAway(rate, ready_rate)
    /\ ~slow_start_passed => rate >= RateMin

\* The windows an ACK, a loss or a restore may leave.
WindowInv == snd_cwnd \in Nat /\ prior_cwnd \in Nat

IInv == RateInv /\ WindowInv

\* An action counts from the rate in force, anything else leaves what is ready.
LEMMA ParamsOneAway ==
  ASSUME NEW r, NEW ready, NEW v, OneAway(r, ready)
  PROVE  OneAway(r, SetParams(r, ready, v))
  BY DEF OneAway, SetParams, Asked

\* A restore keeps the window one.
LEMMA RestoreKeeps ==
  ASSUME WindowInv
  PROVE  Restored \in Nat
  BY DEF WindowInv, Restored, Larger

\* The window the first loss leaves.
LEMMA ReducedIsNat ==
  ASSUME WindowInv
  PROVE  Reduced \in Nat
<1>1. ((snd_cwnd * LossKept) % CwndWord) \div LossScale \in Nat
  BY Constants, CutAndDivided DEF WindowInv
<1> QED
  BY <1>1 DEF Reduced, WindowInv

\* An ACK begins an interval, or does not.
LEMMA CongControlStep ==
  ASSUME IInv, NEW starts \in BOOLEAN, NEW v \in ParamVectors, NEW srtt \in Rtts,
         CongControl(starts, v, srtt)
  PROVE  IInv'
<1> USE Constants
<1>1. /\ rate \in 0 .. MaxPacing /\ sk_pacing_rate = rate /\ OneAway(rate, ready_rate)
      /\ ~slow_start_passed => rate >= RateMin
      /\ WindowInv
  BY DEF IInv, RateInv
<1>2. UNCHANGED <<slow_start_passed, prior_cwnd, prev_loss, ca_state>>
  BY DEF CongControl
<1>3. CASE starts
  <2>1. ready_rate \in Nat
    BY <1>1, ActionsAreWords DEF OneAway
  <2>2. PICK r \in RateMin .. MaxPacing : r = InRange(ready_rate)
    BY <2>1, RangeKept
  <2>3. /\ rate' = r /\ sk_pacing_rate' = r /\ snd_cwnd' = CwndFor(r, srtt)
        /\ ready_rate' = SetParams(r, r, v)
    BY <1>3, <2>2 DEF CongControl
  <2>4. OneAway(r, SetParams(r, r, v))
    BY ParamsOneAway DEF OneAway
  <2>5. snd_cwnd' \in Nat
    <3>1. r \in Nat
      OBVIOUS
    <3> QED
      BY <2>3, <3>1, WindowIsNat
  <2>6. RateInv'
    BY <2>3, <2>4 DEF RateInv
  <2>7. WindowInv'
    BY <1>1, <1>2, <2>5 DEF WindowInv
  <2> QED
    BY <2>6, <2>7 DEF IInv
<1>4. CASE ~starts
  <2>1. /\ rate' = rate /\ sk_pacing_rate' = sk_pacing_rate /\ snd_cwnd' = Restored
        /\ ready_rate' = SetParams(rate, ready_rate, v)
    BY <1>4 DEF CongControl
  <2>2. OneAway(rate, SetParams(rate, ready_rate, v))
    BY <1>1, ParamsOneAway
  <2>3. RateInv'
    BY <1>1, <1>2, <2>1, <2>2 DEF RateInv
  <2>4. WindowInv'
    BY <1>1, <1>2, <2>1, RestoreKeeps DEF WindowInv
  <2> QED
    BY <2>3, <2>4 DEF IInv
<1> QED
  BY <1>3, <1>4

\* A loss cuts the rate to what the reduced window carries, the first time.
LEMMA SsthreshStep ==
  ASSUME IInv, NEW out \in PacketsOut, NEW srtt \in Rtts, Ssthresh(out, srtt)
  PROVE  RateInv' /\ prior_cwnd' \in Nat /\ Reduced \in Nat
<1>1. slow_start_passed' = TRUE /\ prior_cwnd' = Reduced
  BY DEF Ssthresh
<1>2. Reduced \in Nat
  BY ReducedIsNat DEF IInv
<1>3. CASE slow_start_passed
  <2>1. UNCHANGED rates
    BY <1>3 DEF Ssthresh
  <2> QED
    BY <1>1, <1>2, <2>1 DEF IInv, RateInv, rates
<1>4. CASE ~slow_start_passed
  <2>1. out \in Nat /\ srtt \in Nat
    BY StackAssumption
  <2>2. PICK pacing \in 0 .. MaxPacing : pacing = PacingFor(Reduced, out, srtt)
    BY <1>2, <2>1, PacingInRange
  <2>3. sk_pacing_rate' = pacing /\ rate' = pacing /\ ready_rate' = pacing
    BY <1>4, <2>2 DEF Ssthresh, Cut
  <2> QED
    BY <1>1, <1>2, <2>3 DEF RateInv, OneAway
<1> QED
  BY <1>3, <1>4

\* The rates are those of before, and the window is one.
LEMMA RatesKept ==
  ASSUME IInv, rates' = rates, slow_start_passed' = slow_start_passed,
         snd_cwnd' \in Nat, prior_cwnd' = prior_cwnd
  PROVE  IInv'
  BY DEF IInv, RateInv, WindowInv, rates

\* The invariant holds in every reachable state.
THEOREM RateInvariant == Spec => []IInv
<1>1. Init => IInv
  <2> SUFFICES ASSUME Init  PROVE  IInv
    OBVIOUS
  <2>1. /\ rate = InRange(InitRate) /\ ready_rate = rate /\ sk_pacing_rate = rate
        /\ prior_cwnd = 0
    BY DEF Init
  <2>2. InitRate \in Nat
    BY RatesAssumption
  <2>3. rate \in RateMin .. MaxPacing /\ rate \in Nat
    BY <2>1, <2>2, RangeKept, Constants
  <2>4. snd_cwnd \in Nat
    BY <2>3, WindowIsNat DEF Init
  <2> QED
    BY <2>1, <2>3, <2>4, Constants DEF IInv, RateInv, WindowInv, OneAway
<1>2. IInv /\ [Next]_vars => IInv'
  <2> SUFFICES ASSUME IInv, [Next]_vars  PROVE  IInv'
    OBVIOUS
  <2>1. ASSUME NEW starts \in BOOLEAN, NEW v \in ParamVectors, NEW srtt \in Rtts,
               CongControl(starts, v, srtt)
        PROVE  IInv'
    BY <2>1, CongControlStep
  <2>2. CASE NoSample
    <3>1. /\ rates' = rates /\ slow_start_passed' = slow_start_passed
          /\ snd_cwnd' = Restored /\ prior_cwnd' = prior_cwnd
      BY <2>2 DEF NoSample
    <3> QED
      BY <3>1, RestoreKeeps, RatesKept DEF IInv
  <2>3. ASSUME NEW new \in {"cwr", "recovery"}, NEW out \in PacketsOut, NEW srtt \in Rtts,
               EnterReduction(new, out, srtt)
        PROVE  IInv'
    <3>1. Ssthresh(out, srtt) /\ snd_cwnd' = Reduced
      BY <2>3 DEF EnterReduction
    <3> QED
      BY <3>1, SsthreshStep DEF IInv, WindowInv
  <2>4. ASSUME NEW out \in PacketsOut, NEW srtt \in Rtts, NEW window \in TimeoutWindows,
               Timeout(out, srtt, window)
        PROVE  IInv'
    <3>1. snd_cwnd' \in Nat
      BY <2>4, StackAssumption DEF Timeout
    <3>2. CASE Ssthresh(out, srtt)
      BY <3>1, <3>2, SsthreshStep DEF IInv, WindowInv
    <3>3. CASE UNCHANGED <<rates, slow_start_passed, prior_cwnd>>
      BY <3>1, <3>3, RatesKept
    <3> QED
      BY <2>4, <3>2, <3>3 DEF Timeout
  <2>5. ASSUME NEW new \in {"open", "recovery"}, Repaired(new)
        PROVE  IInv'
    <3>1. snd_cwnd' \in Nat
      BY <2>5 DEF Repaired, IInv, WindowInv
    <3> QED
      BY <2>5, <3>1, RatesKept DEF Repaired
  <2>6. CASE UNCHANGED vars
    BY <2>6 DEF vars, rates, IInv, RateInv, WindowInv
  <2> QED
    BY <2>1, <2>2, <2>3, <2>4, <2>5, <2>6 DEF Next
<1> QED
  BY <1>1, <1>2, PTL DEF Spec

-----------------------------------------------------------------------------
(* What the rate promises *)

\* RateInForce: the stack paces at the rate neo counts from, which is not above the
\* socket's limit, and not below NEO_RATE_MIN before the first loss.
THEOREM PacedAtRate == Spec => []RateInForce
<1>1. IInv => RateInForce
  BY DEF IInv, RateInv, RateInForce
<1> QED
  BY <1>1, RateInvariant, PTL

\* OneStepPerInterval: an interval moves the rate by one exact action at most, from every
\* rate whose actions fit 64 bits; only the first loss moves it further.
THEOREM OneActionAtMost == Spec => OneStepPerInterval
<1> DEFINE Step == rate' # rate /\ slow_start_passed' = slow_start_passed /\ StepsFit(rate)
                     => rate' \in InRange(StepDown(rate)) .. InRange(StepUp(rate))
<1>1. IInv /\ [Next]_vars => [Step]_vars
  <2> SUFFICES ASSUME IInv, Next, rate' # rate, slow_start_passed' = slow_start_passed,
                      StepsFit(rate)
               PROVE  rate' \in InRange(StepDown(rate)) .. InRange(StepUp(rate))
    OBVIOUS
  <2>1. ASSUME NEW out, NEW srtt, Ssthresh(out, srtt)
        PROVE  FALSE
    BY <2>1 DEF Ssthresh, rates
  <2>2. PICK starts \in BOOLEAN, v \in ParamVectors, srtt \in Rtts : CongControl(starts, v, srtt)
    BY <2>1 DEF Next, NoSample, EnterReduction, Timeout, Repaired, rates
  <2>3. rate' = InRange(ready_rate)
    BY <2>2 DEF CongControl
  <2>4. /\ rate \in Nat /\ StepDown(rate) \in Nat /\ StepUp(rate) \in Nat
        /\ StepDown(rate) <= ready_rate /\ ready_rate <= StepUp(rate) /\ ready_rate \in Nat
    <3>1. rate \in Nat /\ ready_rate \in {rate, Raised(rate), Lowered(rate)}
      BY Constants DEF IInv, RateInv, OneAway
    <3> QED
      BY <3>1, StepsAreExact
  <2> QED
    BY <2>3, <2>4, Constants DEF InRange, Larger, Smaller
<1> QED
  BY <1>1, RateInvariant, PTL DEF Spec, OneStepPerInterval
=============================================================================
