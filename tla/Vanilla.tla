------------------------------- MODULE Vanilla -------------------------------
(***************************************************************************)
(* The window control of tcp_vanilla.c for one flow.  The TCP stack calls  *)
(* the module under the socket lock, so every call is one step.  What the  *)
(* stack itself does between the calls (its congestion states, the window  *)
(* it sets on a timeout, an undo) is the environment, modelled from how    *)
(* the module uses it.                                                     *)
(*                                                                         *)
(* Numbers of the code are constants, so that instances can be small:      *)
(* Scale is 1024, SlowStartGain 500, MaxDecrease 512, FloorCwnd 10,        *)
(* LossCwnd 2 and Word 2^32 in the code.  A definition with the suffix     *)
(* Slip is a plausible mistake in the definition after it; no behaviour    *)
(* uses it.                                                                *)
(***************************************************************************)
EXTENDS Integers, Sequences

CONSTANTS
    Scale,           \* VANILLA_SCALE, also the largest parameter
    SlowStartGain,   \* what an acked segment adds to cnt in slow start
    MaxDecrease,     \* bound of a decrease of cnt per ACK
    FloorCwnd,       \* smallest window vanilla_set_cwnd leaves
    LossCwnd,        \* smallest window vanilla_ssthresh leaves
    Clamp,           \* tp->snd_cwnd_clamp
    Word,            \* u32 arithmetic is modulo Word
    NoRtt,           \* min_rtt_us before the first sample (0x7fffffff)
    DefaultParams,   \* vanilla_reset: alpha, beta, gamma, delta
    ParamVectors,    \* what spine_invoke may hand to vanilla_set_params
    InitCwnds, InitSsthreshs,    \* the stack's values when the flow starts
    Rtts,            \* round-trip times in samples, and srtt >> 3
    AckCounts        \* rs->acked_sacked

Param == 1 .. Scale

ASSUME ScaleAssumption ==
    /\ Scale \in Nat \ {0}
    /\ SlowStartGain \in Nat
    /\ MaxDecrease \in 1 .. Scale
ASSUME CwndAssumption ==
    /\ LossCwnd \in Nat \ {0}
    /\ FloorCwnd \in Nat /\ FloorCwnd >= LossCwnd
    /\ Clamp \in Nat /\ Clamp >= FloorCwnd
    /\ Word \in Nat /\ Word > Clamp
    /\ InitCwnds \subseteq 1 .. Clamp
    /\ InitSsthreshs \subseteq Nat
ASSUME InputAssumption ==
    /\ DefaultParams \in [alpha : Param, beta : Param, gamma : 0 .. 2 * Scale, delta : Param]
    /\ ParamVectors \subseteq Seq(Nat)
    /\ NoRtt \in Nat \ {0}
    /\ Rtts \subseteq Nat
    /\ AckCounts \subseteq Nat

\* enum tcp_ca_state
Open == 0
Disorder == 1
CWR == 2
Recovery == 3
Loss == 4
CaStates == Open .. Loss

VARIABLES
    param,              \* alpha, beta, gamma, delta
    cnt,                \* window change accumulated so far, in 1/Scale segments
    min_rtt_us, prev_ca_state, prior_cwnd, slow_start_passed,
    snd_cwnd, snd_ssthresh, ca_state,     \* the stack's side of the flow
    event,              \* history: which call the last step was
    delay,              \* history: the smoothed RTT it decided by, 0 if none
    exiting             \* history: a loss was repaired and no ACK handled since

vars == <<param, cnt, min_rtt_us, prev_ca_state, prior_cwnd, slow_start_passed,
          snd_cwnd, snd_ssthresh, ca_state, event, delay, exiting>>

Larger(a, b)  == IF a >= b THEN a ELSE b
Smaller(a, b) == IF a <= b THEN a ELSE b

\* Integer division of C truncates towards zero.
TruncDiv(a, b) == IF a >= 0 THEN a \div b ELSE -((-a) \div b)

-----------------------------------------------------------------------------
\* vanilla_init: vanilla_reset, for a flow the stack has set up.
Init ==
    /\ param = DefaultParams
    /\ cnt = 0
    /\ min_rtt_us = NoRtt
    /\ prev_ca_state = Open
    /\ prior_cwnd = 0
    /\ slow_start_passed = FALSE
    /\ snd_cwnd \in InitCwnds
    /\ snd_ssthresh \in InitSsthreshs
    /\ ca_state = Open
    /\ event = "init" /\ delay = 0 /\ exiting = FALSE

\* vanilla_set_params: exactly four values; each is cut to 16 bits and must lie
\* in 1 .. Scale, or the whole vector is ignored.
U16(v) == v % 65536
CheckParamSlip(v) == U16(v) <= Scale
CheckParam(v) == U16(v) \in 1 .. Scale

SetParams(v) ==
    IF Len(v) = 4 /\ \A j \in 1 .. 4 : CheckParam(v[j])
      THEN [alpha |-> U16(v[1]), beta |-> U16(v[2]),
            gamma |-> U16(v[3]) * 2, delta |-> U16(v[4])]
      ELSE param

\* vanilla_set_cwnd: whole segments go from cnt to the window.
Restoring == prev_ca_state >= Recovery /\ ca_state < Recovery
KeptCntSlip(total, segments) == total
KeptCnt(total, segments) == total - segments * Scale

CappedSlip(w) == Smaller(w, Clamp)
Capped(w) == Smaller(Larger(w, FloorCwnd), Clamp)

SetCwnd(total) ==
    LET segments == TruncDiv(total, Scale)
        base == IF Restoring THEN Larger(snd_cwnd, prior_cwnd) ELSE snd_cwnd
    IN  /\ cnt' = KeptCnt(total, segments)
        /\ snd_cwnd' = Capped((base + segments) % Word)

\* vanilla_cong_control while the flow is in its first slow start
InSlowStart == snd_cwnd < snd_ssthresh /\ ~slow_start_passed

SlowStart(acked) ==
    /\ InSlowStart
    /\ SetCwnd(cnt + acked * SlowStartGain)
    /\ event' = "slow_start" /\ delay' = 0 /\ exiting' = FALSE
    /\ UNCHANGED <<param, min_rtt_us, prev_ca_state, prior_cwnd,
                   slow_start_passed, snd_ssthresh, ca_state>>

\* ... and afterwards: spine_invoke may bring new parameters, the delay decides
\* on the direction.  The product is computed in 32 bits.
Inflated(srtt, p) == ((srtt * Scale) % Word) \div min_rtt_us > Scale + p.gamma
ChangeSlip(p, inflated) == IF inflated THEN -p.beta - p.gamma ELSE p.alpha + p.gamma
Change(p, inflated) == IF inflated THEN Larger(-p.beta, -MaxDecrease)
                       ELSE Smaller(p.alpha, Scale)

CongControl(v, srtt) ==
    LET p == SetParams(v)
        inflated == Inflated(srtt, p)
    IN  /\ ~InSlowStart
        /\ param' = p
        /\ SetCwnd(cnt + Change(p, inflated))
        /\ event' = "ack" /\ delay' = srtt /\ exiting' = FALSE
        /\ UNCHANGED <<min_rtt_us, prev_ca_state, prior_cwnd,
                       slow_start_passed, snd_ssthresh, ca_state>>

\* vanilla_pkt_acked
PktAcked(rtt) ==
    /\ min_rtt_us' = Smaller(min_rtt_us, rtt + 1)
    /\ event' = "pkt_acked" /\ delay' = 0
    /\ UNCHANGED <<exiting, param, cnt, prev_ca_state, prior_cwnd, slow_start_passed,
                   snd_cwnd, snd_ssthresh, ca_state>>

\* vanilla_ssthresh: the window itself is reduced, not only the threshold.
ReducedSlip == Smaller(Larger(((param.delta * prior_cwnd) % Word) \div Scale, LossCwnd), Clamp)
Reduced == Smaller(Larger(((param.delta * snd_cwnd) % Word) \div Scale, LossCwnd), Clamp)
Ssthresh ==
    /\ slow_start_passed' = TRUE
    /\ prior_cwnd' = snd_cwnd
    /\ snd_ssthresh' = Reduced

\* vanilla_set_state: only a timeout is remembered.
SetState(new) ==
    /\ ca_state' = new
    /\ prev_ca_state' = IF new = Loss THEN Loss ELSE prev_ca_state

-----------------------------------------------------------------------------
(* The stack's congestion states.  It asks for a new threshold when it leaves *)
(* Open or Disorder, and sets a window of its own on a timeout.               *)

EnterReduction(new) ==
    /\ new \in {CWR, Recovery} /\ ca_state < CWR
    /\ Ssthresh
    /\ snd_cwnd' = Reduced
    /\ SetState(new)
    /\ event' = "loss" /\ delay' = 0
    /\ UNCHANGED <<exiting, param, cnt, min_rtt_us>>

CwrToRecovery ==
    /\ ca_state = CWR
    /\ SetState(Recovery)
    /\ event' = "set_state" /\ delay' = 0
    /\ UNCHANGED <<exiting, param, cnt, min_rtt_us, prior_cwnd, slow_start_passed,
                   snd_cwnd, snd_ssthresh>>

Timeout ==
    /\ \/ Ssthresh
       \/ ca_state >= CWR /\ UNCHANGED <<slow_start_passed, prior_cwnd, snd_ssthresh>>
    /\ snd_cwnd' = 1
    /\ SetState(Loss)
    /\ event' = "loss" /\ delay' = 0
    /\ UNCHANGED <<exiting, param, cnt, min_rtt_us>>

\* The loss is repaired: the stack returns to Open or Disorder, and when the
\* retransmissions were spurious it takes the reduction back (the stack saves the
\* window where it asks for the threshold, so its copy equals prior_cwnd).
Repaired(new, window) ==
    /\ ca_state >= CWR /\ new < CWR
    /\ window \in {snd_cwnd, Larger(snd_cwnd, prior_cwnd)}
    /\ snd_cwnd' = window
    /\ SetState(new)
    /\ event' = "repaired" /\ delay' = 0 /\ exiting' = TRUE
    /\ UNCHANGED <<param, cnt, min_rtt_us, prior_cwnd,
                   slow_start_passed, snd_ssthresh>>

Next ==
    \/ \E acked \in AckCounts : SlowStart(acked)
    \/ \E v \in ParamVectors, srtt \in Rtts : CongControl(v, srtt)
    \/ \E rtt \in Rtts : PktAcked(rtt)
    \/ \E new \in {CWR, Recovery} : EnterReduction(new)
    \/ CwrToRecovery
    \/ Timeout
    \/ \E new \in {Open, Disorder}, window \in {snd_cwnd, Larger(snd_cwnd, prior_cwnd)} :
          Repaired(new, window)

Spec == Init /\ [][Next]_vars

-----------------------------------------------------------------------------
\* Types.  gamma has the range in which the code keeps it, twice that of the value
\* vanilla_set_params checks (tcp_vanilla.c:81).
TypeOK ==
    /\ param \in [alpha : Param, beta : Param, gamma : 0 .. 2 * Scale, delta : Param]
    /\ cnt \in Int
    /\ min_rtt_us \in Nat \ {0}
    /\ prev_ca_state \in CaStates /\ ca_state \in CaStates
    /\ prior_cwnd \in Nat /\ snd_ssthresh \in Nat
    /\ slow_start_passed \in BOOLEAN
    /\ delay \in Nat /\ exiting \in BOOLEAN

\* Between two calls less than one segment is left in cnt: whatever an ACK adds,
\* vanilla_set_cwnd takes every whole segment out of cnt.
CntBounded == cnt \in (1 - Scale) .. (Scale - 1)

\* The window stays within 1 and the clamp, whatever ACKs, losses, timeouts,
\* restores and undos follow each other, and so does every saved window.
CwndInRange == snd_cwnd \in 1 .. Clamp /\ prior_cwnd \in 0 .. Clamp

\* One ACK after slow start takes at most one segment from the window and adds at most
\* one, counted from the saved window where that is restored.  As long as the product of
\* the delay fits its 32 bits, the window never grows while the delay is inflated and
\* never shrinks while it is not, although cnt may carry a remainder of the opposite
\* sign from earlier ACKs.  Both sides of the comparison are those of exact arithmetic.
Inflation == (delay * Scale) \div min_rtt_us
AckFrom == IF Restoring THEN Larger(snd_cwnd, prior_cwnd) ELSE snd_cwnd

Gradual ==
    /\ snd_cwnd' - snd_cwnd >= -1
    /\ snd_cwnd' - AckFrom <= 1
    /\ delay' * Scale < Word =>
         IF Inflation' > Scale + param'.gamma THEN snd_cwnd' <= AckFrom ELSE snd_cwnd' >= snd_cwnd
GradualChange ==
    [][event' = "ack" /\ snd_cwnd >= FloorCwnd /\ Larger(snd_cwnd, prior_cwnd) + 1 < Word
         => Gradual]_vars

\* A loss never widens the window beyond the two segments it always leaves: with
\* every delta the controller can install, the reduction is one.
LossNeverWidens == [][event' = "loss" => snd_cwnd' <= Larger(snd_cwnd, LossCwnd)]_vars

\* What the comment at tcp_vanilla.c:277 says: the saved window is restored when the
\* flow leaves loss recovery, so an ACK handled later moves it by one segment only.
RestoreOnlyOnExit ==
    [][event' = "ack" /\ ~exiting /\ snd_cwnd >= FloorCwnd
         => snd_cwnd' <= snd_cwnd + 1]_vars

=============================================================================
