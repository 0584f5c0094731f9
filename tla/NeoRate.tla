------------------------------- MODULE NeoRate -------------------------------
(***************************************************************************)
(* The sending rate of tcp_neo.c for one flow: the actions of the agent    *)
(* raise or lower it, a monitor interval puts it in force, the first loss  *)
(* cuts it.  Neo models the intervals themselves; here an interval begins  *)
(* at any ACK, or fails to begin because the ring is full.                 *)
(*                                                                         *)
(* Rates are bytes per unit of time.  The stack's part for an algorithm    *)
(* with cong_control: it sets the window on a timeout only.  The rate an   *)
(* interval records is never read and left out.  Rates are u64 and windows *)
(* u32, and every product wraps as in the code: nothing bounds a rate but  *)
(* sk_max_pacing_rate, which is ~0UL unless the application sets it.  A    *)
(* definition with the suffix Slip is a plausible mistake in the           *)
(* definition after it; no behaviour uses it.                              *)
(***************************************************************************)
EXTENDS Integers, Sequences

CONSTANTS
    RateMin, InitRate,            \* NEO_RATE_MIN, and 512 times it
    MaxPacing,                    \* sk_max_pacing_rate
    Scale, Increase, Decrease, CwndGain,
    LossKept, LossScale,          \* 717 / 1000
    Mtu, Mss, Second,             \* tcp_mss_to_mtu, mss_cache, USEC_PER_SEC
    Clamp,                        \* snd_cwnd_clamp
    Word, CwndWord,               \* 2^64, 2^32
    Rtts, DefaultRtt,             \* srtt_us >> 3, and its value before a sample
    PacketsOut, TimeoutWindows,   \* the stack's numbers
    ParamVectors                  \* what spine_invoke may hand to neo_set_params

ASSUME RatesAssumption ==
    /\ RateMin \in Nat /\ MaxPacing \in Nat /\ RateMin <= MaxPacing
    /\ InitRate \in RateMin .. MaxPacing /\ Word \in Nat /\ MaxPacing < Word
ASSUME ScaleAssumption ==
    /\ Scale \in Nat \ {0} /\ Increase \in Nat /\ Increase >= Scale /\ Decrease \in 0 .. Scale
    /\ CwndGain \in Nat /\ LossScale \in Nat \ {0} /\ LossKept \in 0 .. LossScale
ASSUME StackAssumption ==
    /\ Mtu \in Nat /\ Mss \in Nat \ {0} /\ Second \in Nat \ {0}
    /\ CwndWord \in Nat /\ Clamp \in 1 .. CwndWord - 1 /\ Rtts \subseteq Nat /\ DefaultRtt \in Nat \ {0}
    /\ PacketsOut \subseteq Nat /\ TimeoutWindows \subseteq 1 .. Clamp
    /\ ParamVectors \subseteq Seq(Nat)

VARIABLES
    rate,                 \* in force
    ready_rate,           \* for the next interval
    sk_pacing_rate, snd_cwnd,
    slow_start_passed, prior_cwnd,
    prev_loss,            \* prev_ca_state is TCP_CA_Loss; it is never set back
    ca_state              \* the stack's: "open", "cwr", "recovery", "loss"

rates == <<rate, ready_rate, sk_pacing_rate>>
vars  == <<rates, snd_cwnd, slow_start_passed, prior_cwnd, prev_loss, ca_state>>

Larger(a, b)  == IF a >= b THEN a ELSE b
Smaller(a, b) == IF a <= b THEN a ELSE b

\* neo_calculate_and_set_rate
InRange(r) == Smaller(Larger(r, RateMin), MaxPacing)

\* neo_set_cwnd: the window carries the rate with a margin; it is cut to 32 bits after
\* the lower bound was applied.
NeoRtt(srtt) == IF srtt = 0 THEN DefaultRtt ELSE srtt
CwndFor(pacing, srtt) ==
    LET segments == (((pacing * NeoRtt(srtt)) % Word) \div Mss) \div Second
        cwnd     == ((segments * CwndGain) % Word) \div Scale
    IN  Smaller(Larger(cwnd, 4) % CwndWord, Clamp)

\* neo_update_pacing_rate: half of what the window carries in an RTT
PacingFor(cwnd, out, srtt) ==
    LET half == ((Mtu * Second * Larger(cwnd, out)) % Word) \div 2
    IN  Smaller(IF srtt = 0 THEN half ELSE half \div srtt, MaxPacing)

\* neo_init, for a flow outside of loss recovery whose intervals could be allocated
Init ==
    /\ rate = InRange(InitRate) /\ ready_rate = rate /\ sk_pacing_rate = rate
    /\ \E srtt \in Rtts : snd_cwnd = CwndFor(rate, srtt)
    /\ slow_start_passed = FALSE /\ prior_cwnd = 0 /\ prev_loss = FALSE
    /\ ca_state = "open"

\* neo_set_params: each action counts from the rate in force, in 64 bits; the last
\* one before the next interval wins.
Raised(r)  == (((r * Increase) % Word) \div Scale + 1) % Word
Lowered(r) == (((r * Decrease) % Word) \div Scale - 1) % Word

AskedSlip(r, action) == CASE action = 1 -> Raised(ready_rate)
                          [] action = 2 -> Lowered(ready_rate)
                          [] OTHER -> r
Asked(r, action) == CASE action = 1 -> Raised(r)
                      [] action = 2 -> Lowered(r)
                      [] OTHER -> r
SetParams(r, ready, v) == IF Len(v) = 1 THEN Asked(r, v[1]) ELSE ready

\* Exiting loss recovery; CWR counts as having left it.
Restored == IF prev_loss /\ ca_state \in {"open", "cwr"}
              THEN Larger(snd_cwnd, prior_cwnd) ELSE snd_cwnd

\* neo_cong_control: the sending interval may end and the next one start with the rate
\* that is ready (neo_process); then spine_invoke brings an action, or nothing.
CongControl(starts, v, srtt) ==
    LET new == IF starts THEN InRange(ready_rate) ELSE rate
    IN  /\ rate' = new
        /\ sk_pacing_rate' = IF starts THEN new ELSE sk_pacing_rate
        /\ snd_cwnd' = IF starts THEN CwndFor(new, srtt) ELSE Restored
        /\ ready_rate' = SetParams(new, IF starts THEN new ELSE ready_rate, v)
        /\ UNCHANGED <<slow_start_passed, prior_cwnd, prev_loss, ca_state>>

\* An ACK without a valid rate sample restores the window at most.
NoSample ==
    /\ snd_cwnd' = Restored
    /\ UNCHANGED <<rates, slow_start_passed, prior_cwnd, prev_loss, ca_state>>

\* neo_ssthresh: the first loss cuts the window, and the rate with it; it saves the
\* window that is left.
Reduced == IF slow_start_passed THEN snd_cwnd ELSE ((snd_cwnd * LossKept) % CwndWord) \div LossScale

CutSlip(pacing) == rate
Cut(pacing) == pacing

Ssthresh(out, srtt) ==
    LET pacing == PacingFor(Reduced, out, srtt)
    IN  /\ slow_start_passed' = TRUE
        /\ prior_cwnd' = Reduced
        /\ IF slow_start_passed
             THEN UNCHANGED rates
             ELSE /\ sk_pacing_rate' = pacing
                  /\ rate' = Cut(pacing) /\ ready_rate' = Cut(pacing)

-----------------------------------------------------------------------------
(* The stack: it asks for a threshold when it leaves Open, and on some later  *)
(* timeouts; neo_undo_cwnd returns the window as it is.                       *)

EnterReduction(new, out, srtt) ==
    /\ ca_state = "open"
    /\ ca_state' = new
    /\ Ssthresh(out, srtt)
    /\ snd_cwnd' = Reduced
    /\ UNCHANGED prev_loss

Timeout(out, srtt, window) ==
    /\ \/ Ssthresh(out, srtt)
       \/ ca_state # "open" /\ UNCHANGED <<rates, slow_start_passed, prior_cwnd>>
    /\ snd_cwnd' = window
    /\ ca_state' = "loss" /\ prev_loss' = TRUE  \* neo_set_state

Repaired(new) ==
    /\ ca_state # "open" /\ ca_state # new
    /\ new = "recovery" => ca_state = "cwr"
    /\ ca_state' = new
    /\ UNCHANGED <<rates, snd_cwnd, slow_start_passed, prior_cwnd, prev_loss>>

Next ==
    \/ \E starts \in BOOLEAN, v \in ParamVectors, srtt \in Rtts : CongControl(starts, v, srtt)
    \/ NoSample
    \/ \E new \in {"cwr", "recovery"}, out \in PacketsOut, srtt \in Rtts :
          EnterReduction(new, out, srtt)
    \/ \E out \in PacketsOut, srtt \in Rtts, window \in TimeoutWindows :
          Timeout(out, srtt, window)
    \/ \E new \in {"open", "recovery"} : Repaired(new)

Spec == Init /\ [][Next]_vars

-----------------------------------------------------------------------------
\* The stack always paces at the rate neo counts from, although losses, interval
\* starts and actions change one or both of them (tcp_neo.c:149-151, 505-510).  It is
\* never above the socket's limit, and before a loss never below NEO_RATE_MIN, whatever
\* a product that wrapped has made ready.
RateInForce ==
    /\ sk_pacing_rate = rate
    /\ rate \in 0 .. MaxPacing
    /\ ~slow_start_passed => rate >= RateMin

\* One interval moves the rate by one action at most, however many actions reach the
\* flow meanwhile (tcp_neo.c:399-409 counts from rate, not from ready_rate); only the
\* first loss moves it further.  The step is that of exact arithmetic, so this is said of
\* the rates from which a raise does not wrap at the upper end of 64 bits and a decrease
\* not at 0.
StepUp(r)   == (r * Increase) \div Scale + 1
StepDown(r) == (r * Decrease) \div Scale - 1
StepsFit(r) == StepUp(r) < Word /\ r * Increase < Word /\ StepDown(r) >= 0

OneStepPerInterval ==
    [][rate' # rate /\ slow_start_passed' = slow_start_passed /\ StepsFit(rate)
         => rate' \in InRange(StepDown(rate)) .. InRange(StepUp(rate))]_vars

=============================================================================
