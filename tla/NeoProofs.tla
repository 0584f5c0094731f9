------------------------------ MODULE NeoProofs ------------------------------
(***************************************************************************)
(* The ring of monitor intervals of tcp_neo.c: for any number of slots     *)
(* from 3, any number of segments and either value of NEO_IGNORE_PACKETS.  *)
(*                                                                         *)
(* The properties speak of the slots that wait for ACKs and of the two     *)
(* that were closed last.  They are not inductive: what is closed now was  *)
(* waiting before, and what is opened now takes the slot of an old use.    *)
(* GoodRing therefore follows every use of a slot, open, waiting or        *)
(* closed, until the slot is taken again NumIntervals openings later: the  *)
(* slot has the number of the use, it ends where the next use begins, and  *)
(* nothing is credited to it before the receiving side comes to it.        *)
(***************************************************************************)
EXTENDS Neo, TLAPS

-----------------------------------------------------------------------------
(* Remainders *)

\* Quotient and remainder.
LEMMA DivMod ==
  ASSUME NEW a \in Nat, NEW b \in Nat \ {0}
  PROVE  /\ a \div b \in Nat /\ a % b \in 0 .. b - 1
         /\ a = b * (a \div b) + (a % b)
  OBVIOUS

\* Two multiples of b that are less than b apart are the same.
LEMMA CloseMultiples ==
  ASSUME NEW b \in Nat \ {0}, NEW p \in Int, NEW q \in Int,
         b * p - b * q < b, b * q - b * p < b
  PROVE  p = q
<1>1. ASSUME p >= q + 1  PROVE  FALSE
  <2>1. b * (p - (q + 1)) \in Nat
    BY <1>1
  <2>2. b * (p - (q + 1)) = b * p - b * q - b
    OBVIOUS
  <2>3. b * p \in Int /\ b * q \in Int
    OBVIOUS
  <2> QED
    BY <2>1, <2>2, <2>3
<1>2. ASSUME q >= p + 1  PROVE  FALSE
  <2>1. b * (q - (p + 1)) \in Nat
    BY <1>2
  <2>2. b * (q - (p + 1)) = b * q - b * p - b
    OBVIOUS
  <2>3. b * p \in Int /\ b * q \in Int
    OBVIOUS
  <2> QED
    BY <2>1, <2>2, <2>3
<1> QED
  BY <1>1, <1>2

\* Quotient and remainder are unique.
LEMMA ModUnique ==
  ASSUME NEW b \in Nat \ {0}, NEW q \in Nat, NEW r \in 0 .. b - 1
  PROVE  (b * q + r) % b = r
<1> DEFINE a == b * q + r
           p == a \div b
           s == a % b
<1>1. b * q \in Nat /\ a \in Nat
  OBVIOUS
<1>2. p \in Nat /\ s \in 0 .. b - 1 /\ a = b * p + s
  BY <1>1, DivMod, Zenon
<1> HIDE DEF p, s
<1>3. b * p \in Nat /\ b * p - b * q = r - s /\ b * q - b * p = s - r
  BY <1>1, <1>2
<1>4. r - s < b /\ s - r < b
  BY <1>2
<1>5. p = q
  BY <1>2, <1>3, <1>4, CloseMultiples
<1>6. s = r
  BY <1>1, <1>2, <1>5
<1> QED
  BY <1>6 DEF s

-----------------------------------------------------------------------------
(* The slots of the ring *)

\* A slot of the ring and the next one.
LEMMA SlotNext ==
  ASSUME NEW n \in Nat \ {0}
  PROVE  /\ Slot(n) \in Ring /\ Slot(n + 1) \in Ring
         /\ Slot(n + 1) = NextIndex(Slot(n)) /\ Slot(n) = PrevIndex(Slot(n + 1))
<1> DEFINE N == NumIntervals
           q == (n - 1) \div N
           s == (n - 1) % N
<1>0. N \in Nat \ {0} /\ N >= 3 /\ n - 1 \in Nat
  BY RingAssumption
<1>1. q \in Nat /\ s \in 0 .. N - 1 /\ n - 1 = N * q + s
  BY <1>0, DivMod, Zenon
<1>2. Slot(n) = s /\ Slot(n + 1) = n % N
  <2>1. (n + 1) - 1 = n
    OBVIOUS
  <2> QED BY <2>1 DEF Slot
<1> HIDE DEF N, q, s
<1>3. N * q \in Nat /\ N * (q + 1) = N * q + N
  BY <1>0, <1>1
<1>4. n % N = IF s < N - 1 THEN s + 1 ELSE 0
  <2>1. CASE s < N - 1
    <3>1. n = N * q + (s + 1) /\ s + 1 \in 0 .. N - 1
      BY <1>0, <1>1, <1>3, <2>1
    <3>2. n % N = s + 1
      BY <1>0, <1>1, <3>1, ModUnique
    <3> QED
      BY <2>1, <3>2
  <2>2. CASE ~(s < N - 1)
    <3>1. n = N * (q + 1) + 0 /\ 0 \in 0 .. N - 1 /\ q + 1 \in Nat
      BY <1>0, <1>1, <1>3, <2>2
    <3>2. n % N = 0
      BY <1>0, <3>1, ModUnique
    <3> QED
      BY <2>2, <3>2
  <2> QED
    BY <2>1, <2>2
<1> QED
  BY <1>0, <1>1, <1>2, <1>4 DEF Ring, NextIndex, PrevIndex, N

\* Uses less than a ring apart have different slots, uses a ring apart the same one.
LEMMA SlotsDiffer ==
  ASSUME NEW m \in Nat \ {0}, NEW n \in Nat \ {0}, m < n, n - m <= NumIntervals
  PROVE  Slot(m) = Slot(n) <=> n - m = NumIntervals
<1> DEFINE N == NumIntervals
           p == (m - 1) \div N
           r == (m - 1) % N
           q == (n - 1) \div N
           s == (n - 1) % N
<1>0. N \in Nat \ {0} /\ m - 1 \in Nat /\ n - 1 \in Nat
  BY RingAssumption
<1>1. p \in Nat /\ r \in 0 .. N - 1 /\ m - 1 = N * p + r
  BY <1>0, DivMod, Zenon
<1>2. q \in Nat /\ s \in 0 .. N - 1 /\ n - 1 = N * q + s
  BY <1>0, DivMod, Zenon
<1>3. Slot(m) = r /\ Slot(n) = s
  BY DEF Slot
<1>4. m < n /\ n - m <= N
  OBVIOUS
<1> HIDE DEF N, p, q, r, s
<1>5. N * p \in Nat /\ N * q \in Nat /\ N * (p + 1) = N * p + N
  BY <1>0, <1>1, <1>2
<1>6. CASE n - m = N
  <2>1. n - 1 = N * (p + 1) + r /\ p + 1 \in Nat
    BY <1>0, <1>1, <1>4, <1>5, <1>6
  <2>2. (n - 1) % N = r
    BY <1>0, <1>1, <2>1, ModUnique
  <2> QED
    BY <1>3, <1>6, <2>2 DEF s, N
<1>7. CASE n - m < N
  <2>1. ASSUME r = s  PROVE  FALSE
    <3>1. N * q - N * p < N /\ N * p - N * q < N
      BY <1>0, <1>1, <1>2, <1>4, <1>5, <1>7, <2>1
    <3>2. p = q
      BY <1>0, <1>1, <1>2, <3>1, CloseMultiples
    <3> QED
      BY <1>0, <1>1, <1>2, <1>4, <1>5, <2>1, <3>2
  <2> QED
    BY <1>3, <1>7, <2>1 DEF N
<1> QED
  BY <1>0, <1>4, <1>6, <1>7

\* The first uses of the slots are in the order of the ring.
LEMMA FirstSlots ==
  ASSUME NEW n \in 1 .. NumIntervals
  PROVE  Slot(n) = n - 1
<1>1. NumIntervals \in Nat \ {0} /\ n - 1 \in 0 .. NumIntervals - 1 /\ 0 \in Nat
  BY RingAssumption
<1>2. n - 1 = NumIntervals * 0 + (n - 1)
  BY <1>1
<1>3. (n - 1) % NumIntervals = n - 1
  BY <1>1, <1>2, ModUnique
<1> QED
  BY <1>3 DEF Slot

-----------------------------------------------------------------------------
(* The invariant of the ring *)

Interval == [packets_sent_base : Nat, packets_ended : Nat, accounted : Nat,
             fresh : BOOLEAN, no : Nat]

\* The uses of slots that are not yet overwritten when the o-th interval is open.
Uses(o) == {n \in 1 .. o : n > o - NumIntervals}

\* A slot says which use it is of.
Named(ring, o) == \A n \in Uses(o) : ring[Slot(n)].no = n

\* Only the open interval has no end; any other ends where the next one begins.
Ended(ring, o, segs) ==
    /\ ring[Slot(o)].packets_ended = 0
    /\ ring[Slot(o)].packets_sent_base <= Base(segs)
    /\ \A n \in Uses(o) \ {o} :
         /\ ring[Slot(n)].packets_ended \in 1 .. segs
         /\ ring[Slot(n)].packets_sent_base <= ring[Slot(n)].packets_ended
         /\ ring[Slot(n + 1)].packets_sent_base = Larger(ring[Slot(n)].packets_ended, 1)

\* Nothing is credited to an interval before the receiving side is at it, and then with
\* the times of this use.
Credited(ring, o, c) ==
    \A n \in Uses(o) :
        /\ n > c + 1 => ring[Slot(n)].accounted = 0
        /\ ring[Slot(n)].accounted > 0 => ring[Slot(n)].fresh

GoodRing(ring, o, c, segs) ==
    /\ ring \in [Ring -> Interval] /\ o \in Nat /\ c \in Nat /\ segs \in Nat
    /\ c < o /\ o - c <= NumIntervals
    /\ Named(ring, o) /\ Ended(ring, o, segs) /\ Credited(ring, o, c)

\* The sending side takes the slot of a use that is not waiting any more.
LEMMA SendKeeps ==
  ASSUME NEW ring, NEW c, NEW segs \in Nat \ {0}, GoodRing(ring, opened, c, segs),
         opened - c < NumIntervals
  PROVE  GoodRing(Start([ring EXCEPT ![Slot(opened)].packets_ended = segs],
                        Slot(opened + 1), segs), opened + 1, c, segs)
<1> DEFINE last == Slot(opened)
           next == Slot(opened + 1)
           new == Start([ring EXCEPT ![last].packets_ended = segs], next, segs)
<1>1. /\ ring \in [Ring -> Interval] /\ opened \in Nat \ {0} /\ c \in Nat /\ c < opened
      /\ NumIntervals \in Nat /\ NumIntervals >= 3
      /\ Named(ring, opened) /\ Ended(ring, opened, segs) /\ Credited(ring, opened, c)
  BY RingAssumption DEF GoodRing
<1>2. last \in Ring /\ next \in Ring /\ last # next
  BY <1>1, SlotNext, SlotsDiffer
<1>3. \A n \in Uses(opened + 1) : n \in Nat \ {0} /\ Slot(n) \in Ring /\ Slot(n + 1) \in Ring
  BY <1>1, SlotNext DEF Uses
<1>4. \A n \in Uses(opened + 1) : n # opened + 1 => n \in Uses(opened) /\ Slot(n) # next
  <2> SUFFICES ASSUME NEW n \in Uses(opened + 1), n # opened + 1
               PROVE  n \in Uses(opened) /\ Slot(n) # next
    OBVIOUS
  <2>1. n \in Nat \ {0} /\ n < opened + 1 /\ (opened + 1) - n < NumIntervals
    BY <1>1 DEF Uses
  <2>2. n \in Uses(opened)
    BY <1>1, <2>1 DEF Uses
  <2> QED
    BY <1>1, <2>1, <2>2, SlotsDiffer
<1>5. \A n \in Uses(opened + 1) : n # opened + 1 /\ n # opened => Slot(n) # last
  <2> SUFFICES ASSUME NEW n \in Uses(opened + 1), n # opened + 1, n # opened
               PROVE  Slot(n) # last
    OBVIOUS
  <2>1. n \in Nat \ {0} /\ n < opened /\ opened - n < NumIntervals
    BY <1>1 DEF Uses
  <2> QED
    BY <1>1, <2>1, SlotsDiffer
<1> HIDE DEF last, next
<1>6. Base(segs) = segs /\ Larger(segs, 1) = segs
  BY DEF Base, Larger
<1>7. /\ \A i \in Ring \ {last, next} : new[i] = ring[i]
      /\ new[last] = [ring[last] EXCEPT !.packets_ended = segs]
      /\ new[next] = [ring[next] EXCEPT !.packets_ended = 0, !.accounted = 0,
                        !.packets_sent_base = Base(segs), !.no = opened + 1]
      /\ DOMAIN new = Ring
      /\ new = [i \in Ring |-> new[i]]
  BY <1>1, <1>2 DEF Start
<1> HIDE DEF new
<1>8. /\ new[last] \in Interval /\ new[next] \in Interval
      /\ new[last].packets_ended = segs /\ new[last].accounted = ring[last].accounted
      /\ new[last].packets_sent_base = ring[last].packets_sent_base
      /\ new[last].fresh = ring[last].fresh /\ new[last].no = ring[last].no
      /\ new[next].packets_ended = 0 /\ new[next].accounted = 0
      /\ new[next].packets_sent_base = segs /\ new[next].no = opened + 1
  <2>1. ring[last] \in Interval /\ ring[next] \in Interval /\ opened + 1 \in Nat
    BY <1>1, <1>2
  <2>2. new[last] = [ring[last] EXCEPT !.packets_ended = segs]
    BY <1>7
  <2>3. /\ new[last] \in Interval
        /\ new[last].packets_ended = segs /\ new[last].accounted = ring[last].accounted
        /\ new[last].packets_sent_base = ring[last].packets_sent_base
        /\ new[last].fresh = ring[last].fresh /\ new[last].no = ring[last].no
    BY <2>1, <2>2 DEF Interval
  <2>4. new[next] = [ring[next] EXCEPT !.packets_ended = 0, !.accounted = 0,
                       !.packets_sent_base = segs, !.no = opened + 1]
    BY <1>6, <1>7
  <2>5. PICK d : d = new[next]
    OBVIOUS
  <2>6. PICK b \in Interval, k \in Nat : b = ring[next] /\ k = opened + 1
    BY <2>1
  <2>7. d = [b EXCEPT !.packets_ended = 0, !.accounted = 0,
                      !.packets_sent_base = segs, !.no = k]
    BY <2>4, <2>5, <2>6
  <2>8. /\ d \in Interval /\ d.packets_ended = 0 /\ d.accounted = 0
        /\ d.packets_sent_base = segs /\ d.no = k
    BY <2>7 DEF Interval
  <2> QED
    BY <2>3, <2>5, <2>6, <2>8
<1>9. new \in [Ring -> Interval]
  BY <1>1, <1>7, <1>8
<1>10. \A n \in Uses(opened + 1) : n = opened + 1 \/ n = opened \/ new[Slot(n)] = ring[Slot(n)]
  BY <1>3, <1>4, <1>5, <1>7
<1>11. opened \in Uses(opened) /\ opened + 1 \in Uses(opened + 1) /\ opened \in Uses(opened + 1)
  BY <1>1 DEF Uses
<1>12. Named(new, opened + 1)
  BY <1>1, <1>4, <1>8, <1>10, <1>11 DEF Named, last, next
<1>13. Credited(new, opened + 1, c)
  BY <1>1, <1>4, <1>8, <1>10, <1>11 DEF Credited, last, next
<1>14. Ended(new, opened + 1, segs)
  <2>1. ring[last].packets_sent_base <= segs
    BY <1>1, <1>6 DEF Ended, last
  <2>2. ASSUME NEW n \in Uses(opened + 1) \ {opened + 1}
        PROVE  /\ new[Slot(n)].packets_ended \in 1 .. segs
               /\ new[Slot(n)].packets_sent_base <= new[Slot(n)].packets_ended
               /\ new[Slot(n + 1)].packets_sent_base = Larger(new[Slot(n)].packets_ended, 1)
    <3>1. CASE n = opened
      BY <1>6, <1>8, <2>1, <3>1 DEF last, next
    <3>2. CASE n # opened
      <4>1. n \in Uses(opened) \ {opened} /\ n + 1 \in Uses(opened + 1) /\ n + 1 # opened + 1
        BY <1>1, <1>4, <3>2 DEF Uses
      <4>2. new[Slot(n)] = ring[Slot(n)]
        BY <1>10, <3>2
      <4>3. new[Slot(n + 1)].packets_sent_base = ring[Slot(n + 1)].packets_sent_base
        BY <1>8, <1>10, <4>1 DEF last
      <4> QED
        BY <1>1, <4>1, <4>2, <4>3 DEF Ended
    <3> QED
      BY <3>1, <3>2
  <2> QED
    BY <1>6, <1>8, <2>2 DEF Ended, next
<1>15. GoodRing(new, opened + 1, c, segs)
  BY <1>1, <1>9, <1>12, <1>13, <1>14 DEF GoodRing
<1> QED
  BY <1>15 DEF new, last, next

\* What is credited to the interval the receiving side is at comes with its times.
LEMMA CreditKeeps ==
  ASSUME NEW ring, NEW o, NEW c, NEW segs, GoodRing(ring, o, c, segs), NEW credit \in Nat
  PROVE  GoodRing([ring EXCEPT ![Slot(c + 1)].fresh = TRUE, ![Slot(c + 1)].accounted = credit],
                  o, c, segs)
<1> DEFINE at == Slot(c + 1)
           new == [ring EXCEPT ![at].fresh = TRUE, ![at].accounted = credit]
<1>1. /\ ring \in [Ring -> Interval] /\ o \in Nat \ {0} /\ c \in Nat /\ c < o
      /\ o - c <= NumIntervals /\ NumIntervals \in Nat /\ segs \in Nat
      /\ Named(ring, o) /\ Ended(ring, o, segs) /\ Credited(ring, o, c)
  BY RingAssumption DEF GoodRing
<1>2. \A n \in Uses(o) : Slot(n) \in Ring /\ Slot(n + 1) \in Ring
  BY <1>1, SlotNext DEF Uses
<1>3. at \in Ring /\ Slot(o) \in Ring
  BY <1>1, SlotNext
<1>4. \A n \in Uses(o) : n > c + 1 => Slot(n) # at
  <2> SUFFICES ASSUME NEW n \in Uses(o), n > c + 1
               PROVE  Slot(n) # at
    OBVIOUS
  <2>1. n \in Nat \ {0} /\ c + 1 \in Nat \ {0} /\ c + 1 < n /\ n - (c + 1) < NumIntervals
    BY <1>1 DEF Uses
  <2> QED
    BY <2>1, SlotsDiffer, RingAssumption
<1> HIDE DEF at
<1>5. /\ \A i \in Ring \ {at} : new[i] = ring[i]
      /\ new[at] = [ring[at] EXCEPT !.fresh = TRUE, !.accounted = credit]
      /\ new = [i \in Ring |-> new[i]]
  BY <1>1, <1>3
<1> HIDE DEF new
<1>6. /\ new[at] \in Interval /\ new[at].fresh = TRUE
      /\ new[at].packets_ended = ring[at].packets_ended /\ new[at].no = ring[at].no
      /\ new[at].packets_sent_base = ring[at].packets_sent_base
  <2>1. ring[at] \in Interval
    BY <1>1, <1>3
  <2> QED
    BY <1>5, <2>1 DEF Interval
<1>7. new \in [Ring -> Interval]
  BY <1>1, <1>5, <1>6
<1>8. \A i \in Ring : /\ new[i].packets_ended = ring[i].packets_ended /\ new[i].no = ring[i].no
                      /\ new[i].packets_sent_base = ring[i].packets_sent_base
  BY <1>5, <1>6
<1>9. Named(new, o)
  BY <1>1, <1>2, <1>8 DEF Named
<1>10. Ended(new, o, segs)
  BY <1>1, <1>2, <1>3, <1>8 DEF Ended
<1>11. Credited(new, o, c)
  BY <1>1, <1>2, <1>4, <1>5, <1>6 DEF Credited
<1> QED
  BY <1>1, <1>7, <1>9, <1>10, <1>11 DEF GoodRing, new, at

\* An interval that is closed has ended, so there is a next one, to which nothing is
\* credited yet.
LEMMA CloseKeeps ==
  ASSUME NEW ring, NEW o, NEW c, NEW segs, GoodRing(ring, o, c, segs),
         ring[Slot(c + 1)].packets_ended # 0
  PROVE  GoodRing([ring EXCEPT ![Slot(c + 2)].fresh = FALSE], o, c + 1, segs)
<1> DEFINE at == Slot(c + 2)
           new == [ring EXCEPT ![at].fresh = FALSE]
<1>1. /\ ring \in [Ring -> Interval] /\ o \in Nat \ {0} /\ c \in Nat /\ c < o
      /\ o - c <= NumIntervals /\ NumIntervals \in Nat /\ segs \in Nat
      /\ Named(ring, o) /\ Ended(ring, o, segs) /\ Credited(ring, o, c)
  BY RingAssumption DEF GoodRing
<1>2. c + 1 < o
  <2>1. c + 1 # o
    BY <1>1 DEF Ended
  <2> QED
    BY <1>1, <2>1
<1>3. \A n \in Uses(o) : Slot(n) \in Ring /\ Slot(n + 1) \in Ring
  BY <1>1, SlotNext DEF Uses
<1>4. at \in Ring /\ Slot(o) \in Ring
  BY <1>1, SlotNext
<1>5. \A n \in Uses(o) : Slot(n) = at => n = c + 2
  <2> SUFFICES ASSUME NEW n \in Uses(o), n # c + 2
               PROVE  Slot(n) # at
    OBVIOUS
  <2>1. n \in Nat \ {0} /\ c + 2 \in Nat \ {0} /\ n <= o /\ n > o - NumIntervals
    BY <1>1 DEF Uses
  <2>2. CASE n < c + 2
    <3>1. (c + 2) - n < NumIntervals
      BY <1>1, <1>2, <2>1
    <3> QED
      BY <2>1, <2>2, <3>1, SlotsDiffer, RingAssumption
  <2>3. CASE n > c + 2
    <3>1. n - (c + 2) < NumIntervals
      BY <1>1, <2>1
    <3> QED
      BY <2>1, <2>3, <3>1, SlotsDiffer, RingAssumption
  <2> QED
    BY <2>1, <2>2, <2>3
<1> HIDE DEF at
<1>6. /\ \A i \in Ring \ {at} : new[i] = ring[i]
      /\ new[at] = [ring[at] EXCEPT !.fresh = FALSE]
      /\ new = [i \in Ring |-> new[i]]
  BY <1>1, <1>4
<1> HIDE DEF new
<1>7. /\ new[at] \in Interval /\ new[at].accounted = ring[at].accounted
      /\ new[at].packets_ended = ring[at].packets_ended /\ new[at].no = ring[at].no
      /\ new[at].packets_sent_base = ring[at].packets_sent_base
  <2>1. ring[at] \in Interval
    BY <1>1, <1>4
  <2> QED
    BY <1>6, <2>1 DEF Interval
<1>8. new \in [Ring -> Interval]
  BY <1>1, <1>6, <1>7
<1>9. \A i \in Ring : /\ new[i].packets_ended = ring[i].packets_ended /\ new[i].no = ring[i].no
                      /\ new[i].packets_sent_base = ring[i].packets_sent_base
                      /\ new[i].accounted = ring[i].accounted
  BY <1>6, <1>7
<1>10. Named(new, o)
  BY <1>1, <1>3, <1>9 DEF Named
<1>11. Ended(new, o, segs)
  BY <1>1, <1>3, <1>4, <1>9 DEF Ended
<1>12. Credited(new, o, c + 1)
  <2> SUFFICES ASSUME NEW n \in Uses(o)
               PROVE  /\ n > (c + 1) + 1 => new[Slot(n)].accounted = 0
                      /\ new[Slot(n)].accounted > 0 => new[Slot(n)].fresh
    BY DEF Credited
  <2>1. n \in Nat /\ (n > (c + 1) + 1 => n > c + 1)
    BY <1>1 DEF Uses
  <2>2. CASE n = c + 2
    <3>1. ring[Slot(n)].accounted = 0
      BY <1>1, <2>2 DEF Credited
    <3> QED
      BY <1>3, <1>9, <3>1
  <2>3. CASE n # c + 2
    <3>1. new[Slot(n)] = ring[Slot(n)]
      BY <1>3, <1>5, <1>6, <2>3
    <3> QED
      BY <1>1, <2>1, <3>1 DEF Credited
  <2> QED
    BY <2>2, <2>3
<1> QED
  BY <1>1, <1>2, <1>8, <1>10, <1>11, <1>12 DEF GoodRing, new, at

-----------------------------------------------------------------------------
(* What neo_process leaves *)

\* The indices stay in the ring.
LEMMA IndexType ==
  ASSUME NEW i \in Ring
  PROVE  NextIndex(i) \in Ring /\ PrevIndex(i) \in Ring
  BY RingAssumption DEF Ring, NextIndex, PrevIndex

\* The ring after the receiving side has credited its interval, and whether it closes.
Credit(ring, r, acc) ==
    IF Inside(ring[r])
      THEN [ring EXCEPT ![r].fresh = TRUE, ![r].accounted = @ + acc - accounted_base]
      ELSE ring
NowCloses(ring, r, acc) == Closes(Credit(ring, r, acc)[r], Counted(acc))
Received(ring, r, acc) ==
    IF NowCloses(ring, r, acc)
      THEN [Credit(ring, r, acc) EXCEPT ![NextIndex(r)].fresh = FALSE]
      ELSE Credit(ring, r, acc)

\* neo_process is the sending side followed by the receiving side.
LEMMA ProcessParts ==
  ASSUME NEW over, NEW acc, Process(over, acc)
  PROVE  LET send == SendSide(over)
             r == receive_index
             closes == NowCloses(send.ring, r, acc)
         IN  /\ send_index' = send.index
             /\ packets_counted' = Counted(acc)
             /\ receive_index' = IF closes THEN NextIndex(r) ELSE r
             /\ intervals' = Received(send.ring, r, acc)
             /\ first_circle' = IF closes /\ NextIndex(r) = 0 THEN FALSE ELSE first_circle
             /\ opened' = opened + send.started
             /\ closed' = IF closes THEN closed + 1 ELSE closed
             /\ overrun' = (overrun \/ send.full)
  BY Zenon DEF Process, Received, NowCloses, Credit

\* One field of an interval may be set.
LEMMA SetFields ==
  ASSUME NEW b \in Interval, NEW n \in Nat, NEW k \in Nat, NEW f \in BOOLEAN
  PROVE  /\ [b EXCEPT !.packets_ended = n] \in Interval
         /\ [b EXCEPT !.fresh = f] \in Interval
         /\ [b EXCEPT !.fresh = f, !.accounted = n] \in Interval
         /\ [b EXCEPT !.packets_ended = 0, !.accounted = 0,
                      !.packets_sent_base = n, !.no = k] \in Interval
<1> USE DEF Interval
<1>1. [b EXCEPT !.packets_ended = n] \in Interval
  OBVIOUS
<1>2. [b EXCEPT !.fresh = f] \in Interval
  OBVIOUS
<1>3. [b EXCEPT !.fresh = f, !.accounted = n] \in Interval
  OBVIOUS
<1>4. [b EXCEPT !.packets_ended = 0, !.accounted = 0, !.packets_sent_base = n, !.no = k] \in Interval
  OBVIOUS
<1> QED
  BY <1>1, <1>2, <1>3, <1>4

\* The sending side leaves a ring of intervals.
LEMMA SendType ==
  ASSUME intervals \in [Ring -> Interval], send_index \in Ring, data_segs_out \in Nat,
         opened \in Nat, NEW over \in BOOLEAN
  PROVE  /\ SendSide(over).ring \in [Ring -> Interval] /\ SendSide(over).index \in Ring
         /\ SendSide(over).started \in {0, 1} /\ SendSide(over).full \in BOOLEAN
<1> DEFINE ended == [intervals EXCEPT ![send_index].packets_ended = data_segs_out]
           next == NextIndex(send_index)
           started == Start(ended, next, data_segs_out)
<1>1. next \in Ring
  BY IndexType
<1>2. ended \in [Ring -> Interval]
  BY SetFields
<1>3. started \in [Ring -> Interval]
  <2> HIDE DEF next, ended
  <2>1. Base(data_segs_out) \in Nat /\ opened + 1 \in Nat
    BY DEF Base, Larger
  <2>2. PICK b \in Interval, n \in Nat, k \in Nat :
            b = ended[next] /\ n = Base(data_segs_out) /\ k = opened + 1
    BY <1>1, <1>2, <2>1
  <2>3. [b EXCEPT !.packets_ended = 0, !.accounted = 0, !.packets_sent_base = n, !.no = k] \in Interval
    BY SetFields
  <2>4. started = [ended EXCEPT ![next] = [b EXCEPT !.packets_ended = 0, !.accounted = 0,
                                                    !.packets_sent_base = n, !.no = k]]
    BY <1>1, <1>2, <2>2 DEF Start
  <2> QED
    BY <1>1, <1>2, <2>3, <2>4
<1> HIDE DEF ended, started, next
<1> QED
  BY <1>1, <1>2, <1>3 DEF SendSide, ended, started, next

\* So does the receiving side.
LEMMA ReceiveType ==
  ASSUME NEW ring \in [Ring -> Interval], NEW r \in Ring, NEW acc \in Nat,
         accounted_base \in Nat, accounted_base <= acc
  PROVE  Received(ring, r, acc) \in [Ring -> Interval]
<1>1. Credit(ring, r, acc) \in [Ring -> Interval]
  <2>1. ring[r].accounted + acc - accounted_base \in Nat
    BY DEF Interval
  <2>2. PICK n \in Nat : n = ring[r].accounted + acc - accounted_base
    BY <2>1
  <2>3. [ring EXCEPT ![r].fresh = TRUE, ![r].accounted = n] \in [Ring -> Interval]
    BY SetFields
  <2> QED
    BY <2>2, <2>3 DEF Credit
<1>2. NextIndex(r) \in Ring
  BY IndexType
<1> QED
  BY <1>1, <1>2, SetFields DEF Received

-----------------------------------------------------------------------------
(* The invariant *)

\* What counts twice is at most half of what is accounted for.
CountInv == 2 * doubles <= accounted + 1

\* Where the two sides are, until the ring is full for the first time.
RingInv ==
    /\ GoodRing(intervals, opened, closed, data_segs_out)
    /\ send_index = Slot(opened) /\ receive_index = Slot(closed + 1)
    /\ first_circle <=> closed < NumIntervals

IInv == TypeOK /\ CountInv /\ (~overrun => RingInv)

\* An ACK moves both sides.
LEMMA AckStep ==
  ASSUME IInv, NEW n \in Segs, NEW late \in 0 .. MaxDoubles, NEW over \in BOOLEAN,
         Ack(n, late, over)
  PROVE  IInv'
<1> DEFINE acc == accounted + n
           send == SendSide(over)
           r == receive_index
           closes == NowCloses(send.ring, r, acc)
<1>1. /\ intervals \in [Ring -> Interval] /\ send_index \in Ring /\ r \in Ring
      /\ double_counted \in 0 .. doubles /\ accounted_base \in 0 .. accounted
      /\ data_segs_out \in Segs /\ doubles \in 0 .. MaxDoubles
      /\ accounted \in 0 .. data_segs_out + doubles
      /\ opened \in Nat /\ closed \in Nat /\ 2 * doubles <= accounted + 1
      /\ MaxSegs \in Nat /\ MaxDoubles \in Nat /\ n \in Nat /\ late \in Nat
      /\ first_circle \in BOOLEAN /\ overrun \in BOOLEAN /\ data_segs_out \in Nat
  BY BoundsAssumption DEF IInv, TypeOK, CountInv, Segs, Interval
<1>2. /\ data_segs_out > 0 /\ late <= n /\ n - late <= InFlight
      /\ late <= MaybeLost /\ doubles + late <= MaxDoubles
      /\ accounted' = acc /\ doubles' = doubles + late /\ accounted_base' = acc
      /\ data_segs_out' = data_segs_out /\ double_counted' = double_counted
      /\ Process(over, acc)
  BY DEF Ack
<1>3. /\ send_index' = send.index /\ packets_counted' = Counted(acc)
      /\ receive_index' = IF closes THEN NextIndex(r) ELSE r
      /\ intervals' = Received(send.ring, r, acc)
      /\ first_circle' = IF closes /\ NextIndex(r) = 0 THEN FALSE ELSE first_circle
      /\ opened' = opened + send.started
      /\ closed' = IF closes THEN closed + 1 ELSE closed
      /\ overrun' = (overrun \/ send.full)
  BY <1>2, ProcessParts
<1>4. /\ send.ring \in [Ring -> Interval] /\ send.index \in Ring
      /\ send.started \in {0, 1} /\ send.full \in BOOLEAN
  BY <1>1, SendType
<1>5. acc \in Nat /\ accounted_base \in Nat /\ accounted_base <= acc
  BY <1>1
<1>6. TypeOK' /\ CountInv'
  <2>1. intervals' \in [Ring -> Interval]
    BY <1>1, <1>3, <1>4, <1>5, ReceiveType
  <2>2. /\ acc \in 0 .. data_segs_out + (doubles + late)
        /\ doubles + late \in 0 .. MaxDoubles /\ double_counted \in 0 .. doubles + late
        /\ acc - double_counted \in Nat /\ 2 * (doubles + late) <= acc + 1
        /\ acc \in 0 .. acc
    BY <1>1, <1>2 DEF InFlight, MaybeLost
  <2>3. receive_index' \in Ring /\ send_index' \in Ring
    BY <1>1, <1>3, <1>4, IndexType
  <2>4. opened' \in Nat /\ closed' \in Nat /\ first_circle' \in BOOLEAN /\ overrun' \in BOOLEAN
    <3>1. PICK sent : sent = send
      OBVIOUS
    <3>2. PICK full \in BOOLEAN, started \in {0, 1} : full = sent.full /\ started = sent.started
      BY <1>4, <3>1
    <3>3. opened' = opened + started /\ overrun' = (overrun \/ full)
      BY <1>3, <3>1, <3>2
    <3> HIDE DEF closes, send
    <3>4. opened' \in Nat
      BY <1>1, <3>3
    <3>5. closed' \in Nat
      BY <1>1, <1>3
    <3>6. first_circle' \in BOOLEAN
      BY <1>1, <1>3, Zenon
    <3>7. overrun' \in BOOLEAN
      BY <1>1, <3>3, Zenon
    <3> QED
      BY <3>4, <3>5, <3>6, <3>7
  <2>5. packets_counted' \in Nat
    BY <1>3, <2>2 DEF Counted
  <2> HIDE DEF acc
  <2>6. /\ double_counted' \in 0 .. doubles' /\ accounted_base' \in 0 .. accounted'
        /\ data_segs_out' \in Segs /\ doubles' \in 0 .. MaxDoubles
        /\ accounted' \in 0 .. data_segs_out' + doubles'
    BY <1>1, <1>2, <2>2
  <2>7. CountInv'
    BY <1>2, <2>2 DEF CountInv
  <2> QED
    BY <2>1, <2>3, <2>4, <2>5, <2>6, <2>7 DEF TypeOK, Interval
<1>7. ASSUME ~overrun'  PROVE  RingInv'
  <2>1. /\ ~overrun /\ ~send.full
        /\ GoodRing(intervals, opened, closed, data_segs_out)
        /\ send_index = Slot(opened) /\ r = Slot(closed + 1)
        /\ first_circle <=> closed < NumIntervals
    BY <1>3, <1>7 DEF IInv, RingInv
  <2>2. /\ closed < opened /\ opened - closed <= NumIntervals /\ NumIntervals \in Nat
        /\ opened \in Nat \ {0} /\ closed + 1 \in Nat \ {0} /\ NumIntervals >= 3
    BY <1>1, <2>1, RingAssumption DEF GoodRing
  <2>3. /\ GoodRing(send.ring, opened', closed, data_segs_out)
        /\ send.index = Slot(opened')
    <3>1. CASE ~over
      <4>1. send.ring = intervals /\ send.index = send_index /\ send.started = 0
        BY <3>1 DEF SendSide
      <4>2. opened' = opened
        BY <1>3, <2>2, <4>1
      <4> QED
        BY <2>1, <4>1, <4>2
    <3>2. CASE over
      <4> DEFINE next == NextIndex(send_index)
                 ended == [intervals EXCEPT ![send_index].packets_ended = data_segs_out]
      <4>1. /\ send.full = (next = receive_index) /\ send.index = next
            /\ send.full = FALSE => send.ring = Start(ended, next, data_segs_out) /\ send.started = 1
        BY <3>2 DEF SendSide
      <4>2. next = Slot(opened + 1)
        BY <2>1, <2>2, SlotNext
      <4>3. next # Slot(closed + 1)
        BY <2>1, <4>1
      <4>4. opened - closed < NumIntervals
        <5>1. opened - closed = NumIntervals => Slot(closed + 1) = Slot(opened + 1)
          <6>1. ASSUME opened - closed = NumIntervals
                PROVE  Slot(closed + 1) = Slot(opened + 1)
            <7>1. /\ closed + 1 < opened + 1 /\ (opened + 1) - (closed + 1) = NumIntervals
                  /\ opened + 1 \in Nat \ {0}
              BY <1>1, <2>2, <6>1
            <7> QED
              BY <2>2, <7>1, SlotsDiffer
          <6> QED
            BY <6>1
        <5> QED
          BY <1>1, <2>2, <4>2, <4>3, <5>1
      <4>5. send.ring = Start(ended, Slot(opened + 1), data_segs_out) /\ opened' = opened + 1
        BY <1>3, <1>4, <2>1, <4>1, <4>2
      <4>6. GoodRing(send.ring, opened + 1, closed, data_segs_out)
        <5>1. GoodRing(Start([intervals EXCEPT ![Slot(opened)].packets_ended = data_segs_out],
                             Slot(opened + 1), data_segs_out), opened + 1, closed, data_segs_out)
          <6>1. data_segs_out \in Nat \ {0} /\ GoodRing(intervals, opened, closed, data_segs_out)
            BY <1>1, <1>2, <2>1
          <6> QED
            BY <4>4, <6>1, SendKeeps, Zenon
        <5>2. ended = [intervals EXCEPT ![Slot(opened)].packets_ended = data_segs_out]
          BY <2>1
        <5> QED
          BY <4>5, <5>1, <5>2, Zenon
      <4> QED
        BY <4>1, <4>2, <4>5, <4>6
    <3> QED
      BY <3>1, <3>2
  <2> DEFINE ring == Credit(send.ring, r, acc)
  <2>4. GoodRing(ring, opened', closed, data_segs_out)
    <3>1. PICK k \in Nat : k = send.ring[r].accounted + acc - accounted_base
      <4>1. send.ring[r].accounted \in Nat
        BY <1>1, <1>4 DEF Interval
      <4> QED
        BY <1>5, <4>1
    <3>2. PICK o, sent, now : o = opened' /\ sent = send.ring /\ now = ring
      OBVIOUS
    <3>3. GoodRing(sent, o, closed, data_segs_out)
      BY <2>3, <3>2
    <3>4. GoodRing([sent EXCEPT ![Slot(closed + 1)].fresh = TRUE,
                                ![Slot(closed + 1)].accounted = k], o, closed, data_segs_out)
      BY <3>3, CreditKeeps
    <3>5. now = sent \/ now = [sent EXCEPT ![r].fresh = TRUE, ![r].accounted = k]
      BY <3>1, <3>2 DEF Credit
    <3>6. GoodRing(now, o, closed, data_segs_out)
      BY <2>1, <3>3, <3>4, <3>5
    <3> QED
      BY <3>2, <3>6
  <2>5. CASE ~closes
    <3>1. intervals' = ring /\ closed' = closed /\ receive_index' = r /\ first_circle' = first_circle
      BY <1>3, <2>5 DEF Received
    <3> QED
      BY <1>2, <1>3, <2>1, <2>3, <2>4, <3>1 DEF RingInv
  <2>6. CASE closes
    <3>1. /\ intervals' = [ring EXCEPT ![NextIndex(r)].fresh = FALSE] /\ closed' = closed + 1
          /\ receive_index' = NextIndex(r)
          /\ first_circle' = IF NextIndex(r) = 0 THEN FALSE ELSE first_circle
      BY <1>3, <2>6 DEF Received
    <3>2. NextIndex(r) = Slot(closed + 2) /\ closed + 2 = (closed + 1) + 1
      BY <1>1, <2>1, <2>2, SlotNext
    <3>3. ring[Slot(closed + 1)].packets_ended # 0
      BY <2>1, <2>6 DEF NowCloses, Closes
    <3>4. PICK o : o = opened'
      OBVIOUS
    <3>5. GoodRing([ring EXCEPT ![Slot(closed + 2)].fresh = FALSE], o, closed + 1, data_segs_out)
      BY <2>4, <3>3, <3>4, CloseKeeps
    <3>6. first_circle' <=> closed + 1 < NumIntervals
      <4>1. CASE closed + 1 < NumIntervals
        <5>1. closed + 2 \in 1 .. NumIntervals
          BY <1>1, <2>2, <4>1
        <5>2. Slot(closed + 2) = closed + 1
          BY <1>1, <5>1, FirstSlots
        <5>3. closed < NumIntervals /\ closed + 1 # 0
          BY <1>1, <2>2, <4>1
        <5> QED
          BY <2>1, <3>1, <3>2, <4>1, <5>2, <5>3
      <4>2. CASE closed + 1 = NumIntervals
        <5>1. Slot(closed + 1) = NumIntervals - 1
          <6>1. closed + 1 \in 1 .. NumIntervals
            BY <2>2, <4>2
          <6> QED
            BY <4>2, <6>1, FirstSlots
        <5>2. NextIndex(r) = 0
          BY <2>1, <2>2, <5>1 DEF NextIndex
        <5> QED
          BY <2>2, <3>1, <4>2, <5>2
      <4>3. CASE closed >= NumIntervals
        BY <1>1, <2>1, <2>2, <3>1, <4>3
      <4> QED
        BY <1>1, <2>2, <4>1, <4>2, <4>3
    <3> QED
      BY <1>2, <1>3, <2>3, <3>1, <3>2, <3>4, <3>5, <3>6 DEF RingInv
  <2> QED
    BY <2>5, <2>6
<1> QED
  BY <1>6, <1>7 DEF IInv

\* An ACK without a rate sample, and a timeout: the ring is not looked at.
LEMMA CountStep ==
  ASSUME IInv, NEW n \in Segs, AckNoSample(n) \/ Timeout(n)
  PROVE  IInv'
<1>1. /\ double_counted \in 0 .. doubles /\ accounted_base \in 0 .. accounted
      /\ doubles \in 0 .. MaxDoubles /\ accounted \in 0 .. data_segs_out + doubles
      /\ data_segs_out \in Nat /\ MaxDoubles \in Nat /\ n \in Nat /\ 2 * doubles <= accounted + 1
  BY BoundsAssumption DEF IInv, TypeOK, CountInv, Segs
<1>2. /\ n <= InFlight /\ accounted' = accounted + n
      /\ UNCHANGED <<intervals, send_index, receive_index, first_circle, packets_counted,
                     data_segs_out, doubles, opened, closed, overrun>>
  BY DEF AckNoSample, Timeout
<1>3. accounted' \in 0 .. data_segs_out' + doubles' /\ 2 * doubles' <= accounted' + 1
  BY <1>1, <1>2 DEF InFlight
<1>4. accounted_base' \in 0 .. accounted' /\ double_counted' \in 0 .. doubles'
  <2>1. CASE AckNoSample(n)
    BY <1>1, <1>2, <2>1 DEF AckNoSample
  <2>2. CASE Timeout(n)
    BY <1>1, <1>2, <2>2 DEF Timeout, DoubleCounted, InFlight
  <2> QED
    BY <2>1, <2>2
<1>5. TypeOK' /\ CountInv'
  BY <1>2, <1>3, <1>4 DEF IInv, TypeOK, CountInv
<1>6. RingInv => RingInv'
  BY <1>2 DEF RingInv
<1> QED
  BY <1>2, <1>5, <1>6 DEF IInv

\* More segments sent: the open interval still ends after it began.
LEMMA TransmitStep ==
  ASSUME IInv, Transmit
  PROVE  IInv'
<1>1. /\ data_segs_out \in Nat /\ MaxSegs \in Nat /\ data_segs_out < MaxSegs
      /\ data_segs_out' = data_segs_out + 1
      /\ doubles \in Nat /\ accounted \in 0 .. data_segs_out + doubles
      /\ UNCHANGED <<neo, accounted, doubles, opened, closed, overrun>>
  BY BoundsAssumption DEF IInv, TypeOK, Segs, Transmit
<1>2. TypeOK' /\ CountInv'
  BY <1>1 DEF IInv, TypeOK, CountInv, Segs, neo
<1>3. PICK segs \in Nat, more \in Nat :
          segs = data_segs_out /\ more = data_segs_out' /\ more = segs + 1
  BY <1>1
<1>4. ASSUME GoodRing(intervals, opened, closed, segs)
      PROVE  GoodRing(intervals, opened, closed, more)
  <2>1. /\ intervals \in [Ring -> Interval] /\ opened \in Nat \ {0}
        /\ Ended(intervals, opened, segs)
    BY <1>4 DEF GoodRing
  <2>2. Slot(opened) \in Ring
    BY <2>1, SlotNext
  <2>3. Base(segs) \in Nat /\ Base(more) \in Nat /\ Base(segs) <= Base(more)
    BY <1>3 DEF Base, Larger
  <2>4. intervals[Slot(opened)].packets_sent_base \in Nat
    BY <2>1, <2>2 DEF Interval
  <2>5. Ended(intervals, opened, more)
    BY <1>3, <2>1, <2>3, <2>4 DEF Ended
  <2> QED
    BY <1>4, <2>5 DEF GoodRing
<1>5. RingInv => RingInv'
  BY <1>1, <1>3, <1>4 DEF RingInv, neo
<1> QED
  BY <1>1, <1>2, <1>5 DEF IInv

\* neo_init: one interval is open, in slot 0.
LEMMA InitInv ==
  ASSUME Init
  PROVE  IInv
<1>1. /\ data_segs_out \in {0, 2} /\ doubles = 1 /\ accounted \in 1 .. data_segs_out + 1
      /\ data_segs_out \in Segs /\ doubles \in 0 .. MaxDoubles /\ 0 \in Ring
      /\ NumIntervals \in Nat /\ NumIntervals >= 3
      /\ send_index = 0 /\ receive_index = 0 /\ first_circle = TRUE
      /\ packets_counted = 0 /\ double_counted = 0 /\ accounted_base = 0
      /\ opened = 1 /\ closed = 0 /\ overrun = FALSE
  BY BoundsAssumption, RingAssumption DEF Init, Segs, Ring
<1>2. PICK base \in Nat : base = Base(data_segs_out)
  BY <1>1 DEF Base, Larger
<1>3. /\ EmptyInterval \in Interval /\ EmptyInterval.packets_ended = 0
      /\ EmptyInterval.accounted = 0
  BY DEF EmptyInterval, Interval
<1>4. PICK first : first = [EmptyInterval EXCEPT !.no = 1, !.packets_sent_base = base]
  OBVIOUS
<1>5. /\ first \in Interval /\ first.packets_ended = 0 /\ first.accounted = 0
      /\ first.no = 1 /\ first.packets_sent_base = base
  BY <1>3, <1>4 DEF Interval
<1>6. intervals = [i \in Ring |-> IF i = 0 THEN first ELSE EmptyInterval]
  BY <1>2, <1>4 DEF Init
<1>7. intervals \in [Ring -> Interval] /\ intervals[0] = first
  BY <1>1, <1>3, <1>5, <1>6
<1>8. TypeOK /\ CountInv
  <2>1. accounted \in 0 .. data_segs_out + doubles /\ 2 * doubles <= accounted + 1
    BY <1>1
  <2>2. /\ double_counted \in 0 .. doubles /\ accounted_base \in 0 .. accounted
        /\ packets_counted \in Nat /\ opened \in Nat /\ closed \in Nat
    BY <1>1
  <2>3. TypeOK
    BY <1>1, <1>7, <2>1, <2>2 DEF TypeOK, Interval
  <2> QED
    BY <2>1, <2>3 DEF CountInv
<1>9. Slot(1) = 0 /\ Uses(1) = {1}
  BY <1>1, FirstSlots DEF Uses
<1>10. GoodRing(intervals, 1, 0, data_segs_out)
  <2>1. Named(intervals, 1) /\ Credited(intervals, 1, 0)
    BY <1>5, <1>7, <1>9 DEF Named, Credited
  <2>2. Ended(intervals, 1, data_segs_out)
    BY <1>2, <1>5, <1>7, <1>9 DEF Ended
  <2> QED
    BY <1>1, <1>7, <2>1, <2>2 DEF GoodRing
<1> QED
  BY <1>1, <1>8, <1>9, <1>10 DEF IInv, RingInv

\* The invariant of neo_process, neo_set_state and what is sent in between.
THEOREM RingInvariant == Spec => []IInv
<1>1. Init => IInv
  BY InitInv
<1>2. IInv /\ [Next]_vars => IInv'
  <2> SUFFICES ASSUME IInv, [Next]_vars  PROVE  IInv'
    OBVIOUS
  <2>1. CASE \E n \in Segs, late \in 0 .. MaxDoubles, over \in BOOLEAN : Ack(n, late, over)
    BY <2>1, AckStep
  <2>2. CASE \E n \in Segs : AckNoSample(n) \/ Timeout(n)
    BY <2>2, CountStep
  <2>3. CASE Transmit
    BY <2>3, TransmitStep
  <2>4. CASE UNCHANGED vars
    BY <2>4 DEF vars, neo, tcp, IInv, TypeOK, CountInv, RingInv
  <2> QED
    BY <2>1, <2>2, <2>3, <2>4 DEF Next
<1> QED
  BY <1>1, <1>2, PTL DEF Spec

-----------------------------------------------------------------------------
(* What the ring promises *)

\* Every variable keeps its type; in particular nothing that neo_cong_control and
\* neo_set_state subtract goes below zero.
THEOREM TypesHold == Spec => []TypeOK
<1>1. IInv => TypeOK
  BY DEF IInv
<1> QED
  BY <1>1, RingInvariant, PTL

\* The intervals that are waiting for ACKs, and the open one, are not overwritten.
LEMMA WaitingUses ==
  ASSUME NEW o \in Nat, NEW c \in Nat, c < o, o - c <= NumIntervals
  PROVE  c + 1 .. o \subseteq Uses(o)
  BY RingAssumption DEF Uses

\* RingAgrees of neo_process: the indices and the slots of the ring say what was opened
\* and closed.
THEOREM IndicesAgree == Spec => []RingAgrees
<1>1. IInv => RingAgrees
  <2> SUFFICES ASSUME RingInv  PROVE  RingAgrees
    BY DEF IInv, RingAgrees
  <2>1. /\ opened \in Nat /\ closed \in Nat /\ closed < opened
        /\ opened - closed <= NumIntervals /\ Named(intervals, opened)
        /\ send_index = Slot(opened) /\ receive_index = Slot(closed + 1)
    BY DEF RingInv, GoodRing
  <2> QED
    BY <2>1, WaitingUses DEF RingAgrees, Named
<1> QED
  BY <1>1, RingInvariant, PTL

\* Contiguous of neo_process: an interval that is waiting for ACKs ends where the next
\* one begins.
THEOREM NoGaps == Spec => []Contiguous
<1>1. IInv => Contiguous
  <2> SUFFICES ASSUME RingInv  PROVE  Contiguous
    BY DEF IInv, Contiguous
  <2>1. /\ opened \in Nat /\ closed \in Nat /\ closed < opened
        /\ opened - closed <= NumIntervals /\ Ended(intervals, opened, data_segs_out)
    BY DEF RingInv, GoodRing
  <2>2. closed + 1 .. opened - 1 \subseteq Uses(opened) \ {opened}
    BY <2>1, WaitingUses
  <2> QED
    BY <2>1, <2>2 DEF Contiguous, Ended
<1> QED
  BY <1>1, RingInvariant, PTL

\* MeasuresClosed of neo_fetch_measurements: it answers from the last two intervals that
\* were closed, each with the times of its own packets.
THEOREM AnswersFromClosed == Spec => []MeasuresClosed
<1>1. IInv => MeasuresClosed
  <2> SUFFICES ASSUME RingInv, ~TooEarly, opened - closed <= NumIntervals - 2
               PROVE  /\ intervals[LastReceived].no = closed /\ closed >= 2
                      /\ intervals[LastLastReceived].no = closed - 1
                      /\ \A i \in {LastReceived, LastLastReceived} :
                            /\ intervals[i].packets_ended >= intervals[i].packets_sent_base
                            /\ intervals[i].accounted > 0 => intervals[i].fresh
    BY DEF IInv, MeasuresClosed
  <2>1. /\ intervals \in [Ring -> Interval] /\ opened \in Nat /\ closed \in Nat /\ closed < opened
        /\ NumIntervals \in Nat /\ NumIntervals >= 3 /\ data_segs_out \in Nat
        /\ Named(intervals, opened) /\ Ended(intervals, opened, data_segs_out)
        /\ Credited(intervals, opened, closed) /\ receive_index = Slot(closed + 1)
        /\ first_circle <=> closed < NumIntervals
    BY RingAssumption DEF RingInv, GoodRing
  <2>2. closed >= 2
    <3>1. CASE closed < NumIntervals
      <4>1. closed + 1 \in 1 .. NumIntervals
        BY <2>1, <3>1
      <4>2. receive_index = (closed + 1) - 1
        BY <2>1, <4>1, FirstSlots
      <4> QED
        BY <2>1, <3>1, <4>2 DEF TooEarly
    <3>2. CASE ~(closed < NumIntervals)
      BY <2>1, <3>2
    <3> QED
      BY <3>1, <3>2
  <2>3. LastReceived = Slot(closed) /\ LastLastReceived = Slot(closed - 1)
    <3>1. closed \in Nat \ {0} /\ closed - 1 \in Nat \ {0} /\ (closed - 1) + 1 = closed
      BY <2>1, <2>2
    <3>2. PrevIndex(Slot(closed + 1)) = Slot(closed)
      BY <3>1, SlotNext
    <3>3. PrevIndex(Slot((closed - 1) + 1)) = Slot(closed - 1)
      BY <3>1, SlotNext
    <3> QED
      BY <2>1, <3>1, <3>2, <3>3 DEF LastReceived, LastLastReceived
  <2>4. closed \in Uses(opened) \ {opened} /\ closed - 1 \in Uses(opened) \ {opened}
    BY <2>1, <2>2 DEF Uses
  <2>5. \A n \in {closed, closed - 1} :
           /\ intervals[Slot(n)].no = n
           /\ intervals[Slot(n)].packets_ended >= intervals[Slot(n)].packets_sent_base
           /\ intervals[Slot(n)].accounted > 0 => intervals[Slot(n)].fresh
    <3> SUFFICES ASSUME NEW n \in Uses(opened) \ {opened}
                 PROVE  /\ intervals[Slot(n)].no = n
                        /\ intervals[Slot(n)].packets_ended >= intervals[Slot(n)].packets_sent_base
                        /\ intervals[Slot(n)].accounted > 0 => intervals[Slot(n)].fresh
      BY <2>4
    <3>1. n \in Nat \ {0}
      BY <2>1 DEF Uses
    <3>2. intervals[Slot(n)] \in Interval
      BY <2>1, <3>1, SlotNext
    <3>3. intervals[Slot(n)].packets_ended \in Nat /\ intervals[Slot(n)].packets_sent_base \in Nat
      BY <3>2 DEF Interval
    <3> QED
      BY <2>1, <3>3 DEF Named, Ended, Credited
  <2> QED
    BY <2>2, <2>3, <2>5
<1> QED
  BY <1>1, RingInvariant, PTL
=============================================================================
