---------------------------- MODULE CodecProofs -----------------------------
(***************************************************************************)
(* What is read off the wire is what was written, for all values, ports,   *)
(* ids and measurements the constants of Codec admit.                      *)
(*                                                                         *)
(* First the bytes: where the parts of a concatenation are found, what a   *)
(* header, a field, an update, a CREATE and a reply hold at the offsets    *)
(* the other side reads.  A conclusion a later proof cites is a named      *)
(* predicate (Carries, FieldsBehind): the provers match it as a whole.     *)
(* Then the invariant CodecInv: what is under way and what is staged can   *)
(* be traced to what the environment gave, asked and fetched.              *)
(***************************************************************************)
EXTENDS Codec, SequenceTheorems, TLAPS

Byte == 0 .. 255

-----------------------------------------------------------------------------
(* Sequences of bytes *)

\* A word is the sequence of its bytes.
LEMMA WordSeq ==
  ASSUME NEW n \in Nat, NEW w \in [1 .. n -> Byte]
  PROVE  w \in Seq(Byte) /\ Len(w) = n
OBVIOUS

LEMMA SeqWord ==
  ASSUME NEW s, s \in Seq(Byte), NEW n \in Nat, Len(s) = n
  PROVE  s \in [1 .. n -> Byte]
OBVIOUS

\* What follows a first part is found behind it.
LEMMA CatRead ==
  ASSUME NEW s, s \in Seq(Byte), NEW t, t \in Seq(Byte), NEW u, u = s \o t
  PROVE  /\ u \in Seq(Byte) /\ Len(u) = Len(s) + Len(t)
         /\ \A k \in 1 .. Len(s) : u[k] = s[k]
         /\ \A k \in 1 .. Len(t) : u[Len(s) + k] = t[k]
OBVIOUS

\* A part of a sequence that is known byte by byte
LEMMA PartIs ==
  ASSUME NEW s, s \in Seq(Byte), NEW part, part \in Seq(Byte),
         NEW first, first \in Nat, NEW last, last \in Nat,
         first >= 1, first + Len(part) = last + 1, last <= Len(s),
         \A k \in 1 .. Len(part) : s[first - 1 + k] = part[k]
  PROVE  SubSeq(s, first, last) = part
OBVIOUS

\* Numbers in bytes
LEMMA OneByte == \A x \in Nat : x < 256 => x % 256 = x /\ (x \div 256) % 256 = 0
OBVIOUS

LEMMA WordRead ==
  ASSUME NEW x \in Nat, NEW w, w = Bytes(x, 4)
  PROVE  w \in [1 .. 4 -> Byte] /\ w[1] = x % 256 /\ w[2] = (x \div 256) % 256
BY DEF Bytes, Byte

\* struct SpineMsgHeader and the message behind it
Carries(m, type, sid, body) ==
    /\ m \in Seq(Byte) /\ Len(m) = 8 + Len(body)
    /\ TypeOf(m) = type /\ SidOf(m) = sid /\ Body(m) = body

LEMMA MessageRead ==
  ASSUME NEW type, NEW len, NEW sid, NEW body, NEW m
  PROVE  /\ type \in Byte /\ len \in Nat /\ sid \in U32 /\ body \in Seq(Byte)
         /\ m = Header(type, len, sid) \o body
         => Carries(m, type, sid, body)
<1> SUFFICES ASSUME type \in Nat, type < 256, len \in Nat, sid \in U32, body \in Seq(Byte),
                    m = Header(type, len, sid) \o body
             PROVE  /\ m \in Seq(Byte) /\ Len(m) = 8 + Len(body)
                    /\ TypeOf(m) = type /\ SidOf(m) = sid /\ Body(m) = body
  BY DEF Byte, Carries
<1>1. PICK t : t = Bytes(type, 2)
  OBVIOUS
<1>2. PICK l : l = Bytes(len, 2)
  OBVIOUS
<1>3. t \in [1 .. 2 -> Byte] /\ t[1] = type /\ t[2] = 0 /\ l \in [1 .. 2 -> Byte]
  <2>1. type % 256 = type /\ (type \div 256) % 256 = 0
    BY OneByte
  <2>2. t \in [1 .. 2 -> Byte] /\ t[1] = type % 256 /\ t[2] = (type \div 256) % 256
    BY <1>1 DEF Bytes, Byte
  <2>3. l \in [1 .. 2 -> Byte]
    BY <1>2 DEF Bytes, Byte
  <2> QED
    BY <2>1, <2>2, <2>3
<1>4. sid \in [1 .. 4 -> Byte]
  BY DEF U32, Byte
<1>5. t \in Seq(Byte) /\ l \in Seq(Byte) /\ sid \in Seq(Byte)
  BY <1>3, <1>4, WordSeq
<1>6. Len(t) = 2 /\ Len(l) = 2 /\ Len(sid) = 4
  BY <1>3, <1>4, WordSeq
<1>7. PICK tl : tl = t \o l
  OBVIOUS
<1>8. /\ tl \in Seq(Byte) /\ Len(tl) = Len(t) + Len(l)
      /\ \A k \in 1 .. Len(t) : tl[k] = t[k]
      /\ \A k \in 1 .. Len(l) : tl[Len(t) + k] = l[k]
  BY <1>7, <1>5, CatRead
<1>9. Len(tl) = 4 /\ tl[1] = type /\ tl[2] = 0
  BY <1>8, <1>6, <1>3
<1>10. PICK h : h = tl \o sid
  OBVIOUS
<1>11. tl \in Seq(Byte)
  BY <1>8
<1>12. /\ h \in Seq(Byte) /\ Len(h) = Len(tl) + Len(sid)
       /\ \A k \in 1 .. Len(tl) : h[k] = tl[k]
       /\ \A k \in 1 .. Len(sid) : h[Len(tl) + k] = sid[k]
  BY <1>10, <1>5, <1>11, CatRead
<1>13. /\ Len(h) = 8 /\ h[1] = type /\ h[2] = 0
       /\ \A k \in 1 .. 4 : h[4 + k] = sid[k]
  BY <1>12, <1>9, <1>6
<1>14. m = h \o body
  BY <1>1, <1>2, <1>7, <1>10 DEF Header
<1>15. h \in Seq(Byte)
  BY <1>12
<1>16. /\ m \in Seq(Byte) /\ Len(m) = Len(h) + Len(body)
       /\ \A k \in 1 .. Len(h) : m[k] = h[k]
       /\ \A k \in 1 .. Len(body) : m[Len(h) + k] = body[k]
  BY <1>15, <1>14, CatRead
<1>17. m \in Seq(Byte) /\ Len(m) = 8 + Len(body) /\ m[1] = type /\ m[2] = 0
      /\ (\A k \in 1 .. 4 : m[4 + k] = sid[k]) /\ (\A k \in 1 .. Len(body) : m[8 + k] = body[k])
  <2>1. m \in Seq(Byte) /\ Len(m) = 8 + Len(body) /\ \A k \in 1 .. 8 : m[k] = h[k]
    BY <1>13, <1>16
  <2>2. \A k \in 1 .. Len(body) : m[8 + k] = body[k]
    BY <1>13, <1>16
  <2>3. \A k \in 1 .. 4 : m[4 + k] = sid[k]
    <3>1. \A k \in 1 .. 4 : 4 + k \in 1 .. 8
      OBVIOUS
    <3> QED
      BY <1>13, <2>1, <3>1
  <2>4. m[1] = type /\ m[2] = 0
    BY <1>13, <2>1
  <2> QED
    BY <2>1, <2>2, <2>3, <2>4
<1>18. TypeOf(m) = type
  BY <1>17 DEF TypeOf
<1>19. SubSeq(m, 5, 8) = sid
  <2>1. PICK first \in Nat, last \in Nat : first = 5 /\ last = 8
    OBVIOUS
  <2>2. /\ m \in Seq(Byte) /\ sid \in Seq(Byte)
        /\ first >= 1 /\ first + Len(sid) = last + 1 /\ last <= Len(m)
        /\ \A k \in 1 .. Len(sid) : m[first - 1 + k] = sid[k]
    BY <1>5, <1>6, <1>17, <2>1
  <2>3. SubSeq(m, first, last) = sid
    BY <2>2, PartIs, ZenonT(30)
  <2> QED
    BY <2>1, <2>3
<1>20. SubSeq(m, 9, Len(m)) = body
  <2>1. PICK n \in Nat : n = Len(body)
    OBVIOUS
  <2>2. PICK first \in Nat, last \in Nat : first = 9 /\ last = 8 + n
    BY <2>1
  <2>3. m \in Seq(Byte) /\ body \in Seq(Byte) /\ first >= 1
    BY <1>17, <2>2
  <2>4. first + Len(body) = last + 1 /\ last <= Len(m) /\ last = Len(m)
    <3>1. Len(m) = 8 + n
      BY <1>17, <2>1
    <3> QED
      BY <2>1, <2>2, <3>1
  <2>5. \A k \in 1 .. Len(body) : m[first - 1 + k] = body[k]
    <3> SUFFICES ASSUME NEW k \in 1 .. n  PROVE m[first - 1 + k] = body[k]
      BY <2>1
    <3>1. first - 1 + k = 8 + k
      BY <2>2
    <3>2. m[8 + k] = body[k]
      BY <1>17, <2>1
    <3> QED
      BY <3>1, <3>2
  <2>6. SubSeq(m, first, last) = body
    BY <2>3, <2>4, <2>5, PartIs, ZenonT(30)
  <2> QED
    BY <2>2, <2>4, <2>6
<1> QED
  BY <1>17, <1>18, <1>19, <1>20 DEF SidOf, Body

\* Fields of 8 and of 13 bytes are found where their number and the size say.
LEMMA Place ==
  /\ \A q \in Nat, i \in 0 .. 7 : (8 * q + i) \div 8 = q /\ (8 * q + i) % 8 = i
  /\ \A q \in Nat, i \in 0 .. 12 : (13 * q + i) \div 13 = q /\ (13 * q + i) % 13 = i
  /\ \A x \in Nat : x \div 8 \in Nat /\ x % 8 \in 0 .. 7 /\ x = 8 * (x \div 8) + (x % 8)
  /\ \A x \in Nat : x \div 13 \in Nat /\ x % 13 \in 0 .. 12 /\ x = 13 * (x \div 13) + (x % 13)
OBVIOUS

\* The sizes of a measurement and of a field of an update
FieldSizes == {8, 13}

\* A sequence of fields, and their bytes one behind the other
AreFields(f, size) == Len(f) \in Nat /\ \A k \in 1 .. Len(f) : f[k] \in [1 .. size -> Byte]
HoldsFields(j, f, size) ==
    /\ j \in Seq(Byte) /\ Len(j) = size * Len(f)
    /\ \A k \in 1 .. Len(f), i \in 1 .. size : j[size * (k - 1) + i] = f[k][i]

LEMMA JoinedRead ==
  ASSUME NEW size, NEW f, NEW j
  PROVE  size \in FieldSizes /\ AreFields(f, size) /\ j = Joined(f, size)
         => HoldsFields(j, f, size)
<1> SUFFICES ASSUME size \in FieldSizes, Len(f) \in Nat,
                    \A k \in 1 .. Len(f) : f[k] \in [1 .. size -> Byte],
                    j = Joined(f, size)
             PROVE  /\ j \in Seq(Byte) /\ Len(j) = size * Len(f)
                    /\ \A k \in 1 .. Len(f), i \in 1 .. size : j[size * (k - 1) + i] = f[k][i]
  BY DEF AreFields, HoldsFields
<1>1. PICK n \in Nat : n = Len(f)
  OBVIOUS
<1>2. size \in {8, 13}
  BY DEF FieldSizes
<1>3. size \in Nat \ {0} /\ size * n \in Nat
  BY <1>2
<1>4. j = [k \in 1 .. size * n |-> f[((k - 1) \div size) + 1][((k - 1) % size) + 1]]
  BY <1>1 DEF Joined
<1>5. \A k \in 1 .. size * n : j[k] \in Byte
  <2> SUFFICES ASSUME NEW k \in 1 .. size * n  PROVE j[k] \in Byte
    OBVIOUS
  <2>1. PICK q \in Nat, i \in Nat : q = (k - 1) \div size /\ i = (k - 1) % size
                                    /\ i < size /\ k - 1 = size * q + i
    <3>1. PICK x \in Nat : x = k - 1
      BY <1>3
    <3>2. CASE size = 8
      <4>1. x \div 8 \in Nat /\ x % 8 \in Nat /\ x % 8 < 8 /\ x = 8 * (x \div 8) + (x % 8)
        BY Place
      <4> QED
        BY <3>1, <3>2, <4>1
    <3>3. CASE size = 13
      <4>1. x \div 13 \in Nat /\ x % 13 \in Nat /\ x % 13 < 13
            /\ x = 13 * (x \div 13) + (x % 13)
        BY Place
      <4> QED
        BY <3>1, <3>3, <4>1
    <3> QED
      BY <1>2, <3>2, <3>3
  <2>2. q + 1 \in 1 .. n /\ i + 1 \in 1 .. size
    <3>1. CASE size = 8
      BY <2>1, <3>1
    <3>2. CASE size = 13
      BY <2>1, <3>2
    <3> QED
      BY <1>2, <3>1, <3>2
  <2>3. f[q + 1][i + 1] \in Byte
    BY <1>1, <2>2
  <2> QED
    BY <1>4, <2>1, <2>3
<1>6. j \in Seq(Byte) /\ Len(j) = size * n
  <2>1. j \in [1 .. size * n -> Byte]
    BY <1>4, <1>5
  <2> QED
    BY <1>3, <2>1, WordSeq
<1>7. ASSUME NEW k \in 1 .. n, NEW i \in 1 .. size
      PROVE  j[size * (k - 1) + i] = f[k][i]
  <2>1. PICK q \in Nat, e \in 0 .. size - 1 : q = k - 1 /\ e = i - 1
    <3>1. k - 1 \in Nat /\ i - 1 \in 0 .. size - 1
      BY <1>2
    <3> QED
      BY <3>1
  <2>2. (size * q + e) \div size = q /\ (size * q + e) % size = e
    <3>1. CASE size = 8
      <4>1. e \in 0 .. 7
        BY <3>1
      <4> QED
        BY <3>1, <4>1, Place
    <3>2. CASE size = 13
      <4>1. e \in 0 .. 12
        BY <3>2
      <4> QED
        BY <3>2, <4>1, Place
    <3> QED
      BY <1>2, <3>1, <3>2
  <2>3. PICK p \in 1 .. size * n : p = size * (k - 1) + i
    <3>1. CASE size = 8
      BY <3>1
    <3>2. CASE size = 13
      BY <3>2
    <3> QED
      BY <1>2, <3>1, <3>2
  <2>4. p - 1 = size * q + e
    <3>1. CASE size = 8
      BY <2>1, <2>3, <3>1
    <3>2. CASE size = 13
      BY <2>1, <2>3, <3>2
    <3> QED
      BY <1>2, <3>1, <3>2
  <2>5. j[p] = f[q + 1][e + 1]
    <3>1. j[p] = f[((p - 1) \div size) + 1][((p - 1) % size) + 1]
      BY <1>4
    <3>2. (p - 1) \div size = q /\ (p - 1) % size = e
      BY <2>2, <2>4
    <3> QED
      BY <1>2, <3>1, <3>2
  <2> QED
    BY <2>1, <2>3, <2>5
<1> QED
  BY <1>1, <1>6, <1>7

\* A part of a joined sequence is the field.
FieldsBehind(b, head, f, size) ==
    /\ b \in Seq(Byte) /\ Len(b) = Len(head) + size * Len(f)
    /\ \A l \in 1 .. Len(head) : b[l] = head[l]
    /\ \A k \in 1 .. Len(f) :
          SubSeq(b, Len(head) + size * (k - 1) + 1, Len(head) + size * k) = f[k]

LEMMA FieldOfJoined ==
  ASSUME NEW size, NEW f, NEW head, NEW b
  PROVE  /\ size \in FieldSizes /\ AreFields(f, size)
         /\ head \in Seq(Byte) /\ b = head \o Joined(f, size)
         => FieldsBehind(b, head, f, size)
<1>1. SUFFICES ASSUME size \in FieldSizes, Len(f) \in Nat,
                      \A l \in 1 .. Len(f) : f[l] \in [1 .. size -> Byte],
                      head \in Seq(Byte), b = head \o Joined(f, size)
               PROVE  FieldsBehind(b, head, f, size)
  BY DEF AreFields
<1>2. PICK n \in Nat, h \in Nat : n = Len(f) /\ h = Len(head)
  BY <1>1
<1>3. PICK j : j = Joined(f, size)
  OBVIOUS
<1>4. /\ j \in Seq(Byte) /\ Len(j) = size * Len(f)
      /\ \A l \in 1 .. Len(f), i \in 1 .. size : j[size * (l - 1) + i] = f[l][i]
  <2>1. size \in FieldSizes /\ AreFields(f, size)
    BY <1>1 DEF AreFields
  <2>2. HoldsFields(j, f, size)
    BY <1>3, <2>1, JoinedRead
  <2> QED
    BY <2>2 DEF HoldsFields
<1>5. j \in Seq(Byte) /\ head \in Seq(Byte) /\ b = head \o j
  BY <1>3, <1>4, <1>1
<1>6. /\ b \in Seq(Byte) /\ Len(b) = Len(head) + Len(j)
      /\ \A l \in 1 .. Len(head) : b[l] = head[l]
      /\ \A l \in 1 .. Len(j) : b[Len(head) + l] = j[l]
  BY <1>5, CatRead
<1>7. ASSUME NEW k, k \in 1 .. Len(f)
      PROVE  SubSeq(b, Len(head) + size * (k - 1) + 1, Len(head) + size * k) = f[k]
  <2>1. f[k] \in Seq(Byte) /\ Len(f[k]) = size
    BY <1>1, <1>7, WordSeq DEF FieldSizes
  <2>2. PICK part : part = f[k]
    OBVIOUS
  <2>3. k \in 1 .. n /\ k \in Nat /\ n \in Nat /\ size \in {8, 13}
    BY <1>2, <1>1, <1>7 DEF FieldSizes
  <2>4. PICK first \in Nat, last \in Nat : first = h + size * (k - 1) + 1 /\ last = h + size * k
    <3>1. CASE size = 8
      BY <2>3, <3>1
    <3>2. CASE size = 13
      BY <2>3, <3>2
    <3> QED
      BY <2>3, <3>1, <3>2
  <2>5. first >= 1 /\ first + size = last + 1 /\ last <= Len(b)
    <3>1. Len(b) = h + size * n
      BY <1>2, <1>4, <1>6
    <3>2. CASE size = 8
      BY <2>3, <2>4, <3>1, <3>2
    <3>3. CASE size = 13
      BY <2>3, <2>4, <3>1, <3>3
    <3> QED
      BY <2>3, <3>2, <3>3
  <2>6. \A i \in 1 .. size : b[first - 1 + i] = part[i]
    <3> SUFFICES ASSUME NEW i \in 1 .. size  PROVE b[first - 1 + i] = part[i]
      OBVIOUS
    <3>1. PICK l \in 1 .. Len(j) : l = size * (k - 1) + i
      <4>1. PICK len \in Nat : len = Len(j) /\ len = size * n
        BY <1>2, <1>4
      <4>2. CASE size = 8
        BY <2>3, <4>2, <4>1
      <4>3. CASE size = 13
        BY <2>3, <4>3, <4>1
      <4> QED
        BY <2>3, <4>2, <4>3
    <3>2. first - 1 + i = Len(head) + l
      <4>1. CASE size = 8
        BY <1>2, <2>3, <2>4, <3>1, <4>1
      <4>2. CASE size = 13
        BY <1>2, <2>3, <2>4, <3>1, <4>2
      <4> QED
        BY <2>3, <4>1, <4>2
    <3>3. b[Len(head) + l] = j[l]
      BY <1>6
    <3>4. j[l] = f[k][i]
      BY <1>4, <3>1, <1>1, <1>7
    <3> QED
      BY <2>2, <3>2, <3>3, <3>4
  <2>7. SubSeq(b, first, last) = part
    <3>1. b \in Seq(Byte) /\ part \in Seq(Byte) /\ Len(part) = size
      BY <1>6, <2>1, <2>2
    <3>2. /\ b \in Seq(Byte) /\ part \in Seq(Byte)
          /\ first \in Nat /\ last \in Nat
          /\ first >= 1 /\ first + Len(part) = last + 1 /\ last <= Len(b)
          /\ \A i \in 1 .. Len(part) : b[first - 1 + i] = part[i]
      BY <2>5, <2>6, <3>1
    <3> QED
      BY <3>2, PartIs, ZenonT(30)
  <2> QED
    BY <1>2, <2>2, <2>4, <2>7
<1> QED
  BY <1>4, <1>6, <1>7 DEF FieldsBehind

-----------------------------------------------------------------------------
(* Updates *)

\* A field of an update is 13 bytes: the kind of register, its number, the value.
FieldHolds(f, x, v) ==
    /\ f \in [1 .. 13 -> Byte] /\ f[1] = VOLATILE_CONTROL_REG /\ f[2] = x
    /\ SubSeq(f, 6, 13) = v

LEMMA FieldRead ==
  ASSUME NEW x \in 0 .. 3, NEW v \in U64, NEW f
  PROVE  f = <<VOLATILE_CONTROL_REG>> \o Bytes(x, 4) \o v => FieldHolds(f, x, v)
<1>1. SUFFICES ASSUME f = <<VOLATILE_CONTROL_REG>> \o Bytes(x, 4) \o v
               PROVE  /\ f \in [1 .. 13 -> Byte] /\ f[1] = VOLATILE_CONTROL_REG /\ f[2] = x
                      /\ SubSeq(f, 6, 13) = v
  BY DEF FieldHolds
<1>2. PICK w : w = Bytes(x, 4)
  OBVIOUS
<1>3. w \in [1 .. 4 -> Byte] /\ w[1] = x
  <2>1. x \in Nat /\ x % 256 = x
    <3>1. x \in Nat /\ x < 256
      OBVIOUS
    <3> QED
      BY <3>1, OneByte
  <2> QED
    BY <1>2, <2>1, WordRead
<1>4. PICK g : g = <<VOLATILE_CONTROL_REG>>
  OBVIOUS
<1>5. g \in Seq(Byte) /\ Len(g) = 1 /\ g[1] = VOLATILE_CONTROL_REG
  BY <1>4 DEF VOLATILE_CONTROL_REG, Byte
<1>6. w \in Seq(Byte) /\ v \in Seq(Byte) /\ g \in Seq(Byte)
  BY <1>3, <1>5, WordSeq DEF U64, Byte
<1>7. Len(w) = 4 /\ Len(v) = 8
  BY <1>3, WordSeq DEF U64, Byte
<1>8. PICK h : h = g \o w
  OBVIOUS
<1>9. /\ h \in Seq(Byte) /\ Len(h) = Len(g) + Len(w)
      /\ \A k \in 1 .. Len(g) : h[k] = g[k]
      /\ \A k \in 1 .. Len(w) : h[Len(g) + k] = w[k]
  BY <1>6, <1>8, CatRead
<1>10. Len(h) = 5 /\ h[1] = VOLATILE_CONTROL_REG /\ h[2] = x
  <2>1. Len(h) = 5 /\ h[1] = g[1]
    BY <1>5, <1>7, <1>9
  <2>2. h[1 + 1] = w[1]
    BY <1>5, <1>7, <1>9
  <2> QED
    BY <1>3, <1>5, <2>1, <2>2
<1>11. h \in Seq(Byte) /\ f = h \o v
  BY <1>1, <1>2, <1>4, <1>8, <1>9
<1>12. /\ f \in Seq(Byte) /\ Len(f) = Len(h) + Len(v)
       /\ \A k \in 1 .. Len(h) : f[k] = h[k]
       /\ \A k \in 1 .. Len(v) : f[Len(h) + k] = v[k]
  BY <1>6, <1>11, CatRead
<1>13. Len(f) = 13 /\ f[1] = VOLATILE_CONTROL_REG /\ f[2] = x
  BY <1>7, <1>10, <1>12
<1>14. SubSeq(f, 6, 13) = v
  <2>1. PICK first \in Nat, last \in Nat : first = 6 /\ last = 13
    OBVIOUS
  <2>2. /\ f \in Seq(Byte) /\ v \in Seq(Byte)
        /\ first >= 1 /\ first + Len(v) = last + 1 /\ last <= Len(f)
        /\ \A k \in 1 .. Len(v) : f[first - 1 + k] = v[k]
    BY <1>6, <1>7, <1>10, <1>12, <1>13, <2>1
  <2>3. SubSeq(f, first, last) = v
    BY <2>2, PartIs, ZenonT(30)
  <2> QED
    BY <2>1, <2>3
<1>15. f \in [1 .. 13 -> Byte]
  <2>1. f \in Seq(Byte) /\ Len(f) = 13 /\ 13 \in Nat
    BY <1>12, <1>13
  <2> QED
    BY <2>1, SeqWord
<1> QED
  BY <1>13, <1>14, <1>15

\* Every order of the fields names all parameters of the algorithm, four at most.
LEMMA OrderType ==
  ASSUME NEW a \in {"vanilla", "scubic", "neo"}, NEW order \in FieldOrders(a)
  PROVE  /\ Len(order) \in 0 .. 4
         /\ \A k \in 1 .. Len(order) : order[k] \in Names(a)
         /\ \A name \in Names(a) : \E k \in 1 .. Len(order) : order[k] = name
<1>1. CASE a = "vanilla"
  <2>1. /\ order \in [1 .. 4 -> {"alpha", "beta", "gamma", "delta"}]
        /\ \A name \in {"alpha", "beta", "gamma", "delta"} : \E k \in 1 .. 4 : order[k] = name
    BY <1>1 DEF FieldOrders, Bijection, Surjection
  <2>2. Len(order) = 4
    BY <2>1
  <2>3. Names(a) = {"alpha", "beta", "gamma", "delta"}
    BY <1>1 DEF Names
  <2> QED
    BY <2>1, <2>2, <2>3
<1>2. CASE a = "scubic"
  <2>1. order = <<"beta", "bic_scale">>
    BY <1>2 DEF FieldOrders
  <2>2. Names(a) = {"beta", "bic_scale"}
    BY <1>2 DEF Names
  <2>3. Len(order) = 2 /\ order[1] = "beta" /\ order[2] = "bic_scale"
    BY <2>1
  <2> QED
    BY <2>2, <2>3
<1>3. CASE a = "neo"
  <2>1. order = <<"action">>
    BY <1>3 DEF FieldOrders
  <2>2. Names(a) = {"action"}
    BY <1>3 DEF Names
  <2>3. Len(order) = 1 /\ order[1] = "action"
    BY <2>1
  <2> QED
    BY <2>2, <2>3
<1> QED
  BY <1>1, <1>2, <1>3

\* The registers tell the parameters apart.
LEMMA RegistersDiffer ==
  ASSUME NEW a \in {"vanilla", "scubic", "neo"}
  PROVE  /\ \A name \in Names(a) : Register(a, name) \in 0 .. 3
         /\ \A name, other \in Names(a) :
               Register(a, name) = Register(a, other) => name = other
<1>1. CASE a = "vanilla"
  BY <1>1 DEF Names, Register
<1>2. CASE a = "scubic"
  BY <1>2 DEF Names, Register
<1>3. CASE a = "neo"
  BY <1>3 DEF Names, Register
<1> QED
  BY <1>1, <1>2, <1>3

\* What the kernel reads in the body of an update: as many fields as were added, each
\* of them whole.
LEMMA UpdateRead ==
  ASSUME NEW a \in {"vanilla", "scubic", "neo"}, NEW action \in [Names(a) -> U64],
         NEW order \in FieldOrders(a), NEW body
  PROVE  body = UpdateBody(a, action, order)
         => /\ body \in Seq(Byte) /\ NumUpdates(body) = Len(order)
            /\ \A k \in 1 .. Len(order) :
                  SubSeq(body, 5 + 13 * (k - 1), 4 + 13 * k) = Field(a, action, order[k])
<1>1. SUFFICES ASSUME body = UpdateBody(a, action, order)
               PROVE  /\ body \in Seq(Byte) /\ NumUpdates(body) = Len(order)
                      /\ \A k \in 1 .. Len(order) :
                            SubSeq(body, 5 + 13 * (k - 1), 4 + 13 * k) = Field(a, action, order[k])
  OBVIOUS
<1>2. Len(order) \in 0 .. 4 /\ \A k \in 1 .. Len(order) : order[k] \in Names(a)
  BY OrderType
<1>3. PICK n \in 0 .. 4 : n = Len(order)
  BY <1>2
<1>4. PICK head : head = Bytes(n, 4)
  OBVIOUS
<1>5. head \in Seq(Byte) /\ Len(head) = 4 /\ head[1] = n
  <2>1. n \in Nat /\ n % 256 = n
    <3>1. n \in Nat /\ n < 256
      OBVIOUS
    <3> QED
      BY <3>1, OneByte
  <2>2. head \in [1 .. 4 -> Byte] /\ head[1] = n
    BY <1>4, <2>1, WordRead
  <2> QED
    BY <2>2, WordSeq
<1>6. PICK f : f = [k \in 1 .. Len(order) |-> Field(a, action, order[k])]
  OBVIOUS
<1>7. Len(f) = n /\ \A k \in 1 .. n : f[k] = Field(a, action, order[k])
  BY <1>3, <1>6
<1>8. \A k \in 1 .. n : f[k] \in [1 .. 13 -> Byte]
  <2> SUFFICES ASSUME NEW k \in 1 .. n  PROVE f[k] \in [1 .. 13 -> Byte]
    OBVIOUS
  <2>1. PICK name \in Names(a) : name = order[k]
    BY <1>2, <1>3
  <2>2. PICK x \in 0 .. 3, v \in U64 : x = Register(a, name) /\ v = action[name]
    BY RegistersDiffer
  <2>3. f[k] = <<VOLATILE_CONTROL_REG>> \o Bytes(x, 4) \o v
    BY <1>7, <2>1, <2>2 DEF Field
  <2>4. FieldHolds(f[k], x, v)
    BY <2>3, FieldRead
  <2> QED
    BY <2>4 DEF FieldHolds
<1>9. 13 \in FieldSizes /\ AreFields(f, 13)
  BY <1>7, <1>8 DEF FieldSizes, AreFields
<1>10. body = head \o Joined(f, 13) /\ head \in Seq(Byte)
  BY <1>1, <1>3, <1>4, <1>5, <1>6 DEF UpdateBody
<1>11. ASSUME NEW k \in 1 .. n
       PROVE  SubSeq(body, 5 + 13 * (k - 1), 4 + 13 * k) = f[k]
  <2>1. k \in 1 .. Len(f)
    BY <1>7
  <2>2. SubSeq(body, Len(head) + 13 * (k - 1) + 1, Len(head) + 13 * k) = f[k]
    <3>1. PICK size : size = 13
      OBVIOUS
    <3>2. size \in FieldSizes /\ AreFields(f, size)
          /\ head \in Seq(Byte) /\ body = head \o Joined(f, size)
      BY <1>9, <1>10, <3>1
    <3>3. FieldsBehind(body, head, f, size)
      BY <3>2, FieldOfJoined
    <3> QED
      BY <2>1, <3>1, <3>3 DEF FieldsBehind
  <2>3. Len(head) + 13 * (k - 1) + 1 = 5 + 13 * (k - 1) /\ Len(head) + 13 * k = 4 + 13 * k
    BY <1>5
  <2> QED
    BY <2>2, <2>3
<1>12. PICK j : j = Joined(f, 13)
  OBVIOUS
<1>13. j \in Seq(Byte)
  <2>1. HoldsFields(j, f, 13)
    BY <1>9, <1>12, JoinedRead
  <2> QED
    BY <2>1 DEF HoldsFields
<1>14. head \in Seq(Byte) /\ body = head \o j
  BY <1>10, <1>12
<1>15. /\ body \in Seq(Byte) /\ Len(body) = Len(head) + Len(j)
       /\ \A k \in 1 .. Len(head) : body[k] = head[k]
  BY <1>13, <1>14, CatRead
<1>16. NumUpdates(body) = n
  <2>1. body[1] = n
    BY <1>5, <1>15
  <2> QED
    BY <2>1 DEF NumUpdates
<1> QED
  BY <1>3, <1>7, <1>11, <1>15, <1>16

\* Staging an update puts the value of every parameter into its register, and leaves
\* the other registers alone.
LEMMA StagedRead ==
  ASSUME NEW a \in {"vanilla", "scubic", "neo"}, NEW action \in [Names(a) -> U64],
         NEW order \in FieldOrders(a), NEW r \in 0 .. 3
  PROVE  /\ \A name \in Names(a) : Register(a, name) = r =>
               Staged(UpdateBody(a, action, order))[r] = action[name]
         /\ ~ (\E name \in Names(a) : Register(a, name) = r) =>
               Staged(UpdateBody(a, action, order))[r] = control_registers[r]
<1>1. PICK body : body = UpdateBody(a, action, order)
  OBVIOUS
<1>2. /\ NumUpdates(body) = Len(order)
      /\ \A k \in 1 .. Len(order) :
            SubSeq(body, 5 + 13 * (k - 1), 4 + 13 * k) = Field(a, action, order[k])
  BY <1>1, UpdateRead
<1> DEFINE updates == {SubSeq(body, 5 + 13 * (k - 1), 4 + 13 * k) : k \in 1 .. NumUpdates(body)}
<1>3. \A u \in updates : \E name \in Names(a) : u = Field(a, action, name)
  <2>1. \A k \in 1 .. Len(order) : order[k] \in Names(a)
    BY OrderType
  <2> QED
    BY <1>2, <2>1
<1>4. \A name \in Names(a) : /\ Field(a, action, name)[1] = VOLATILE_CONTROL_REG
                             /\ Field(a, action, name)[2] = Register(a, name)
                             /\ SubSeq(Field(a, action, name), 6, 13) = action[name]
  <2> SUFFICES ASSUME NEW name \in Names(a)
               PROVE  /\ Field(a, action, name)[1] = VOLATILE_CONTROL_REG
                      /\ Field(a, action, name)[2] = Register(a, name)
                      /\ SubSeq(Field(a, action, name), 6, 13) = action[name]
    OBVIOUS
  <2>1. PICK x \in 0 .. 3, v \in U64 : x = Register(a, name) /\ v = action[name]
    BY RegistersDiffer
  <2>2. PICK f : f = <<VOLATILE_CONTROL_REG>> \o Bytes(x, 4) \o v
    OBVIOUS
  <2>3. f[1] = VOLATILE_CONTROL_REG /\ f[2] = x /\ SubSeq(f, 6, 13) = v
    <3>1. FieldHolds(f, x, v)
      BY <2>2, FieldRead
    <3> QED
      BY <3>1 DEF FieldHolds
  <2>4. f = Field(a, action, name)
    BY <2>1, <2>2 DEF Field
  <2> QED
    BY <2>1, <2>3, <2>4
<1> DEFINE Hit(u) == u[1] = VOLATILE_CONTROL_REG /\ u[2] = r
<1>5. Staged(body)[r] = IF \E u \in updates : Hit(u)
                          THEN SubSeq(CHOOSE u \in updates : u[2] = r, 6, 13)
                          ELSE control_registers[r]
  BY DEF Staged
<1>6. CASE \E u \in updates : Hit(u)
  <2>1. PICK c : c = CHOOSE u \in updates : u[2] = r
    OBVIOUS
  <2>2. c \in updates /\ c[2] = r
    <3>1. \E u \in updates : u[2] = r
      BY <1>6
    <3> HIDE DEF updates
    <3> QED
      BY <2>1, <3>1
  <2>3. Staged(body)[r] = SubSeq(c, 6, 13)
    <3> HIDE DEF updates, Hit
    <3> QED
      BY <1>5, <1>6, <2>1
  <2>4. PICK name \in Names(a) : c = Field(a, action, name)
    <3> HIDE DEF updates
    <3> QED
      BY <1>3, <2>2
  <2>5. Register(a, name) = r /\ Staged(body)[r] = action[name]
    BY <1>4, <2>2, <2>3, <2>4
  <2> QED
    BY <1>1, <2>5, RegistersDiffer
<1>7. CASE ~ \E u \in updates : Hit(u)
  <2>1. Staged(body)[r] = control_registers[r]
    <3> HIDE DEF updates, Hit
    <3> QED
      BY <1>5, <1>7
  <2>2. ASSUME NEW name \in Names(a), Register(a, name) = r
        PROVE  FALSE
    <3>1. PICK k \in 1 .. Len(order) : order[k] = name
      BY OrderType
    <3>2. SubSeq(body, 5 + 13 * (k - 1), 4 + 13 * k) = Field(a, action, name)
      BY <1>2, <3>1
    <3>3. Field(a, action, name) \in updates
      BY <1>2, <3>2
    <3>4. Hit(Field(a, action, name))
      BY <1>4, <2>2
    <3> QED
      BY <1>7, <3>3, <3>4
  <2> QED
    BY <1>1, <2>1, <2>2
<1> QED
  BY <1>6, <1>7

-----------------------------------------------------------------------------
(* Whole messages *)

LEMMA SentRead ==
  ASSUME NEW type \in Byte, NEW body \in Seq(Byte), NEW sid \in U32, NEW m
  PROVE  m = Sent(type, body, sid) /\ m # <<>>
         => Carries(m, type, sid, body)
<1>1. SUFFICES ASSUME m = Sent(type, body, sid), m # <<>>
               PROVE  Carries(m, type, sid, body)
  OBVIOUS
<1>2. PICK len \in Nat : len = 8 + Len(body)
  OBVIOUS
<1>3. m = Header(type, len, sid) \o body
  BY <1>1, <1>2 DEF Sent
<1> QED
  BY <1>3, MessageRead

LEMMA WrittenRead ==
  ASSUME NEW type \in Byte, NEW body \in Seq(Byte), NEW sid \in U32, NEW m,
         NEW bufsize \in Nat
  PROVE  m = Written(type, body, sid, bufsize) /\ m # <<>>
         => Carries(m, type, sid, body) /\ 8 + Len(body) <= bufsize
<1>1. SUFFICES ASSUME m = Written(type, body, sid, bufsize), m # <<>>
               PROVE  Carries(m, type, sid, body) /\ 8 + Len(body) <= bufsize
  OBVIOUS
<1>2. PICK len \in Nat : len = 8 + Len(body)
  OBVIOUS
<1>3. m = Header(type, len, sid) \o body /\ Len(m) <= bufsize
  BY <1>1, <1>2 DEF Written
<1>4. Carries(m, type, sid, body)
  BY <1>3, MessageRead
<1> QED
  BY <1>3, <1>4 DEF Carries

\* The port of a CREATE is found where spine.py unpacks it.
LEMMA CreateRead ==
  ASSUME NEW port \in [1 .. 2 -> Byte], NEW b
  PROVE  b = CreateBody(port)
         => b \in Seq(Byte) /\ SubSeq(b, 21, 24) = <<port[1], port[2], 0, 0>>
<1>1. SUFFICES ASSUME b = CreateBody(port)
               PROVE  b \in Seq(Byte) /\ SubSeq(b, 21, 24) = <<port[1], port[2], 0, 0>>
  OBVIOUS
<1>2. PICK x : x = Bytes(0, 20)
  OBVIOUS
<1>3. PICK p : p = <<port[1], port[2], 0, 0>>
  OBVIOUS
<1>4. PICK y : y = Bytes(0, 64)
  OBVIOUS
<1>5. x \in Seq(Byte) /\ Len(x) = 20
  <2>1. x \in [1 .. 20 -> Byte]
    BY <1>2 DEF Bytes, Byte
  <2>2. 20 \in Nat
    OBVIOUS
  <2> QED
    BY <2>1, <2>2, WordSeq
<1>6. y \in Seq(Byte)
  <2>1. y \in [1 .. 64 -> Byte]
    BY <1>4 DEF Bytes, Byte
  <2>2. 64 \in Nat
    OBVIOUS
  <2> QED
    BY <2>1, <2>2, WordSeq
<1>7. p \in Seq(Byte) /\ Len(p) = 4
  BY <1>3 DEF Byte
<1>8. PICK xp : xp = x \o p
  OBVIOUS
<1>9. x \in Seq(Byte) /\ p \in Seq(Byte)
  BY <1>5, <1>7
<1>10. /\ xp \in Seq(Byte) /\ Len(xp) = Len(x) + Len(p)
       /\ \A k \in 1 .. Len(p) : xp[Len(x) + k] = p[k]
  BY <1>8, <1>9, CatRead
<1>11. xp \in Seq(Byte) /\ b = xp \o y
  BY <1>1, <1>2, <1>3, <1>4, <1>8, <1>10 DEF CreateBody
<1>12. /\ b \in Seq(Byte) /\ Len(b) = Len(xp) + Len(y)
       /\ \A k \in 1 .. Len(xp) : b[k] = xp[k]
  BY <1>6, <1>11, CatRead
<1>13. Len(xp) = 24 /\ \A k \in 1 .. 4 : xp[20 + k] = p[k]
  BY <1>5, <1>7, <1>10
<1>14. PICK first \in Nat, last \in Nat : first = 21 /\ last = 24
  OBVIOUS
<1>15. last <= Len(b)
  <2>1. Len(y) \in Nat
    BY <1>6
  <2> QED
    BY <1>12, <1>13, <1>14, <2>1
<1>16. \A k \in 1 .. 4 : b[20 + k] = p[k]
  <2>1. \A k \in 1 .. 4 : 20 + k \in 1 .. 24
    OBVIOUS
  <2> QED
    BY <1>12, <1>13, <2>1
<1>17. /\ b \in Seq(Byte) /\ p \in Seq(Byte)
       /\ first >= 1 /\ first + Len(p) = last + 1 /\ last <= Len(b)
       /\ \A k \in 1 .. Len(p) : b[first - 1 + k] = p[k]
  BY <1>7, <1>12, <1>14, <1>15, <1>16
<1>18. SubSeq(b, first, last) = p
  BY <1>17, PartIs, ZenonT(30)
<1> QED
  BY <1>3, <1>12, <1>14, <1>18

\* A number below 2^16 is what its first two bytes say.
LEMMA TwoBytes ==
  \A n \in Nat : n < 65536 => (n % 256) + 256 * ((n \div 256) % 256) = n
OBVIOUS

\* The id and the measurements of a reply are found where message.py looks for them.
LEMMA MeasureRead ==
  ASSUME NEW id \in U32, NEW data \in Seq(U64), NEW b
  PROVE  b = MeasureBody(id, data)
         => /\ b \in Seq(Byte) /\ SubSeq(b, 1, 4) = id
            /\ 8 + Len(b) <= REPORT_MSG_SIZE => MeasureData(b) = data
<1>1. SUFFICES ASSUME b = MeasureBody(id, data)
               PROVE  /\ b \in Seq(Byte) /\ SubSeq(b, 1, 4) = id
                      /\ 8 + Len(b) <= REPORT_MSG_SIZE => MeasureData(b) = data
  OBVIOUS
<1>2. PICK n \in Nat : n = Len(data)
  OBVIOUS
<1>3. PICK w : w = Bytes(n, 4)
  OBVIOUS
<1>4. w \in [1 .. 4 -> Byte] /\ w[1] = n % 256 /\ w[2] = (n \div 256) % 256
  BY <1>3, WordRead
<1>5. w \in Seq(Byte) /\ id \in Seq(Byte)
  BY <1>4, WordSeq DEF U32, Byte
<1>6. Len(w) = 4 /\ Len(id) = 4
  BY <1>4, WordSeq DEF U32, Byte
<1>7. PICK head : head = id \o w
  OBVIOUS
<1>8. /\ head \in Seq(Byte) /\ Len(head) = Len(id) + Len(w)
      /\ \A k \in 1 .. Len(id) : head[k] = id[k]
      /\ \A k \in 1 .. Len(w) : head[Len(id) + k] = w[k]
  BY <1>5, <1>7, CatRead
<1>9. Len(head) = 8
  BY <1>6, <1>8
<1>10. head[5] = n % 256 /\ head[6] = (n \div 256) % 256
  <2>1. head[4 + 1] = w[1] /\ head[4 + 2] = w[2]
    BY <1>6, <1>8
  <2> QED
    BY <1>4, <2>1
<1>11. PICK size : size = 8
  OBVIOUS
<1>12. /\ size \in FieldSizes /\ AreFields(data, size)
       /\ head \in Seq(Byte) /\ b = head \o Joined(data, size)
  <2>1. size \in FieldSizes
    BY <1>11 DEF FieldSizes
  <2>2. Len(data) \in Nat /\ \A k \in 1 .. Len(data) : data[k] \in U64
    OBVIOUS
  <2>3. AreFields(data, size)
    BY <1>11, <2>2 DEF AreFields, U64, Byte
  <2>4. b = head \o Joined(data, size)
    BY <1>1, <1>2, <1>3, <1>7, <1>11 DEF MeasureBody
  <2> QED
    BY <1>8, <2>1, <2>3, <2>4
<1>13. FieldsBehind(b, head, data, size)
  BY <1>12, FieldOfJoined
<1>14. /\ b \in Seq(Byte) /\ Len(b) = 8 + 8 * n
       /\ \A k \in 1 .. 8 : b[k] = head[k]
       /\ \A k \in 1 .. n : SubSeq(b, 8 + 8 * (k - 1) + 1, 8 + 8 * k) = data[k]
  BY <1>2, <1>9, <1>11, <1>13 DEF FieldsBehind
<1>15. SubSeq(b, 1, 4) = id
  <2>1. PICK first \in Nat, last \in Nat : first = 1 /\ last = 4
    OBVIOUS
  <2>2. last <= Len(b)
    BY <1>14, <2>1
  <2>3. \A k \in 1 .. 4 : b[k] = id[k]
    <3>1. \A k \in 1 .. 4 : k \in 1 .. 8
      OBVIOUS
    <3> QED
      BY <1>6, <1>8, <1>14, <3>1
  <2>4. /\ b \in Seq(Byte) /\ id \in Seq(Byte)
        /\ first >= 1 /\ first + Len(id) = last + 1 /\ last <= Len(b)
        /\ \A k \in 1 .. Len(id) : b[first - 1 + k] = id[k]
    BY <1>5, <1>6, <1>14, <2>1, <2>2, <2>3
  <2>5. SubSeq(b, first, last) = id
    BY <2>4, PartIs, ZenonT(30)
  <2> QED
    BY <2>1, <2>5
<1>16. ASSUME 8 + Len(b) <= REPORT_MSG_SIZE
       PROVE  MeasureData(b) = data
  <2>1. b[5] + 256 * b[6] = n
    <3>1. n < 65536
      BY <1>14, <1>16 DEF REPORT_MSG_SIZE
    <3>2. b[5] = n % 256 /\ b[6] = (n \div 256) % 256
      BY <1>10, <1>14
    <3> QED
      BY <3>1, <3>2, TwoBytes
  <2>2. MeasureData(b) = [k \in 1 .. n |-> SubSeq(b, 8 * k + 1, 8 * k + 8)]
    <3>1. ~(Len(b) < 8 + 8 * n)
      BY <1>14
    <3> QED
      BY <2>1, <3>1 DEF MeasureData
  <2>3. \A k \in 1 .. n : SubSeq(b, 8 * k + 1, 8 * k + 8) = data[k]
    <3> SUFFICES ASSUME NEW k \in 1 .. n  PROVE SubSeq(b, 8 * k + 1, 8 * k + 8) = data[k]
      OBVIOUS
    <3>1. 8 + 8 * (k - 1) + 1 = 8 * k + 1 /\ 8 + 8 * k = 8 * k + 8
      OBVIOUS
    <3> QED
      BY <1>14, <3>1
  <2>4. data = [k \in 1 .. n |-> data[k]]
    BY <1>2
  <2> QED
    BY <2>2, <2>3, <2>4
<1> QED
  BY <1>14, <1>15, <1>16

LEMMA SignedCharType ==
  ASSUME NEW id \in U32
  PROVE  SignedChar(id) \in U32
BY DEF U32, SignedChar

-----------------------------------------------------------------------------
(* The invariant *)

Actions == [Names(alg) -> Values[alg]]
Connections == [sid : ConnSids, port : Ports]

\* What is under way to the kernel was sent for its connection: an update with an action
\* of the environment, or a request of its.
ToKernelPart ==
    to_kernel # <<>> =>
        /\ conn \in Connections
        /\ \/ \E action \in sent, order \in FieldOrders(alg) :
                 to_kernel = Sent(NL_UPDATE_FIELDS, UpdateBody(alg, action, order), conn.sid)
           \/ \E id \in asked : to_kernel = Sent(NL_MEASURE, id, conn.sid)

\* What is under way to the controller is the CREATE of the connection or a reply to a
\* request, with measurements that were taken.
ToUserPart ==
    to_user # <<>> =>
        /\ conn \in Connections
        /\ \/ to_user = Written(NL_CREATE, CreateBody(conn.port), conn.sid, CREATE_MSG_SIZE)
           \/ \E id \in asked, data \in fetched :
                 to_user = Written(NL_MEASURE, MeasureBody(SignedChar(id), data), conn.sid,
                                   REPORT_MSG_SIZE)

\* Nothing is pending, or one whole action, each of its values in the register message.py
\* numbers so.
Pending(action) ==
    \A r \in 0 .. 3 :
        /\ \A name \in Names(alg) : Register(alg, name) = r => control_registers[r] = action[name]
        /\ ~ (\E name \in Names(alg) : Register(alg, name) = r) => control_registers[r] = None
StagedPart ==
    /\ (\A r \in 0 .. 3 : control_registers[r] = None) \/ \E action \in sent : Pending(action)
    /\ measure_register # None => \E id \in asked : measure_register = SignedChar(id)

TypePart ==
    /\ alg \in {"vanilla", "scubic", "neo"} /\ alg \in Algs
    /\ conn \in Connections \cup {None}
    /\ known # None => conn \in Connections
    /\ reply # None => conn \in Connections
    /\ asked \subseteq U32 /\ fetched \subseteq Seq(U64)
    /\ sent \subseteq Actions

CodecInv ==
    /\ TypePart /\ ToKernelPart /\ ToUserPart /\ StagedPart
    /\ ParametersReachTheirField /\ ReadBack

LEMMA InitCodec == Init => CodecInv
<1> SUFFICES ASSUME Init PROVE CodecInv
  OBVIOUS
<1>1. TypePart
  BY AlgsAssumption DEF Init, TypePart, Actions
<1>2. ToKernelPart /\ ToUserPart
  BY DEF Init, ToKernelPart, ToUserPart
<1>3. StagedPart
  BY DEF Init, StagedPart
<1>4. ParametersReachTheirField
  BY DEF Init, ParametersReachTheirField, Meant
<1>5. ReadBack
  BY DEF Init, ReadBack, PortReadBack, MeasurementReadBack
<1> QED
  BY <1>1, <1>2, <1>3, <1>4, <1>5 DEF CodecInv

LEMMA StartKeeps ==
  ASSUME CodecInv, NEW sid \in ConnSids, NEW port \in Ports, ConnectionStart(sid, port)
  PROVE  CodecInv'
<1> USE DEF ConnectionStart, staged, history
<1>1. conn' \in Connections /\ conn'.port = port /\ conn'.sid = sid
  BY DEF Connections
<1>2. known = None /\ reply = None /\ to_kernel = <<>>
  BY NoneAssumption DEF CodecInv, TypePart, Connections, ToKernelPart
<1>3. TypePart'
  BY <1>1, <1>2 DEF CodecInv, TypePart, Connections, Actions
<1>4. ToKernelPart'
  BY <1>2 DEF ToKernelPart
<1>5. ToUserPart'
  BY <1>1 DEF ToUserPart, Connections
<1>6. StagedPart'
  BY DEF CodecInv, StagedPart, Pending
<1>7. ParametersReachTheirField'
  BY DEF CodecInv, ParametersReachTheirField, Meant
<1>8. ReadBack'
  BY <1>2 DEF ReadBack, PortReadBack, MeasurementReadBack
<1> QED
  BY <1>3, <1>4, <1>5, <1>6, <1>7, <1>8 DEF CodecInv

\* The words of a connection
LEMMA ConnectionWords ==
  ASSUME NEW c \in Connections
  PROVE  c.sid \in U32 /\ c.port \in [1 .. 2 -> Byte]
BY WordsAssumption DEF Connections, Byte

\* The type tells a CREATE from a reply.
LEMMA WhatIsRead ==
  ASSUME TypePart, ToUserPart, to_user # <<>>
  PROVE  /\ TypeOf(to_user) = NL_CREATE =>
               Carries(to_user, NL_CREATE, conn.sid, CreateBody(conn.port))
         /\ TypeOf(to_user) = NL_MEASURE =>
               \E id \in asked, data \in fetched :
                  /\ Carries(to_user, NL_MEASURE, conn.sid, MeasureBody(SignedChar(id), data))
                  /\ 8 + Len(MeasureBody(SignedChar(id), data)) <= REPORT_MSG_SIZE
<1>1. conn \in Connections /\ conn.sid \in U32 /\ conn.port \in [1 .. 2 -> Byte]
  BY ConnectionWords DEF ToUserPart
<1>2. CASE to_user = Written(NL_CREATE, CreateBody(conn.port), conn.sid, CREATE_MSG_SIZE)
  <2>1. PICK body \in Seq(Byte) : body = CreateBody(conn.port)
    BY <1>1, CreateRead
  <2>2. NL_CREATE \in Byte /\ CREATE_MSG_SIZE \in Nat /\ NL_CREATE # NL_MEASURE
    BY DEF NL_CREATE, NL_MEASURE, CREATE_MSG_SIZE, Byte
  <2>3. Carries(to_user, NL_CREATE, conn.sid, body)
    BY <1>1, <1>2, <2>1, <2>2, WrittenRead
  <2> QED
    BY <2>1, <2>2, <2>3 DEF Carries
<1>3. ASSUME NEW id \in asked, NEW data \in fetched,
             to_user = Written(NL_MEASURE, MeasureBody(SignedChar(id), data), conn.sid,
                               REPORT_MSG_SIZE)
      PROVE  /\ Carries(to_user, NL_MEASURE, conn.sid, MeasureBody(SignedChar(id), data))
             /\ 8 + Len(MeasureBody(SignedChar(id), data)) <= REPORT_MSG_SIZE
             /\ TypeOf(to_user) # NL_CREATE
  <2>1. id \in U32 /\ data \in Seq(U64)
    BY DEF TypePart
  <2>2. SignedChar(id) \in U32
    BY <2>1, SignedCharType
  <2>3. PICK body \in Seq(Byte) : body = MeasureBody(SignedChar(id), data)
    BY <2>1, <2>2, MeasureRead
  <2>4. NL_MEASURE \in Byte /\ REPORT_MSG_SIZE \in Nat /\ NL_CREATE # NL_MEASURE
    BY DEF NL_CREATE, NL_MEASURE, REPORT_MSG_SIZE, Byte
  <2>5. to_user = Written(NL_MEASURE, body, conn.sid, REPORT_MSG_SIZE)
    BY <1>3, <2>3
  <2>6. Carries(to_user, NL_MEASURE, conn.sid, body) /\ 8 + Len(body) <= REPORT_MSG_SIZE
    BY <1>1, <2>4, <2>5, WrittenRead
  <2> QED
    BY <2>3, <2>4, <2>6 DEF Carries
<1> QED
  BY <1>2, <1>3 DEF ToUserPart

LEMMA ReadCreateKeeps ==
  ASSUME CodecInv, ReadCreate
  PROVE  CodecInv'
<1> USE DEF ReadCreate, staged, history
<1>1. Carries(to_user, NL_CREATE, conn.sid, CreateBody(conn.port)) /\ conn \in Connections
  BY WhatIsRead DEF CodecInv, ToUserPart
<1>2. SidOf(to_user) = conn.sid
      /\ SubSeq(Body(to_user), 21, 24) = <<conn.port[1], conn.port[2], 0, 0>>
  <2>1. SubSeq(CreateBody(conn.port), 21, 24) = <<conn.port[1], conn.port[2], 0, 0>>
    BY <1>1, ConnectionWords, CreateRead
  <2> QED
    BY <1>1, <2>1 DEF Carries
<1>3. PortReadBack'
  <2>1. known'.sock_id = conn.sid
    BY <1>2
  <2>2. known'.dst_port = U32FromBytes(<<conn.port[1], conn.port[2], 0, 0>>)
    BY <1>2
  <2>3. U32FromBytes(<<conn.port[1], conn.port[2], 0, 0>>) = <<conn.port[2], conn.port[1], 0, 0>>
    BY DEF U32FromBytes
  <2> QED
    BY <2>1, <2>2, <2>3 DEF PortReadBack
<1>4. MeasurementReadBack'
  BY DEF CodecInv, ReadBack, MeasurementReadBack
<1>5. TypePart' /\ ToUserPart' /\ StagedPart'
  BY <1>1 DEF CodecInv, TypePart, ToUserPart, StagedPart, Connections, Actions, Pending
<1>6. ToKernelPart'
  BY DEF CodecInv, ToKernelPart, Actions, Connections
<1>7. ParametersReachTheirField'
  BY DEF CodecInv, ParametersReachTheirField, Meant
<1> QED
  BY <1>3, <1>4, <1>5, <1>7, <1>6 DEF CodecInv, ReadBack

\* More actions sent, more requests made and more measurements taken
LEMMA HistoryGrows ==
  ASSUME CodecInv, UNCHANGED <<alg, conn, known, in_effect, reply>>,
         sent \subseteq sent', asked \subseteq asked', fetched \subseteq fetched'
  PROVE  ParametersReachTheirField' /\ ReadBack'
<1>1. ParametersReachTheirField'
  BY DEF CodecInv, ParametersReachTheirField, Meant
<1>2. PortReadBack'
  BY DEF CodecInv, ReadBack, PortReadBack
<1>3. MeasurementReadBack'
  BY DEF CodecInv, ReadBack, MeasurementReadBack
<1> QED
  BY <1>1, <1>2, <1>3 DEF ReadBack

LEMMA SendActionKeeps ==
  ASSUME CodecInv, NEW action \in Actions, NEW order \in FieldOrders(alg),
         SendAction(action, order)
  PROVE  CodecInv'
<1> USE DEF SendAction, sides, staged
<1>1. sent \subseteq sent' /\ action \in sent' /\ sent' \subseteq Actions
  BY DEF CodecInv, TypePart
<1>2. known.sock_id = conn.sid /\ conn \in Connections
  BY DEF CodecInv, TypePart, ReadBack, PortReadBack
<1>3. TypePart'
  BY <1>1 DEF CodecInv, TypePart, Connections, Actions
<1>4. ToKernelPart'
  <2>1. to_kernel' = Sent(NL_UPDATE_FIELDS, UpdateBody(alg, action, order), conn.sid)
    BY <1>2
  <2> QED
    BY <1>1, <1>2, <2>1 DEF ToKernelPart, Connections
<1>5. ToUserPart'
  BY DEF CodecInv, ToUserPart, Connections
<1>6. StagedPart'
  BY <1>1 DEF CodecInv, StagedPart, Pending
<1>7. ParametersReachTheirField' /\ ReadBack'
  BY <1>1, HistoryGrows
<1> QED
  BY <1>3, <1>4, <1>5, <1>6, <1>7 DEF CodecInv

LEMMA SendRequestKeeps ==
  ASSUME CodecInv, NEW id \in RequestIds, SendRequest(id)
  PROVE  CodecInv'
<1> USE DEF SendRequest, sides, staged
<1>1. known.sock_id = conn.sid /\ conn \in Connections
  BY DEF CodecInv, TypePart, ReadBack, PortReadBack
<1>2. TypePart'
  BY WordsAssumption DEF CodecInv, TypePart, Connections, Actions
<1>3. ToKernelPart'
  BY <1>1 DEF ToKernelPart, Connections
<1>4. ToUserPart'
  BY DEF CodecInv, ToUserPart, Connections
<1>5. StagedPart'
  BY DEF CodecInv, StagedPart, Pending
<1>6. ParametersReachTheirField' /\ ReadBack'
  BY HistoryGrows
<1> QED
  BY <1>2, <1>3, <1>4, <1>5, <1>6 DEF CodecInv

\* An update or a request, read off the wire
LEMMA WhatIsSent ==
  ASSUME TypePart, ToKernelPart, to_kernel # <<>>
  PROVE  /\ TypeOf(to_kernel) = NL_UPDATE_FIELDS =>
               \E action \in sent, order \in FieldOrders(alg) :
                  Body(to_kernel) = UpdateBody(alg, action, order)
         /\ TypeOf(to_kernel) = NL_MEASURE => \E id \in asked : Body(to_kernel) = id
<1>1. conn \in Connections /\ conn.sid \in U32
  BY ConnectionWords DEF ToKernelPart
<1>2. NL_UPDATE_FIELDS \in Byte /\ NL_MEASURE \in Byte /\ NL_UPDATE_FIELDS # NL_MEASURE
  BY DEF NL_UPDATE_FIELDS, NL_MEASURE, Byte
<1>3. ASSUME NEW action \in sent, NEW order \in FieldOrders(alg),
             to_kernel = Sent(NL_UPDATE_FIELDS, UpdateBody(alg, action, order), conn.sid)
      PROVE  /\ Body(to_kernel) = UpdateBody(alg, action, order)
             /\ TypeOf(to_kernel) = NL_UPDATE_FIELDS
  <2>1. action \in [Names(alg) -> U64] /\ alg \in {"vanilla", "scubic", "neo"}
    BY WordsAssumption DEF Actions, TypePart
  <2>2. PICK body \in Seq(Byte) : body = UpdateBody(alg, action, order)
    BY <2>1, UpdateRead
  <2>3. to_kernel = Sent(NL_UPDATE_FIELDS, body, conn.sid)
    BY <1>3, <2>2
  <2>4. Carries(to_kernel, NL_UPDATE_FIELDS, conn.sid, body)
    BY <1>1, <1>2, <2>3, SentRead
  <2> QED
    BY <2>2, <2>4 DEF Carries
<1>4. ASSUME NEW id \in asked, to_kernel = Sent(NL_MEASURE, id, conn.sid)
      PROVE  Body(to_kernel) = id /\ TypeOf(to_kernel) = NL_MEASURE
  <2>1. id \in Seq(Byte)
    <3>1. id \in [1 .. 4 -> Byte] /\ 4 \in Nat
      BY DEF TypePart, U32, Byte
    <3> QED
      BY <3>1, WordSeq
  <2>2. Carries(to_kernel, NL_MEASURE, conn.sid, id)
    BY <1>1, <1>2, <1>4, <2>1, SentRead
  <2> QED
    BY <2>2 DEF Carries
<1> QED
  BY <1>2, <1>3, <1>4 DEF ToKernelPart

LEMMA ReadMsgKeeps ==
  ASSUME CodecInv, ReadMsg
  PROVE  CodecInv'
<1> USE DEF ReadMsg, sides, history
<1>1. TypePart' /\ ToKernelPart' /\ ToUserPart'
  BY DEF CodecInv, TypePart, ToKernelPart, ToUserPart, Connections, Actions
<1>2. ParametersReachTheirField' /\ ReadBack'
  BY HistoryGrows
<1>3. (\A r \in 0 .. 3 : control_registers'[r] = None) \/ \E action \in sent' : Pending(action)'
  <2>1. CASE control_registers' = control_registers
    BY <2>1 DEF CodecInv, StagedPart, Pending
  <2>2. CASE /\ TypeOf(to_kernel) = NL_UPDATE_FIELDS
             /\ control_registers' = Staged(Body(to_kernel))
    <3>1. PICK action \in sent, order \in FieldOrders(alg) :
            Body(to_kernel) = UpdateBody(alg, action, order)
      BY <2>2, WhatIsSent DEF CodecInv
    <3>2. action \in [Names(alg) -> U64] /\ alg \in {"vanilla", "scubic", "neo"}
      BY WordsAssumption DEF Actions, CodecInv, TypePart
    <3>3. ASSUME NEW r \in 0 .. 3
          PROVE  /\ \A name \in Names(alg) : Register(alg, name) = r =>
                       control_registers'[r] = action[name]
                 /\ ~ (\E name \in Names(alg) : Register(alg, name) = r) =>
                       control_registers'[r] = None
      <4>1. control_registers'[r] = Staged(UpdateBody(alg, action, order))[r]
        BY <2>2, <3>1
      <4>2. /\ \A name \in Names(alg) : Register(alg, name) = r =>
                  control_registers'[r] = action[name]
            /\ ~ (\E name \in Names(alg) : Register(alg, name) = r) =>
                  control_registers'[r] = control_registers[r]
        BY <3>2, <4>1, StagedRead
      <4>3. ~ (\E name \in Names(alg) : Register(alg, name) = r) => control_registers[r] = None
        BY DEF CodecInv, StagedPart, Pending
      <4> QED
        BY <4>2, <4>3
    <3> QED
      BY <3>1, <3>3 DEF Pending
  <2> QED
    BY <2>1, <2>2 DEF Accepted
<1>4. ASSUME measure_register' # None
      PROVE  \E id \in asked : measure_register' = SignedChar(id)
  <2>1. CASE measure_register' = measure_register
    BY <1>4, <2>1 DEF CodecInv, StagedPart
  <2>2. CASE /\ TypeOf(to_kernel) = NL_MEASURE
             /\ measure_register' = SignedChar(Body(to_kernel))
    BY <2>2, WhatIsSent DEF CodecInv
  <2> QED
    BY <2>1, <2>2 DEF Accepted
<1>5. StagedPart'
  BY <1>3, <1>4 DEF StagedPart
<1> QED
  BY <1>1, <1>2, <1>5 DEF CodecInv

\* set_params, given an action by register, stores what the action means by name.
LEMMA SetParamsByName ==
  ASSUME alg \in {"vanilla", "scubic", "neo"}, NEW action, Pending(action),
         NEW params, params = [k \in 1 .. ParamNum(alg) |-> control_registers[k - 1]]
  PROVE  /\ SetParams(alg, params) = Meant(action)
         /\ (\A k \in 1 .. ParamNum(alg) : Passes(alg, params[k])) =>
               \A name \in Names(alg) : Passes(alg, action[name])
<1>1. \A r \in 0 .. 3, name \in Names(alg) :
        Register(alg, name) = r => control_registers[r] = action[name]
  BY DEF Pending
<1>2. CASE alg = "vanilla"
  <2>1. /\ control_registers[0] = action["alpha"] /\ control_registers[1] = action["beta"]
        /\ control_registers[2] = action["gamma"] /\ control_registers[3] = action["delta"]
    BY <1>1, <1>2 DEF Names, Register
  <2>2. /\ params[1] = action["alpha"] /\ params[2] = action["beta"]
        /\ params[3] = action["gamma"] /\ params[4] = action["delta"] /\ ParamNum(alg) = 4
    BY <1>2, <2>1 DEF ParamNum
  <2> QED
    BY <1>2, <2>2 DEF SetParams, Meant, Names
<1>3. CASE alg = "scubic"
  <2>1. control_registers[0] = action["bic_scale"] /\ control_registers[1] = action["beta"]
    BY <1>1, <1>3 DEF Names, Register
  <2>2. params[1] = action["bic_scale"] /\ params[2] = action["beta"] /\ ParamNum(alg) = 2
    BY <1>3, <2>1 DEF ParamNum
  <2> QED
    BY <1>3, <2>2 DEF SetParams, Meant, Names
<1>4. CASE alg = "neo"
  <2>1. control_registers[0] = action["action"]
    BY <1>1, <1>4 DEF Names, Register
  <2>2. params[1] = action["action"] /\ ParamNum(alg) = 1
    BY <1>4, <2>1 DEF ParamNum
  <2> QED
    BY <1>4, <2>2 DEF SetParams, Meant, Names
<1> QED
  BY <1>2, <1>3, <1>4

LEMMA InvokeKeeps ==
  ASSUME CodecInv, NEW data \in Measurements, Invoke(data)
  PROVE  CodecInv'
<1> USE DEF Invoke, sides
<1>1. conn \in Connections
  BY DEF CodecInv, TypePart
<1>2. TypePart'
  BY WordsAssumption DEF CodecInv, TypePart, Connections, Actions
<1>3. ToKernelPart'
  BY DEF CodecInv, ToKernelPart, Actions, Connections
<1>4. ToUserPart'
  <2>1. CASE measure_register = None
    BY <2>1 DEF ToUserPart
  <2>2. CASE measure_register # None
    <3>1. PICK id \in asked : measure_register = SignedChar(id)
      BY <2>2 DEF CodecInv, StagedPart, Pending
    <3>2. to_user' = Written(NL_MEASURE, MeasureBody(SignedChar(id), data), conn.sid,
                             REPORT_MSG_SIZE)
      BY <2>2, <3>1
    <3>3. data \in fetched'
      BY <2>2
    <3> QED
      BY <1>1, <3>1, <3>2, <3>3 DEF ToUserPart, Connections
  <2> QED
    BY <2>1, <2>2
<1>5. StagedPart'
  BY DEF StagedPart
<1>6. ReadBack'
  BY DEF CodecInv, ReadBack, PortReadBack, MeasurementReadBack
<1>7. ParametersReachTheirField'
  <2> DEFINE n == ParamNum(alg)
             params == [k \in 1 .. n |-> control_registers[k - 1]]
             passed == /\ \A k \in 1 .. n : params[k] # None
                       /\ n < 4 => control_registers[n] = None
                       /\ \A k \in 1 .. n : Passes(alg, params[k])
  <2>1. CASE ~passed
    <3>1. in_effect' = in_effect
      BY <2>1
    <3> QED
      BY <3>1 DEF CodecInv, ParametersReachTheirField, Meant
  <2>2. CASE passed
    <3>1. alg \in {"vanilla", "scubic", "neo"}
      BY DEF CodecInv, TypePart
    <3>2. n \in 1 .. 4
      BY <3>1 DEF ParamNum
    <3>3. control_registers[0] # None
      <4>1. params[1] # None /\ params[1] = control_registers[0]
        BY <2>2, <3>2
      <4> QED
        BY <4>1
    <3>4. PICK action \in sent : Pending(action)
      BY <3>3 DEF CodecInv, StagedPart
    <3>5. in_effect' = SetParams(alg, params)
      BY <2>2
    <3>6. PICK p : p = params
      OBVIOUS
    <3>7. /\ SetParams(alg, p) = Meant(action)
          /\ (\A k \in 1 .. ParamNum(alg) : Passes(alg, p[k])) =>
                \A name \in Names(alg) : Passes(alg, action[name])
      BY <3>1, <3>4, <3>6, SetParamsByName
    <3>8. in_effect' = Meant(action) /\ \A name \in Names(alg) : Passes(alg, action[name])
      BY <2>2, <3>5, <3>6, <3>7
    <3> QED
      BY <3>4, <3>8 DEF ParametersReachTheirField, Meant
  <2> QED
    BY <2>1, <2>2
<1> QED
  BY <1>2, <1>3, <1>4, <1>5, <1>6, <1>7 DEF CodecInv

LEMMA ReadMeasureKeeps ==
  ASSUME CodecInv, ReadMeasure
  PROVE  CodecInv'
<1> USE DEF ReadMeasure, sides, staged, history
<1>1. conn \in Connections
  BY DEF CodecInv, ToUserPart
<1>2. PICK id \in asked, data \in fetched :
        /\ Carries(to_user, NL_MEASURE, conn.sid, MeasureBody(SignedChar(id), data))
        /\ 8 + Len(MeasureBody(SignedChar(id), data)) <= REPORT_MSG_SIZE
  BY WhatIsRead DEF CodecInv
<1>3. id \in U32 /\ data \in Seq(U64) /\ SignedChar(id) \in U32
  BY SignedCharType DEF CodecInv, TypePart
<1>4. PICK body : body = MeasureBody(SignedChar(id), data)
  OBVIOUS
<1>5. SubSeq(body, 1, 4) = SignedChar(id) /\ MeasureData(body) = data
  BY <1>2, <1>3, <1>4, MeasureRead
<1>6. /\ reply'.sock_id = conn.sid /\ reply'.data = data
      /\ reply'.request_id = SignedChar(id)
  BY <1>2, <1>4, <1>5 DEF Carries
<1>7. /\ SignedChar(id)[1] = id[1]
      /\ id[1] < 128 /\ id[2] = 0 /\ id[3] = 0 /\ id[4] = 0 => SignedChar(id) = id
  BY <1>3 DEF SignedChar, U32
<1>8. MeasurementReadBack'
  BY <1>6, <1>7 DEF MeasurementReadBack
<1>9. PortReadBack'
  BY DEF CodecInv, ReadBack, PortReadBack
<1>10. TypePart' /\ ToUserPart' /\ StagedPart'
  BY <1>1 DEF CodecInv, TypePart, ToUserPart, StagedPart, Connections, Actions, Pending
<1>11. ToKernelPart'
  BY DEF CodecInv, ToKernelPart, Actions, Connections
<1>12. ParametersReachTheirField'
  BY DEF CodecInv, ParametersReachTheirField, Meant
<1> QED
  BY <1>8, <1>9, <1>10, <1>12, <1>11 DEF CodecInv, ReadBack

LEMMA CodecStep == CodecInv /\ [Next]_vars => CodecInv'
<1> SUFFICES ASSUME CodecInv, [Next]_vars PROVE CodecInv'
  OBVIOUS
<1>1. ASSUME NEW sid \in ConnSids, NEW port \in Ports, ConnectionStart(sid, port)
      PROVE  CodecInv'
  BY <1>1, StartKeeps
<1>2. CASE ReadCreate
  BY <1>2, ReadCreateKeeps
<1>3. ASSUME NEW action \in Actions, NEW order \in FieldOrders(alg), SendAction(action, order)
      PROVE  CodecInv'
  BY <1>3, SendActionKeeps
<1>4. ASSUME NEW id \in RequestIds, SendRequest(id)
      PROVE  CodecInv'
  BY <1>4, SendRequestKeeps
<1>5. CASE ReadMsg
  BY <1>5, ReadMsgKeeps
<1>6. ASSUME NEW data \in Measurements, Invoke(data)
      PROVE  CodecInv'
  BY <1>6, InvokeKeeps
<1>7. CASE ReadMeasure
  BY <1>7, ReadMeasureKeeps
<1>8. CASE UNCHANGED vars
  <2> USE <1>8 DEF vars, sides, staged, history
  <2>1. TypePart' /\ ToUserPart' /\ StagedPart'
    BY DEF CodecInv, TypePart, ToUserPart, StagedPart, Connections, Actions, Pending
  <2>2. ToKernelPart'
    BY DEF CodecInv, ToKernelPart, Actions, Connections
  <2>3. ParametersReachTheirField' /\ ReadBack'
    BY HistoryGrows
  <2> QED
    BY <2>1, <2>2, <2>3 DEF CodecInv
<1> QED
  BY <1>1, <1>2, <1>3, <1>4, <1>5, <1>6, <1>7, <1>8 DEF Next, Actions

THEOREM CodecInvHolds == Spec => []CodecInv
  BY InitCodec, CodecStep, PTL DEF Spec

\* The parameters a module runs with are those of one action of the environment, under the
\* names it gave them and within the limits set_params checks: the numbers of message.py and
\* the positions of set_params agree for each of the three modules and every order of the
\* fields, whatever the 64-bit values.
THEOREM ParametersArrive == Spec => []ParametersReachTheirField
<1>1. CodecInv => ParametersReachTheirField
  BY DEF CodecInv
<1> QED
  BY <1>1, CodecInvHolds, PTL

\* The controller reads back the socket id and the port of every connection, and of every
\* reply the measurements it was written from, however many and whatever they are.
THEOREM WritesAreReadBack == Spec => []ReadBack
<1>1. CodecInv => ReadBack
  BY DEF CodecInv
<1> QED
  BY <1>1, CodecInvHolds, PTL

=============================================================================
