------------------------------ MODULE UartProofs ------------------------------
(***************************************************************************)
(* The UART link proved for any length of a packet, any capacity of the    *)
(* lines and any bounds: the server's half, UartUplink, delivers what      *)
(* UartFeed promises, and the client's half, UartLink, which is fed by     *)
(* that promise, has types and shows what it would over TCP as long as     *)
(* every packet travels whole, and nothing older than it has shown even    *)
(* afterwards.                                                             *)
(*                                                                         *)
(* Two facts carry both halves.  Of the order: edits only ever move on,    *)
(* from the panel over the copy being written, the line, the board, the    *)
(* other line and the buffer to the field, and no place holds an edit      *)
(* older than one further on (Sorted, AtLeast, AtMost).  Bytes that are    *)
(* lost, cut off or misplaced do not disturb that.  Of the alignment: a    *)
(* line carries whole packets, one after the other (Whole), until a step   *)
(* that breaks one up, since all others put whole packets at its end and   *)
(* take whole ones off its front.                                          *)
(***************************************************************************)
EXTENDS UartLink, WellFoundedInduction, TLAPS

\* The server's half has variables of its own; it shares the history of edits with the
\* client's half, and the packets.
VARIABLES
  main, worker, m_isRunning, s_status, s_open, m_buf, temp_buf, up, board, buffer, link, s_exits

U == INSTANCE UartUplink WITH m_status <- s_status, open <- s_open, exits <- s_exits

-----------------------------------------------------------------------------
(* Lines cut into packets. *)

\* Where the packet after the first m ones begins; kept folded in what follows, so
\* that no proof has to multiply.
Off(m) == m * SBUFLEN

LEMMA OffFacts ==
  /\ Off(0) = 0 /\ Off(1) = SBUFLEN
  /\ \A m \in Nat : Off(m) \in Nat
  /\ \A m, q \in Nat : Off(m + q) = Off(m) + Off(q)
  /\ \A m, q \in Nat : Off(m) <= Off(q) => m <= q
<1>. USE LinkAssumption DEF Off
<1>1. Off(0) = 0 /\ Off(1) = SBUFLEN /\ \A m \in Nat : Off(m) \in Nat
  OBVIOUS
<1>2. \A m, q \in Nat : Off(m + q) = Off(m) + Off(q)
  OBVIOUS
<1>3. ASSUME NEW m \in Nat, NEW q \in Nat, Off(m) <= Off(q), ~(m <= q) PROVE FALSE
  <2>1. PICK d \in Nat : m = (q + 1) + d
    <3>1. m - (q + 1) \in Nat /\ m = (q + 1) + (m - (q + 1))
      BY <1>3
    <3>2. QED
      BY <3>1
  <2>2. Off(m) = Off(q + 1) + Off(d) /\ Off(q + 1) = Off(q) + SBUFLEN
    <3>1. q + 1 \in Nat
      OBVIOUS
    <3>2. QED
      BY <1>1, <1>2, <2>1, <3>1
  <2>3. QED
    BY <1>1, <1>3, <2>2
<1>4. QED
  BY <1>1, <1>2, <1>3

\* A number of bytes that SBUFLEN divides is that of some packets.
LEMMA OffOfWhole ==
  ASSUME NEW k \in Nat, k % SBUFLEN = 0
  PROVE  \E q \in Nat : k = Off(q)
<1>1. k \div SBUFLEN \in Nat /\ k = SBUFLEN * (k \div SBUFLEN) + (k % SBUFLEN)
  BY LinkAssumption
<1>2. k = Off(k \div SBUFLEN)
  BY <1>1, LinkAssumption DEF Off
<1>3. QED
  BY <1>1, <1>2

\* The line s carries whole packets, one after the other.
Whole(s) ==
  \E n \in Nat, ps \in [Nat -> Nat] :
    /\ Len(s) = Off(n)
    /\ \A m \in 1 .. n, i \in 1 .. SBUFLEN : s[Off(m - 1) + i] = F!Bytes(ps[m])[i]

LEMMA BytesType ==
  ASSUME NEW p \in Nat
  PROVE  /\ Len(F!Bytes(p)) = SBUFLEN
         /\ F!Bytes(p) \in Seq(Nat \X Nat)
         /\ \A i \in 1 .. SBUFLEN : F!Bytes(p)[i] = IF p = 0 THEN << 0, 0 >> ELSE << p, i >>
  BY LinkAssumption DEF F!Bytes, F!Place, F!ZeroByte

LEMMA WholeEmpty == Whole(<< >>)
<1>1. Len(<< >>) = Off(0) /\ [m \in Nat |-> 0] \in [Nat -> Nat]
  BY OffFacts
<1>2. 0 \in Nat /\ 1 .. 0 = {}
  OBVIOUS
<1>3. QED
  BY <1>1, <1>2, Zenon DEF Whole

\* Where the bytes of the m-th of n packets are.
LEMMA InPacket ==
  ASSUME NEW n \in Nat, NEW m \in 1 .. n, NEW i \in 1 .. SBUFLEN
  PROVE  /\ m - 1 \in Nat
         /\ Off(m - 1) + i \in 1 .. Off(n)
<1>1. m - 1 \in Nat /\ n - m \in Nat /\ m \in Nat /\ (m - 1) + 1 = m /\ m + (n - m) = n
  OBVIOUS
<1>2. Off(m) = Off(m - 1) + SBUFLEN /\ Off(n) = Off(m) + Off(n - m)
  <2>1. Off((m - 1) + 1) = Off(m - 1) + Off(1)
    BY <1>1, OffFacts
  <2>2. Off(m + (n - m)) = Off(m) + Off(n - m)
    BY <1>1, OffFacts
  <2>3. QED
    BY <1>1, <2>1, <2>2, OffFacts
<1>3. Off(m - 1) \in Nat /\ Off(n - m) \in Nat /\ SBUFLEN \in Nat
  BY <1>1, OffFacts, LinkAssumption
<1>4. QED
  BY <1>1, <1>2, <1>3

\* What a packet at the end of a line looks like.
LEMMA Appended ==
  ASSUME NEW T, NEW s \in Seq(T), NEW p \in Nat
  PROVE  /\ Len(s \o F!Bytes(p)) = Len(s) + SBUFLEN
         /\ \A j \in 1 .. Len(s) : (s \o F!Bytes(p))[j] = s[j]
         /\ \A i \in 1 .. SBUFLEN : (s \o F!Bytes(p))[Len(s) + i] = F!Bytes(p)[i]
<1>. DEFINE b == F!Bytes(p)
<1>1. b \in Seq(Nat \X Nat) /\ Len(b) = SBUFLEN /\ SBUFLEN \in Nat
  BY BytesType, LinkAssumption
<1>. HIDE DEF b
<1>2. Len(s \o b) = Len(s) + SBUFLEN /\ \A j \in 1 .. Len(s) : (s \o b)[j] = s[j]
  BY <1>1
<1>3. ASSUME NEW i \in 1 .. SBUFLEN PROVE (s \o b)[Len(s) + i] = b[i]
  BY <1>1
<1>4. QED
  BY <1>2, <1>3 DEF b

LEMMA WholeAppend ==
  ASSUME NEW T, NEW s \in Seq(T), NEW p \in Nat, Whole(s)
  PROVE  Whole(s \o F!Bytes(p))
<1>1. PICK n \in Nat, ps \in [Nat -> Nat] :
        /\ Len(s) = Off(n)
        /\ \A m \in 1 .. n, i \in 1 .. SBUFLEN : s[Off(m - 1) + i] = F!Bytes(ps[m])[i]
  BY DEF Whole
<1>. DEFINE t == s \o F!Bytes(p)
            qs == [m \in Nat |-> IF m \in 1 .. n THEN ps[m] ELSE p]
<1>2. qs \in [Nat -> Nat]
  OBVIOUS
<1>3. /\ Len(t) = Len(s) + SBUFLEN
      /\ \A j \in 1 .. Len(s) : t[j] = s[j]
      /\ \A i \in 1 .. SBUFLEN : t[Len(s) + i] = F!Bytes(p)[i]
  BY Appended
<1>. HIDE DEF t
<1>4. Len(t) = Off(n + 1)
  BY <1>1, <1>3, OffFacts
<1>5. ASSUME NEW m \in 1 .. n + 1, NEW i \in 1 .. SBUFLEN
      PROVE  t[Off(m - 1) + i] = F!Bytes(qs[m])[i]
  <2>1. CASE m \in 1 .. n
    <3>1. Off(m - 1) + i \in 1 .. Len(s)
      BY <1>1, <2>1, InPacket
    <3>2. t[Off(m - 1) + i] = s[Off(m - 1) + i]
      BY <1>3, <3>1
    <3>3. qs[m] = ps[m]
      BY <2>1
    <3>4. QED
      BY <1>1, <2>1, <3>2, <3>3
  <2>2. CASE m \notin 1 .. n
    <3>1. m = n + 1 /\ m - 1 = n
      BY <2>2
    <3>2. qs[m] = p
      BY <3>1, <2>2
    <3>3. Off(m - 1) = Len(s)
      BY <1>1, <3>1
    <3>4. t[Off(m - 1) + i] = F!Bytes(p)[i]
      BY <1>3, <3>3
    <3>5. QED
      BY <3>2, <3>4
  <2>3. QED
    BY <2>1, <2>2
<1>6. n + 1 \in Nat
  OBVIOUS
<1>7. QED
  <2>. HIDE DEF t, qs
  <2>1. Whole(t)
    BY <1>2, <1>4, <1>5, <1>6 DEF Whole
  <2>2. QED
    BY <2>1 DEF t

\* The first packet of a line can be taken off it, or any number of them.
LEMMA WholeFirst ==
  ASSUME NEW T, NEW s \in Seq(T), Whole(s), Len(s) >= SBUFLEN
  PROVE  \E p \in Nat : SubSeq(s, 1, SBUFLEN) = F!Bytes(p)
<1>1. PICK n \in Nat, ps \in [Nat -> Nat] :
        /\ Len(s) = Off(n)
        /\ \A m \in 1 .. n, i \in 1 .. SBUFLEN : s[Off(m - 1) + i] = F!Bytes(ps[m])[i]
  BY DEF Whole
<1>2. 1 \in 1 .. n
  <2>1. n # 0
    BY <1>1, OffFacts, LinkAssumption
  <2>2. QED
    BY <2>1
<1>3. ps[1] \in Nat /\ \A i \in 1 .. SBUFLEN : s[i] = F!Bytes(ps[1])[i]
  <2>1. \A i \in 1 .. SBUFLEN : Off(1 - 1) + i = i
    BY OffFacts, LinkAssumption
  <2>2. QED
    BY <1>1, <1>2, <2>1
<1>4. SubSeq(s, 1, SBUFLEN) = F!Bytes(ps[1])
  <2>1. SubSeq(s, 1, SBUFLEN) = [i \in 1 .. SBUFLEN |-> s[i]]
    BY LinkAssumption
  <2>2. F!Bytes(ps[1]) = [i \in 1 .. SBUFLEN |-> F!Bytes(ps[1])[i]]
    BY DEF F!Bytes, F!Place
  <2>3. QED
    BY <1>3, <2>1, <2>2
<1>5. QED
  BY <1>3, <1>4

\* What is left of a line when its first bytes are gone.
LEMMA Dropped ==
  ASSUME NEW T, NEW s \in Seq(T), NEW k \in 0 .. Len(s)
  PROVE  /\ SubSeq(s, k + 1, Len(s)) \in Seq(T)
         /\ Len(SubSeq(s, k + 1, Len(s))) = Len(s) - k
         /\ \A j \in 1 .. Len(SubSeq(s, k + 1, Len(s))) : SubSeq(s, k + 1, Len(s))[j] = s[j + k]
<1>1. k \in Nat /\ k <= Len(s)
  OBVIOUS
<1>2. QED
  BY <1>1

LEMMA WholeDrop ==
  ASSUME NEW T, NEW s \in Seq(T), Whole(s), NEW k \in 0 .. Len(s), NEW q \in Nat, k = Off(q)
  PROVE  Whole(SubSeq(s, k + 1, Len(s)))
<1>1. PICK n \in Nat, ps \in [Nat -> Nat] :
        /\ Len(s) = Off(n)
        /\ \A m \in 1 .. n, i \in 1 .. SBUFLEN : s[Off(m - 1) + i] = F!Bytes(ps[m])[i]
  BY DEF Whole
<1>2. k = Off(q)
  OBVIOUS
<1>3. q <= n /\ n - q \in Nat
  BY <1>1, <1>2, OffFacts
<1>. DEFINE t == SubSeq(s, k + 1, Len(s))
            qs == [m \in Nat |-> ps[m + q]]
<1>4. qs \in [Nat -> Nat]
  <2>1. \A m \in Nat : m + q \in Nat
    OBVIOUS
  <2>2. QED
    BY <1>1, <2>1
<1>5. /\ t \in Seq(T) /\ Len(t) = Len(s) - k
      /\ \A j \in 1 .. Len(t) : t[j] = s[j + k]
  BY Dropped
<1>. HIDE DEF t
<1>6. Len(t) = Off(n - q)
  <2>1. Off(q + (n - q)) = Off(q) + Off(n - q) /\ q + (n - q) = n
    BY <1>3, OffFacts
  <2>2. Off(q) \in Nat /\ Off(n - q) \in Nat
    BY <1>3, OffFacts
  <2>3. QED
    BY <1>1, <1>2, <1>5, <2>1, <2>2
<1>7. ASSUME NEW m \in 1 .. n - q, NEW i \in 1 .. SBUFLEN
      PROVE  t[Off(m - 1) + i] = F!Bytes(qs[m])[i]
  <2>1. Off(m - 1) + i \in 1 .. Len(t) /\ m - 1 \in Nat
    BY <1>3, <1>6, InPacket
  <2>2. t[Off(m - 1) + i] = s[(Off(m - 1) + i) + k]
    BY <1>5, <2>1
  <2>3. Off((m + q) - 1) = Off(q) + Off(m - 1)
    <3>1. (m + q) - 1 = q + (m - 1)
      OBVIOUS
    <3>2. QED
      BY <2>1, <3>1, OffFacts
  <2>4. (Off(m - 1) + i) + k = Off((m + q) - 1) + i
    <3>1. Off(m - 1) \in Nat /\ Off(q) \in Nat
      BY <2>1, OffFacts
    <3>2. QED
      BY <1>2, <2>3, <3>1
  <2>5. m + q \in 1 .. n /\ qs[m] = ps[m + q]
    BY <1>3
  <2>6. QED
    BY <1>1, <2>2, <2>4, <2>5
<1>8. QED
  <2>. HIDE DEF t, qs
  <2>1. Whole(t)
    BY <1>3, <1>4, <1>6, <1>7 DEF Whole
  <2>2. QED
    BY <2>1 DEF t

-----------------------------------------------------------------------------
(* The order of the bytes on a line. *)

\* The bytes there are on both lines.
Byte == {<< 0, 0 >>, << Garbage, 0 >>} \cup (1 .. MaxEdits) \X (1 .. SBUFLEN)

\* A byte of a zeroed buffer or of the log is of no edit.
NoEdit(b) == b[1] \in {0, Garbage}

Sorted(s) ==
  \A i, j \in 1 .. Len(s) : i <= j => NoEdit(s[i]) \/ NoEdit(s[j]) \/ s[i][1] <= s[j][1]

AtLeast(s, e) == \A j \in 1 .. Len(s) : NoEdit(s[j]) \/ e <= s[j][1]

AtMost(s, e) == \A j \in 1 .. Len(s) : NoEdit(s[j]) \/ s[j][1] <= e

\* The bytes of the packets of the first edits.
Sent(e) == {<< 0, 0 >>} \cup (1 .. e) \X (1 .. SBUFLEN)

LEMMA ByteType ==
  ASSUME NEW b \in Byte
  PROVE  b[1] \in Nat /\ b[1] <= Garbage /\ Garbage \in Nat /\ (NoEdit(b) \/ b[1] \in 1 .. MaxEdits)
  BY LinkAssumption DEF Byte, Garbage, NoEdit

LEMMA BytesOrdered ==
  ASSUME NEW p \in Edits
  PROVE  /\ F!Bytes(p) \in Seq(Sent(p)) /\ F!Bytes(p) \in Seq(Byte) /\ Sorted(F!Bytes(p))
         /\ \A e \in Nat : p <= e => AtMost(F!Bytes(p), e)
         /\ \A e \in Nat : p = 0 \/ e <= p => AtLeast(F!Bytes(p), e)
<1>1. /\ p \in Nat /\ Len(F!Bytes(p)) = SBUFLEN /\ SBUFLEN \in Nat
      /\ \A i \in 1 .. SBUFLEN : F!Bytes(p)[i] = IF p = 0 THEN << 0, 0 >> ELSE << p, i >>
  <2>1. p \in Nat /\ SBUFLEN \in Nat
    BY LinkAssumption DEF Edits
  <2>2. QED
    BY <2>1, BytesType
<1>2. \A i \in 1 .. SBUFLEN : /\ F!Bytes(p)[i] \in Sent(p) /\ F!Bytes(p)[i] \in Byte
                             /\ F!Bytes(p)[i][1] = p
  BY <1>1, LinkAssumption DEF Sent, Byte, Edits
<1>3. F!Bytes(p) \in Seq(Sent(p)) /\ F!Bytes(p) \in Seq(Byte)
  <2>1. F!Bytes(p) = [i \in 1 .. SBUFLEN |-> F!Bytes(p)[i]]
    BY DEF F!Bytes, F!Place
  <2>2. F!Bytes(p) \in [1 .. SBUFLEN -> Sent(p)] /\ F!Bytes(p) \in [1 .. SBUFLEN -> Byte]
    BY <1>2, <2>1
  <2>3. \A T, f : f \in [1 .. SBUFLEN -> T] => f \in Seq(T)
    BY <1>1
  <2>4. QED
    BY <2>2, <2>3
<1>4. /\ \A e \in Nat : p <= e => AtMost(F!Bytes(p), e)
      /\ \A e \in Nat : p = 0 \/ e <= p => AtLeast(F!Bytes(p), e)
  BY <1>1, <1>2 DEF AtLeast, AtMost, NoEdit
<1>5. Sorted(F!Bytes(p))
  BY <1>1, <1>2 DEF Sorted, NoEdit
<1>6. QED
  BY <1>3, <1>4, <1>5

LEMMA SentIs ==
  ASSUME NEW e \in Edits, NEW s \in Seq(Sent(e))
  PROVE  /\ s \in Seq(Byte) /\ AtMost(s, e)
         /\ \A d \in Nat : e <= d => s \in Seq(Sent(d))
         /\ \A j \in 1 .. Len(s) : s[j][1] \in 0 .. e /\ (NoEdit(s[j]) => s[j][1] = 0)
<1>1. \A j \in 1 .. Len(s) : s[j] \in Sent(e)
  OBVIOUS
<1>2. Sent(e) \subseteq Byte /\ \A d \in Nat : e <= d => Sent(e) \subseteq Sent(d)
  BY LinkAssumption DEF Sent, Byte, Edits
<1>3. \A b \in Sent(e) : b[1] \in 0 .. e
  BY LinkAssumption DEF Sent, Edits
<1>4. s \in Seq(Byte)
  BY <1>2
<1>5. \A d \in Nat : e <= d => s \in Seq(Sent(d))
  BY <1>2
<1>6. \A j \in 1 .. Len(s) : s[j][1] \in 0 .. e /\ (NoEdit(s[j]) => s[j][1] = 0)
  BY <1>1, <1>3, LinkAssumption DEF NoEdit, Garbage, Edits
<1>7. QED
  BY <1>4, <1>5, <1>6 DEF AtMost, Edits

\* Taking bytes off the front, or off the end, leaves the order.
LEMMA OrderDrop ==
  ASSUME NEW s \in Seq(Byte), NEW k \in 0 .. Len(s)
  PROVE  /\ SubSeq(s, k + 1, Len(s)) \in Seq(Byte) /\ Len(SubSeq(s, k + 1, Len(s))) = Len(s) - k
         /\ Sorted(s) => Sorted(SubSeq(s, k + 1, Len(s)))
         /\ \A e \in Nat : AtLeast(s, e) => AtLeast(SubSeq(s, k + 1, Len(s)), e)
         /\ \A e \in Nat : AtMost(s, e) => AtMost(SubSeq(s, k + 1, Len(s)), e)
<1>. DEFINE t == SubSeq(s, k + 1, Len(s))
<1>1. /\ t \in Seq(Byte) /\ Len(t) = Len(s) - k
      /\ \A j \in 1 .. Len(t) : t[j] = s[j + k]
  BY Dropped
<1>. HIDE DEF t
<1>2. \A j \in 1 .. Len(t) : j + k \in 1 .. Len(s)
  BY <1>1
<1>3. Sorted(s) => Sorted(t)
  <2>. SUFFICES ASSUME Sorted(s), NEW i \in 1 .. Len(t), NEW j \in 1 .. Len(t), i <= j
                PROVE  NoEdit(t[i]) \/ NoEdit(t[j]) \/ t[i][1] <= t[j][1]
    BY DEF Sorted
  <2>1. /\ i + k \in 1 .. Len(s) /\ j + k \in 1 .. Len(s) /\ i + k <= j + k
        /\ t[i] = s[i + k] /\ t[j] = s[j + k]
    BY <1>1, <1>2
  <2>2. QED
    BY <2>1 DEF Sorted
<1>4. /\ \A e \in Nat : AtLeast(s, e) => AtLeast(t, e)
      /\ \A e \in Nat : AtMost(s, e) => AtMost(t, e)
  BY <1>1, <1>2 DEF AtLeast, AtMost
<1>5. QED
  BY <1>1, <1>3, <1>4 DEF t

LEMMA OrderTake ==
  ASSUME NEW s \in Seq(Byte), NEW k \in 0 .. Len(s)
  PROVE  /\ SubSeq(s, 1, k) \in Seq(Byte) /\ Len(SubSeq(s, 1, k)) = k
         /\ \A i \in 1 .. k : SubSeq(s, 1, k)[i] = s[i]
         /\ Sorted(s) => Sorted(SubSeq(s, 1, k))
         /\ \A e \in Nat : AtLeast(s, e) => AtLeast(SubSeq(s, 1, k), e)
<1>. DEFINE t == SubSeq(s, 1, k)
<1>1. /\ t \in Seq(Byte) /\ Len(t) = k /\ k \in Nat /\ k <= Len(s)
      /\ \A j \in 1 .. k : t[j] = s[j]
  OBVIOUS
<1>. HIDE DEF t
<1>2. Sorted(s) => Sorted(t)
  BY <1>1 DEF Sorted
<1>3. \A e \in Nat : AtLeast(s, e) => AtLeast(t, e)
  BY <1>1 DEF AtLeast
<1>4. QED
  BY <1>1, <1>2, <1>3 DEF t

\* Bytes put at the end of a line keep the order if no edit there is older than
\* one before.
LEMMA OrderConcat ==
  ASSUME NEW s \in Seq(Byte), NEW t \in Seq(Byte), NEW e \in Nat,
         Sorted(s), Sorted(t), AtMost(s, e), AtLeast(t, e)
  PROVE  /\ s \o t \in Seq(Byte) /\ Len(s \o t) = Len(s) + Len(t)
         /\ Sorted(s \o t)
         /\ \A d : AtLeast(s, d) /\ AtLeast(t, d) => AtLeast(s \o t, d)
         /\ \A d : AtMost(s, d) /\ AtMost(t, d) => AtMost(s \o t, d)
<1>. DEFINE c == s \o t
<1>1. /\ c \in Seq(Byte) /\ Len(c) = Len(s) + Len(t) /\ Len(s) \in Nat /\ Len(t) \in Nat
      /\ \A j \in 1 .. Len(s) : c[j] = s[j]
  OBVIOUS
<1>2. \A j \in 1 .. Len(t) : c[j + Len(s)] = t[j]
  BY <1>1
<1>. HIDE DEF c
<1>3. \A j \in 1 .. Len(c) : \/ j \in 1 .. Len(s)
                             \/ j - Len(s) \in 1 .. Len(t) /\ c[j] = t[j - Len(s)]
  <2>. SUFFICES ASSUME NEW j \in 1 .. Len(c), j \notin 1 .. Len(s)
                PROVE  j - Len(s) \in 1 .. Len(t) /\ c[j] = t[j - Len(s)]
    OBVIOUS
  <2>1. j - Len(s) \in 1 .. Len(t) /\ (j - Len(s)) + Len(s) = j
    BY <1>1
  <2>2. QED
    BY <1>2, <2>1
<1>4. \A d : AtLeast(s, d) /\ AtLeast(t, d) => AtLeast(c, d)
  BY <1>1, <1>3 DEF AtLeast
<1>5. \A d : AtMost(s, d) /\ AtMost(t, d) => AtMost(c, d)
  BY <1>1, <1>3 DEF AtMost
<1>6. Sorted(c)
  <2>. SUFFICES ASSUME NEW i \in 1 .. Len(c), NEW j \in 1 .. Len(c), i <= j,
                       ~NoEdit(c[i]), ~NoEdit(c[j])
                PROVE  c[i][1] <= c[j][1]
    BY DEF Sorted
  <2>1. c[i][1] \in Nat /\ c[j][1] \in Nat
    BY <1>1, ByteType
  <2>2. CASE j \in 1 .. Len(s)
    <3>1. i \in 1 .. Len(s)
      BY <1>1, <2>2
    <3>2. QED
      BY <1>1, <2>2, <3>1 DEF Sorted
  <2>3. CASE i \notin 1 .. Len(s)
    <3>1. /\ i - Len(s) \in 1 .. Len(t) /\ c[i] = t[i - Len(s)]
          /\ j - Len(s) \in 1 .. Len(t) /\ c[j] = t[j - Len(s)]
          /\ i - Len(s) <= j - Len(s)
      <4>1. j \notin 1 .. Len(s)
        BY <1>1, <2>3
      <4>2. /\ i - Len(s) \in 1 .. Len(t) /\ c[i] = t[i - Len(s)]
            /\ j - Len(s) \in 1 .. Len(t) /\ c[j] = t[j - Len(s)]
        BY <1>3, <2>3, <4>1
      <4>3. i - Len(s) <= j - Len(s)
        BY <1>1
      <4>4. QED
        BY <4>2, <4>3
    <3>2. QED
      BY <3>1 DEF Sorted
  <2>4. CASE i \in 1 .. Len(s) /\ j \notin 1 .. Len(s)
    <3>1. c[i][1] <= e
      BY <1>1, <2>4 DEF AtMost
    <3>2. e <= c[j][1]
      BY <1>3, <2>4 DEF AtLeast
    <3>3. QED
      BY <2>1, <3>1, <3>2
  <2>5. QED
    BY <2>2, <2>3, <2>4
<1>7. QED
  BY <1>1, <1>4, <1>5, <1>6 DEF c

-----------------------------------------------------------------------------
(* The newest edit of a packet. *)

\* A set of numbers below some bound has a greatest one.
LEMMA Greatest ==
  ASSUME NEW n \in Nat, NEW T, T \subseteq 0 .. n, T # {}
  PROVE  \E m \in T : \A t \in T : t <= m
<1>. DEFINE R == {ss \in Nat \X Nat : ss[1] < ss[2]}
            D == {n - t : t \in T}
<1>1. IsWellFoundedOn(R, Nat)
  BY NatLessThanWellFounded DEF OpToRel
<1>2. D \subseteq Nat /\ D # {}
  <2>1. \A t \in T : n - t \in Nat
    OBVIOUS
  <2>2. QED
    BY <2>1
<1>3. PICK x \in D : \A y \in D : << y, x >> \notin R
  <2>. HIDE DEF R, D
  <2>1. QED
    BY <1>1, <1>2, WFMin
<1>4. n - x \in T /\ x \in Nat
  BY <1>2, <1>3
<1>5. ASSUME NEW t \in T PROVE t <= n - x
  <2>1. n - t \in D /\ n - t \in Nat
    BY <1>2
  <2>2. ~(n - t < x)
    BY <1>3, <1>4, <2>1
  <2>3. QED
    BY <1>4, <2>2
<1>6. QED
  BY <1>4, <1>5

LEMMA NewestIs ==
  ASSUME NEW b, NEW e \in Edits, \A i \in 1 .. SBUFLEN : b[i][1] \in Edits
  PROVE  LET v == F!Newest(b, e) IN
         /\ v = e \/ \E i \in 1 .. SBUFLEN : v = b[i][1]
         /\ v \in Edits /\ e <= v
         /\ \A i \in 1 .. SBUFLEN : b[i][1] <= v
<1>. DEFINE T == {e} \cup {b[i][1] : i \in 1 .. SBUFLEN}
            OK(m) == e <= m /\ \A i \in 1 .. SBUFLEN : b[i][1] <= m
<1>1. T \subseteq 0 .. MaxEdits /\ T # {}
  BY DEF Edits
<1>2. \E m \in T : \A t \in T : t <= m
  BY <1>1, Greatest, LinkAssumption
<1>3. \E m \in T : OK(m)
  BY <1>2
<1>4. F!Newest(b, e) = CHOOSE m \in T : OK(m)
  <2>1. \A m \in T : OK(m) <=> (m >= e /\ \A i \in 1 .. SBUFLEN : m >= b[i][1])
    BY <1>1 DEF Edits
  <2>2. QED
    BY <2>1 DEF F!Newest, F!Place
<1>5. F!Newest(b, e) \in T /\ OK(F!Newest(b, e))
  BY <1>3, <1>4
<1>6. QED
  BY <1>1, <1>5 DEF Edits

-----------------------------------------------------------------------------
(* The server's half: UartUplink implements UartFeed. *)

\* What holds of the bytes on their way to the board: edits keep their order, from
\* the panel over temp_buf and the line to the last one the board has read, and as
\* long as no packet was broken up the line carries whole ones.
UplinkInv ==
  /\ edits \in Edits /\ last \in 0 .. edits /\ broken \in BOOLEAN
  /\ m_buf \in {0, edits} /\ temp_buf \in 0 .. edits
  /\ (buffer = << >>) <=> (board # "notify")
  /\ up \in Seq(Sent(edits)) /\ Sorted(up) /\ AtLeast(up, last)
  /\ temp_buf = 0 \/ (last <= temp_buf /\ AtMost(up, temp_buf))
  /\ ~broken => Whole(up)

\* The modules instantiated here speak of the same packets.
LEMMA SameBytes ==
  \A p : U!F!Bytes(p) = F!Bytes(p) /\ U!S!Bytes(p) = F!Bytes(p)
<1>1. \A p : U!F!Bytes(p) = F!Bytes(p)
  BY DEF U!F!Bytes, U!F!Place, U!F!ZeroByte, F!Bytes, F!Place, F!ZeroByte
<1>2. ASSUME NEW p PROVE U!S!Bytes(p) = F!Bytes(p)
  <2>1. CASE p = 0
    BY <2>1 DEF U!S!Bytes, F!Bytes, F!Place, F!ZeroByte
  <2>2. CASE p # 0
    BY <2>2 DEF U!S!Bytes, F!Bytes, F!Place, F!ZeroByte
  <2>3. QED
    BY <2>1, <2>2
<1>3. QED
  BY <1>1, <1>2

LEMMA UplinkInit == U!Init => UplinkInv
<1>1. SUFFICES ASSUME U!Init PROVE UplinkInv
  OBVIOUS
<1>2. edits = 0 /\ 0 \in Edits /\ last = 0 /\ broken = FALSE /\ m_buf = 0 /\ temp_buf = 0
  BY <1>1, LinkAssumption DEF U!Init, U!S!Started, Edits
<1>3. (buffer = << >>) <=> (board # "notify")
  BY <1>1 DEF U!Init
<1>4. up = << >> /\ Len(up) = 0 /\ up \in Seq(Sent(edits))
  BY <1>1 DEF U!Init
<1>5. Sorted(up) /\ AtLeast(up, last)
  BY <1>4 DEF Sorted, AtLeast
<1>6. ~broken => Whole(up)
  BY <1>4, WholeEmpty
<1>7. m_buf \in {0, edits} /\ temp_buf \in 0 .. edits /\ last \in 0 .. edits
  BY <1>2
<1>8. QED
  BY <1>2, <1>3, <1>4, <1>5, <1>6, <1>7 DEF UplinkInv

\* Once broken, always broken.
LEMMA UplinkTrack ==
  ASSUME broken \in BOOLEAN, U!Track
  PROVE  /\ broken' \in BOOLEAN
         /\ ~broken' => ~broken /\ ~U!BreaksUp
         /\ ~U!BreaksUp => broken' = broken
  BY DEF U!Track

\* The first k bytes of temp_buf go on the line; a program that is restarted meanwhile
\* begins with a zeroed m_buf.
Sends(k) ==
  /\ up' = up \o SubSeq(F!Bytes(temp_buf), 1, k)
  /\ temp_buf' = 0 /\ m_buf' \in {0, m_buf}
  /\ k \in 1 .. SBUFLEN - 1 => U!BreaksUp

\* All that a step of the server's program, other than an edit, does to its packets.
LEMMA ServerStep ==
  ASSUME \/ U!ServerRuns \/ U!ServerFails \/ U!ServerEnds \/ U!ServerQuits
         \/ U!ServerRestarts
  PROVE  /\ UNCHANGED << edits, board, buffer, last >>
         /\ \/ UNCHANGED << up, temp_buf, m_buf >>
            \/ UNCHANGED << up, m_buf >> /\ temp_buf' = m_buf
            \/ \E k \in 0 .. SBUFLEN : Sends(k)
<1>1. UNCHANGED << edits, board, buffer, last >>
  BY DEF U!ServerRuns, U!ServerFails, U!ServerEnds, U!ServerQuits, U!ServerRestarts,
         U!ServerFrame, U!Exit
<1>2. CASE U!ServerRuns \/ U!ServerFails
  <2>1. CASE U!S!OpenSucceeds \/ U!S!OuterEnds \/ U!S!OuterGoesOn \/ U!S!Inner \/ U!S!Close
               \/ U!S!OpenFails
    BY <1>1, <2>1 DEF U!S!OpenSucceeds, U!S!OuterEnds, U!S!OuterGoesOn, U!S!Inner, U!S!Close,
                U!S!OpenFails, U!S!Goto
  <2>2. CASE U!S!Copy
    BY <1>1, <2>2 DEF U!S!Copy, U!S!Goto
  <2>3. CASE U!S!WriteSucceeds
    <3>1. /\ up' = up \o F!Bytes(temp_buf) /\ temp_buf' = 0 /\ m_buf' = m_buf
      BY <2>3, SameBytes DEF U!S!WriteSucceeds, U!S!Goto
    <3>2. SubSeq(F!Bytes(temp_buf), 1, SBUFLEN) = F!Bytes(temp_buf)
      BY LinkAssumption DEF F!Bytes, F!Place
    <3>3. SBUFLEN \in 0 .. SBUFLEN /\ SBUFLEN \notin 1 .. SBUFLEN - 1
      BY LinkAssumption
    <3>4. Sends(SBUFLEN)
      BY <3>1, <3>2, <3>3 DEF Sends
    <3>5. QED
      BY <1>1, <3>3, <3>4
  <2>4. ASSUME NEW k \in 0 .. SBUFLEN, U!S!WriteFails(k)
        PROVE  Sends(k)
    <3>1. up' = up \o SubSeq(F!Bytes(temp_buf), 1, k) /\ temp_buf' = 0 /\ m_buf' = m_buf
      BY <2>4, SameBytes DEF U!S!WriteFails, U!S!Goto
    <3>2. QED
      BY <2>4, <3>1 DEF Sends, U!BreaksUp
  <2>5. 0 \in 0 .. SBUFLEN
    BY LinkAssumption
  <2>6. QED
    BY <1>1, <1>2, <2>1, <2>2, <2>3, <2>4, <2>5
    DEF U!ServerRuns, U!ServerFails, U!S!WorkerProgress, U!S!WorkerFails
<1>3. CASE U!ServerEnds \/ U!ServerQuits
  BY <1>1, <1>3 DEF U!ServerEnds, U!ServerQuits, U!S!Destructor, U!S!StopRunning, U!S!Wait, U!S!Quit,
              U!S!MainGoto
<1>4. CASE U!ServerRestarts
  <2>1. PICK k \in 0 .. SBUFLEN : U!S!Restart(k)
    BY <1>4 DEF U!ServerRestarts
  <2>2. up' = up \o SubSeq(F!Bytes(temp_buf), 1, k) /\ temp_buf' = 0 /\ m_buf' = 0
    BY <2>1, SameBytes DEF U!S!Restart
  <2>3. Sends(k)
    BY <2>1, <2>2 DEF Sends, U!BreaksUp
  <2>4. QED
    BY <1>1, <2>3
<1>5. QED
  BY <1>2, <1>3, <1>4

\* Sending, whole or in part, keeps the order.
LEMMA SendsKeep ==
  ASSUME UplinkInv, U!Track, UNCHANGED << edits, board, buffer, last >>,
         NEW k \in 0 .. SBUFLEN, Sends(k)
  PROVE  UplinkInv'
<1>. DEFINE b == SubSeq(F!Bytes(temp_buf), 1, k)
            e == IF temp_buf = 0 THEN edits ELSE temp_buf
<1>1. /\ edits \in Edits /\ edits \in Nat /\ last \in Nat /\ last <= edits /\ temp_buf \in Edits
      /\ temp_buf \in Nat /\ temp_buf <= edits
  BY LinkAssumption DEF UplinkInv, Edits
<1>2. /\ up \in Seq(Byte) /\ AtMost(up, edits) /\ up \in Seq(Sent(edits))
      /\ Sorted(up) /\ AtLeast(up, last)
  BY <1>1, SentIs DEF UplinkInv
<1>3. /\ F!Bytes(temp_buf) \in Seq(Sent(edits)) /\ F!Bytes(temp_buf) \in Seq(Byte)
      /\ Len(F!Bytes(temp_buf)) = SBUFLEN /\ Sorted(F!Bytes(temp_buf))
      /\ AtLeast(F!Bytes(temp_buf), last) /\ AtLeast(F!Bytes(temp_buf), e)
  <2>1. /\ F!Bytes(temp_buf) \in Seq(Sent(temp_buf)) /\ F!Bytes(temp_buf) \in Seq(Byte)
        /\ Sorted(F!Bytes(temp_buf)) /\ Len(F!Bytes(temp_buf)) = SBUFLEN
    BY <1>1, BytesOrdered, BytesType
  <2>2. F!Bytes(temp_buf) \in Seq(Sent(edits))
    BY <1>1, <2>1, SentIs
  <2>3. AtLeast(F!Bytes(temp_buf), last) /\ AtLeast(F!Bytes(temp_buf), e)
    BY <1>1, BytesOrdered DEF UplinkInv
  <2>4. QED
    BY <2>1, <2>2, <2>3
<1>4. /\ b \in Seq(Byte) /\ Sorted(b) /\ AtLeast(b, last) /\ AtLeast(b, e)
      /\ b \in Seq(Sent(edits))
  <2>1. k \in 0 .. Len(F!Bytes(temp_buf))
    BY <1>3
  <2>2. /\ b \in Seq(Byte) /\ Sorted(b) /\ AtLeast(b, last) /\ AtLeast(b, e)
    <3>1. e \in Nat
      BY <1>1
    <3>. HIDE DEF e
    <3>2. QED
      BY <1>1, <1>3, <2>1, <3>1, OrderTake
  <2>3. b \in Seq(Sent(edits))
    BY <1>3, <2>1
  <2>4. QED
    BY <2>2, <2>3
<1>5. e \in Nat /\ AtMost(up, e)
  BY <1>1, <1>2 DEF UplinkInv
<1>6. Sorted(up') /\ AtLeast(up', last) /\ up' \in Seq(Sent(edits))
  <2>1. up' = up \o b
    BY DEF Sends
  <2>. HIDE DEF b, e
  <2>2. Sorted(up \o b) /\ AtLeast(up \o b, last)
    BY <1>2, <1>4, <1>5, OrderConcat
  <2>3. up \o b \in Seq(Sent(edits))
    BY <1>2, <1>4
  <2>4. QED
    BY <2>1, <2>2, <2>3
<1>7. ~broken' => Whole(up')
  <2>. SUFFICES ASSUME ~broken' PROVE Whole(up')
    OBVIOUS
  <2>1. Whole(up) /\ (k = 0 \/ k = SBUFLEN)
    BY UplinkTrack, LinkAssumption DEF UplinkInv, Sends
  <2>2. CASE k = 0
    <3>1. b = << >>
      BY <2>2
    <3>2. up \o << >> = up
      BY <1>2
    <3>3. up' = up \o b
      BY DEF Sends
    <3>4. up' = up
      BY <3>1, <3>2, <3>3
    <3>5. QED
      BY <2>1, <3>4
  <2>3. CASE k = SBUFLEN
    <3>1. b = F!Bytes(temp_buf)
      BY <2>3, LinkAssumption DEF F!Bytes, F!Place
    <3>2. up' = up \o F!Bytes(temp_buf)
      BY <3>1 DEF Sends
    <3>3. QED
      BY <1>1, <1>2, <2>1, <3>2, WholeAppend
  <2>4. QED
    BY <2>1, <2>2, <2>3
<1>8. QED
  <2>1. broken' \in BOOLEAN
    BY UplinkTrack DEF UplinkInv
  <2>2. m_buf' \in {0, edits'} /\ temp_buf' = 0 /\ 0 \in 0 .. edits'
    BY <1>1 DEF UplinkInv, Sends
  <2>3. QED
    BY <1>6, <1>7, <2>1, <2>2 DEF UplinkInv

LEMMA EditKeeps ==
  ASSUME UplinkInv, U!Track, U!Edit
  PROVE  UplinkInv' /\ U!F!Edit
<1>1. /\ edits' = edits + 1 /\ m_buf' = edits' /\ edits' \in Edits /\ edits \in Nat
      /\ UNCHANGED << temp_buf, up, board, buffer, last, worker >>
  BY LinkAssumption DEF UplinkInv, U!Edit, U!S!SetBuffer, U!S!MainGoto, U!ServerFrame, Edits
<1>2. Len(up) \in Nat /\ 0 % SBUFLEN = 0
  BY LinkAssumption DEF UplinkInv
<1>3. ~U!BreaksUp
  <2>1. Len(up) - Len(up') = 0
    BY <1>1, <1>2
  <2>2. \A k \in 1 .. SBUFLEN - 1 : ~U!S!WriteFails(k) /\ ~U!S!Restart(k)
    BY <1>1 DEF U!S!WriteFails, U!S!Restart, U!S!Goto
  <2>3. QED
    BY <1>2, <2>1, <2>2 DEF U!BreaksUp
<1>4. broken' = broken
  BY <1>3, UplinkTrack DEF UplinkInv
<1>5. up \in Seq(Sent(edits'))
  BY <1>1, SentIs DEF UplinkInv
<1>6. UplinkInv'
  <2>1. /\ last' \in 0 .. edits' /\ temp_buf' \in 0 .. edits' /\ broken' \in BOOLEAN
        /\ (buffer' = << >>) <=> (board' # "notify")
    BY <1>1, <1>4 DEF UplinkInv
  <2>2. /\ Sorted(up') /\ AtLeast(up', last')
        /\ temp_buf' = 0 \/ (last' <= temp_buf' /\ AtMost(up', temp_buf'))
        /\ ~broken' => Whole(up')
    BY <1>1, <1>4 DEF UplinkInv
  <2>3. QED
    BY <1>1, <1>5, <2>1, <2>2 DEF UplinkInv
<1>7. QED
  BY <1>1, <1>4, <1>6 DEF U!F!Edit

\* Bytes are dropped from the front of the line, in whole packets or all of them
\* unless that breaks one up.
LEMMA DropKeeps ==
  ASSUME UplinkInv, U!Track, UNCHANGED << edits, m_buf, temp_buf, last >>,
         (buffer' = << >>) <=> (board' # "notify"),
         NEW k \in 0 .. Len(up), up' = SubSeq(up, k + 1, Len(up)),
         ~broken' => Whole(up')
  PROVE  UplinkInv'
<1>1. /\ edits \in Edits /\ up \in Seq(Byte) /\ up \in Seq(Sent(edits))
      /\ last \in Nat /\ temp_buf \in Nat
  BY SentIs, LinkAssumption DEF UplinkInv, Edits
<1>2. /\ Sorted(up') /\ AtLeast(up', last)
      /\ temp_buf = 0 \/ (last <= temp_buf /\ AtMost(up', temp_buf))
  BY <1>1, OrderDrop DEF UplinkInv
<1>3. up' \in Seq(Sent(edits))
  BY <1>1, Dropped
<1>4. broken' \in BOOLEAN
  BY UplinkTrack DEF UplinkInv
<1>5. QED
  BY <1>2, <1>3, <1>4 DEF UplinkInv

LEMMA FlushKeeps ==
  ASSUME UplinkInv, U!Track, NEW k \in 0 .. Cap, U!Flush(k)
  PROVE  UplinkInv' /\ UNCHANGED << edits, buffer, last >>
<1>1. /\ UNCHANGED << edits, m_buf, temp_buf, last, buffer >> /\ board = "flush" /\ board' = "check"
      /\ k <= Len(up) /\ up' = SubSeq(up, k + 1, Len(up))
  BY DEF U!Flush, U!BoardGoto, U!sVars
<1>2. k \in 0 .. Len(up) /\ edits \in Edits /\ up \in Seq(Byte)
  BY <1>1, LinkAssumption, SentIs DEF UplinkInv
<1>3. (buffer' = << >>) <=> (board' # "notify")
  BY <1>1 DEF UplinkInv
<1>4. ASSUME ~broken' PROVE Whole(up')
  <2>1. Whole(up) /\ ~U!BreaksUp
    BY <1>4, UplinkTrack DEF UplinkInv
  <2>2. CASE up' = << >>
    BY <2>2, WholeEmpty
  <2>3. CASE up' # << >>
    <3>1. Len(up) - Len(up') = k /\ k \in Nat
      BY <1>1, <1>2, OrderDrop
    <3>2. k % SBUFLEN = 0
      BY <1>1, <2>1, <2>3, <3>1 DEF U!BreaksUp
    <3>3. PICK q \in Nat : k = Off(q)
      BY <3>1, <3>2, OffOfWhole
    <3>4. QED
      BY <1>1, <1>2, <2>1, <3>3, WholeDrop
  <2>4. QED
    BY <2>2, <2>3
<1>5. QED
  BY <1>1, <1>2, <1>3, <1>4, DropKeeps

\* The board reads a packet: its bytes are in order and not before any that was read
\* before, and it is whole unless some packet was broken up.
LEMMA ReadKeeps ==
  ASSUME UplinkInv, U!Track, U!ReadPacket
  PROVE  UplinkInv' /\ U!F!Read
<1>. DEFINE b == SubSeq(up, 1, SBUFLEN)
<1>1. /\ UNCHANGED << edits, m_buf, temp_buf, worker >> /\ board = "read" /\ board' = "notify"
      /\ Len(up) >= SBUFLEN /\ buffer' = b /\ up' = SubSeq(up, SBUFLEN + 1, Len(up))
      /\ last' = F!Newest(b, last)
  BY DEF U!ReadPacket, U!BoardGoto, U!sVars, U!F!Newest, F!Newest, U!F!Place, F!Place
<1>2. /\ edits \in Edits /\ up \in Seq(Byte) /\ up \in Seq(Sent(edits)) /\ last \in Edits
      /\ edits \in Nat /\ last \in Nat /\ last <= edits
      /\ SBUFLEN \in 0 .. Len(up) /\ SBUFLEN \in Nat /\ SBUFLEN > 0
  BY <1>1, LinkAssumption, SentIs DEF UplinkInv, Edits
<1>3. ~U!BreaksUp /\ broken' = broken
  <2>1. \A k \in 1 .. SBUFLEN - 1 : ~U!S!WriteFails(k) /\ ~U!S!Restart(k)
    BY <1>1 DEF U!S!WriteFails, U!S!Restart, U!S!Goto
  <2>2. QED
    BY <1>1, <2>1, UplinkTrack DEF UplinkInv, U!BreaksUp
<1>4. /\ b \in Seq(Sent(edits)) /\ Len(b) = SBUFLEN
      /\ \A i \in 1 .. SBUFLEN : b[i] = up[i] /\ b[i] \in Sent(edits) /\ b[i][1] \in 0 .. edits
  <2>1. b \in Seq(Sent(edits)) /\ Len(b) = SBUFLEN /\ \A i \in 1 .. SBUFLEN : b[i] = up[i]
    BY <1>2
  <2>. HIDE DEF b
  <2>2. \A i \in 1 .. SBUFLEN : b[i] \in Sent(edits) /\ b[i][1] \in 0 .. edits
    BY <1>2, <2>1, SentIs
  <2>3. QED
    BY <2>1, <2>2
<1>. HIDE DEF b
<1>5. /\ last' = last \/ \E i \in 1 .. SBUFLEN : last' = up[i][1]
      /\ last' \in 0 .. edits /\ last <= last'
  <2>1. \A i \in 1 .. SBUFLEN : b[i][1] \in Edits
    BY <1>2, <1>4, LinkAssumption DEF Edits
  <2>2. /\ last' = last \/ \E i \in 1 .. SBUFLEN : last' = b[i][1]
        /\ last' \in Edits /\ last <= last'
    BY <1>1, <1>2, <2>1, NewestIs
  <2>3. QED
    BY <1>2, <1>4, <2>2 DEF Edits
<1>6. /\ up' \in Seq(Sent(edits)) /\ Sorted(up') /\ AtLeast(up', last)
      /\ \A e \in Nat : AtMost(up, e) => AtMost(up', e)
      /\ \A j \in 1 .. Len(up') : /\ up'[j] = up[j + SBUFLEN] /\ j + SBUFLEN \in 1 .. Len(up)
                                 /\ up'[j][1] \in Nat
  <2>1. /\ Sorted(up') /\ AtLeast(up', last) /\ \A e \in Nat : AtMost(up, e) => AtMost(up', e)
        /\ Len(up') = Len(up) - SBUFLEN
    BY <1>1, <1>2, OrderDrop DEF UplinkInv
  <2>2. up' \in Seq(Sent(edits)) /\ \A j \in 1 .. Len(up') : up'[j] = up[j + SBUFLEN]
    BY <1>1, <1>2, Dropped
  <2>3. \A j \in 1 .. Len(up') : j + SBUFLEN \in 1 .. Len(up) /\ up'[j][1] \in Nat
    <3>1. \A j \in 1 .. Len(up') : j + SBUFLEN \in 1 .. Len(up)
      BY <1>2, <2>1
    <3>2. \A j \in 1 .. Len(up) : up[j][1] \in 0 .. edits
      BY <1>2, SentIs
    <3>3. QED
      BY <2>2, <3>1, <3>2
  <2>4. QED
    BY <2>1, <2>2, <2>3
<1>7. AtLeast(up', last')
  <2>1. CASE last' = last
    BY <1>6, <2>1 DEF AtLeast
  <2>2. ASSUME NEW i \in 1 .. SBUFLEN, last' = up[i][1]
        PROVE  AtLeast(up', last')
    <3>. SUFFICES ASSUME NEW j \in 1 .. Len(up') PROVE NoEdit(up'[j]) \/ last' <= up'[j][1]
      BY DEF AtLeast
    <3>1. /\ up'[j] = up[j + SBUFLEN] /\ j + SBUFLEN \in 1 .. Len(up) /\ i \in 1 .. Len(up)
          /\ i <= j + SBUFLEN /\ up'[j][1] \in Nat
      BY <1>2, <1>6
    <3>2. NoEdit(up[i]) => last' = 0
      BY <1>2, <2>2, <3>1, SentIs
    <3>3. NoEdit(up[i]) \/ NoEdit(up[j + SBUFLEN]) \/ up[i][1] <= up[j + SBUFLEN][1]
      BY <3>1 DEF UplinkInv, Sorted
    <3>4. QED
      BY <2>2, <3>1, <3>2, <3>3
  <2>3. QED
    BY <1>5, <2>1, <2>2
<1>8. temp_buf = 0 \/ (last' <= temp_buf /\ AtMost(up', temp_buf))
  <2>. SUFFICES ASSUME temp_buf # 0 PROVE last' <= temp_buf /\ AtMost(up', temp_buf)
    OBVIOUS
  <2>1. last <= temp_buf /\ AtMost(up, temp_buf) /\ temp_buf \in Nat
    BY <1>2 DEF UplinkInv
  <2>2. \A i \in 1 .. SBUFLEN : up[i][1] <= temp_buf
    <3>. SUFFICES ASSUME NEW i \in 1 .. SBUFLEN PROVE up[i][1] <= temp_buf
      OBVIOUS
    <3>1. i \in 1 .. Len(up) /\ (NoEdit(up[i]) => up[i][1] = 0)
      BY <1>2, SentIs
    <3>2. QED
      BY <2>1, <3>1 DEF AtMost
  <2>3. QED
    BY <1>5, <1>6, <2>1, <2>2
<1>9. ~broken' => Whole(up')
  BY <1>1, <1>2, <1>3, OffFacts, WholeDrop DEF UplinkInv
<1>10. buffer' # << >>
  BY <1>1, <1>2, <1>4
<1>11. UplinkInv'
  BY <1>1, <1>2, <1>3, <1>5, <1>6, <1>7, <1>8, <1>9, <1>10 DEF UplinkInv
<1>12. U!F!InOrder(b, last)
  <2>1. ASSUME NEW j \in 1 .. SBUFLEN PROVE b[j][1] \in {0} \cup last .. edits
    <3>1. j \in 1 .. Len(up) /\ b[j] = up[j] /\ b[j][1] \in 0 .. edits
      BY <1>2, <1>4
    <3>2. NoEdit(up[j]) => up[j][1] = 0
      BY <1>2, <3>1, SentIs
    <3>3. QED
      BY <1>2, <3>1, <3>2 DEF UplinkInv, AtLeast
  <2>2. ASSUME NEW j \in 1 .. SBUFLEN, NEW i \in 1 .. j PROVE b[j][1] = 0 \/ b[i][1] <= b[j][1]
    <3>1. /\ i \in 1 .. SBUFLEN /\ i \in 1 .. Len(up) /\ j \in 1 .. Len(up) /\ i <= j
          /\ b[i] = up[i] /\ b[j] = up[j] /\ b[i][1] \in 0 .. edits /\ b[j][1] \in 0 .. edits
      BY <1>2, <1>4
    <3>2. (NoEdit(up[i]) => up[i][1] = 0) /\ (NoEdit(up[j]) => up[j][1] = 0)
      BY <1>2, <3>1, SentIs
    <3>3. NoEdit(up[i]) \/ NoEdit(up[j]) \/ up[i][1] <= up[j][1]
      BY <3>1 DEF UplinkInv, Sorted
    <3>4. QED
      BY <1>2, <3>1, <3>2, <3>3
  <2>3. QED
    BY <2>1, <2>2 DEF U!F!InOrder, U!F!Place
<1>13. b \in IF broken THEN [U!F!Place -> {U!F!ZeroByte} \cup (1 .. edits) \X U!F!Place]
              ELSE {U!F!Bytes(p) : p \in 0 .. edits}
  <2>1. CASE broken
    <3>1. b \in [1 .. SBUFLEN -> Sent(edits)]
      BY <1>4
    <3>2. QED
      BY <2>1, <3>1 DEF Sent, U!F!Place, U!F!ZeroByte
  <2>2. CASE ~broken
    <3>1. PICK p \in Nat : b = F!Bytes(p)
      <4>1. Whole(up)
        BY <2>2 DEF UplinkInv
      <4>2. QED
        BY <1>1, <1>2, <4>1, WholeFirst DEF b
    <3>2. b[1] = (IF p = 0 THEN << 0, 0 >> ELSE << p, 1 >>) /\ 1 \in 1 .. SBUFLEN
      <4>1. 1 \in 1 .. SBUFLEN
        BY <1>2
      <4>2. QED
        BY <3>1, <4>1, BytesType
    <3>3. p \in 0 .. edits
      BY <1>2, <1>4, <3>2
    <3>4. QED
      BY <2>2, <3>1, <3>3, SameBytes
  <2>3. QED
    BY <2>1, <2>2
<1>14. buffer' \in U!F!Readable
  BY <1>1, <1>12, <1>13 DEF U!F!Readable
<1>15. QED
  <2>1. buffer = << >>
    BY <1>1 DEF UplinkInv
  <2>2. last' = U!F!Newest(buffer', last)
    BY DEF U!ReadPacket
  <2>3. QED
    BY <1>1, <1>3, <1>11, <1>14, <2>1, <2>2 DEF U!F!Read

\* The board's other steps.
LEMMA BoardKeeps ==
  ASSUME UplinkInv, U!Track, U!Check \/ U!ReadTimesOut \/ U!Notify
  PROVE  /\ UplinkInv' /\ UNCHANGED << edits, last >>
         /\ buffer' = buffer \/ (buffer # << >> /\ buffer' = << >>)
<1>1. UNCHANGED << edits, m_buf, temp_buf, last >>
  BY DEF U!Check, U!ReadTimesOut, U!Notify, U!BoardGoto, U!sVars
<1>2. /\ (buffer' = << >>) <=> (board' # "notify")
      /\ buffer' = buffer \/ (buffer # << >> /\ buffer' = << >>)
  BY DEF UplinkInv, U!Check, U!ReadTimesOut, U!Notify, U!BoardGoto
<1>3. up' = up \/ up' = << >>
  BY DEF U!Check, U!ReadTimesOut, U!Notify
<1>4. broken' \in BOOLEAN /\ (~broken' => ~broken)
  BY UplinkTrack DEF UplinkInv
<1>5. /\ up' \in Seq(Sent(edits)) /\ Sorted(up') /\ AtLeast(up', last)
      /\ temp_buf = 0 \/ (last <= temp_buf /\ AtMost(up', temp_buf))
      /\ ~broken' => Whole(up')
  <2>1. CASE up' = up
    BY <1>4, <2>1 DEF UplinkInv
  <2>2. CASE up' = << >>
    <3>1. up' \in Seq(Sent(edits)) /\ Len(up') = 0
      BY <2>2
    <3>2. QED
      BY <2>2, <3>1, WholeEmpty DEF UplinkInv, Sorted, AtLeast, AtMost
  <2>3. QED
    BY <1>3, <2>1, <2>2
<1>6. QED
  BY <1>1, <1>2, <1>4, <1>5 DEF UplinkInv

LEMMA UplinkNext ==
  ASSUME UplinkInv, [U!Next]_(U!vars)
  PROVE  UplinkInv' /\ [U!F!Next]_(U!F!feedVars)
<1>1. CASE UNCHANGED U!vars
  BY <1>1 DEF UplinkInv, U!vars, U!sVars, U!F!feedVars
<1>2. CASE U!Next
  <2>. USE <1>2
  <2>1. U!Act /\ U!Track
    BY DEF U!Next
  <2>2. broken' = TRUE \/ broken' = broken
    BY <2>1 DEF U!Track, UplinkInv
  <2>3. CASE U!Edit
    BY <2>1, <2>3, EditKeeps DEF U!F!Next
  <2>4. CASE U!ReadPacket
    BY <2>1, <2>4, ReadKeeps DEF U!F!Next
  <2>5. ASSUME UNCHANGED << edits, buffer, last >>
        PROVE  [U!F!Next]_(U!F!feedVars)
    BY <2>2, <2>5 DEF U!F!Next, U!F!Break, U!F!feedVars
  <2>6. CASE \/ U!ServerRuns \/ U!ServerFails \/ U!ServerEnds \/ U!ServerQuits
             \/ U!ServerRestarts
    <3>1. UNCHANGED << edits, board, buffer, last >>
      BY <2>6, ServerStep
    <3>2. CASE \E k \in 0 .. SBUFLEN : Sends(k)
      BY <2>1, <3>1, <3>2, SendsKeep, <2>5
    <3>3. CASE UNCHANGED << up, temp_buf, m_buf >> \/ (UNCHANGED << up, m_buf >> /\ temp_buf' = m_buf)
      <4>1. broken' \in BOOLEAN /\ (~broken' => ~broken)
        BY <2>1, UplinkTrack DEF UplinkInv
      <4>2. AtMost(up, edits) /\ edits \in Nat /\ last <= edits
        BY SentIs, LinkAssumption DEF UplinkInv, Edits
      <4>3. /\ temp_buf' \in 0 .. edits
            /\ temp_buf' = 0 \/ (last <= temp_buf' /\ AtMost(up, temp_buf'))
        BY <3>3, <4>2 DEF UplinkInv
      <4>4. UplinkInv'
        BY <3>1, <3>3, <4>1, <4>3 DEF UplinkInv
      <4>5. QED
        BY <2>5, <3>1, <4>4
    <3>4. QED
      BY <2>6, <3>2, <3>3, ServerStep
  <2>7. ASSUME NEW k \in 0 .. Cap, U!Flush(k)
        PROVE  UplinkInv' /\ [U!F!Next]_(U!F!feedVars)
    BY <2>1, <2>5, <2>7, FlushKeeps
  <2>8. CASE U!Check \/ U!ReadTimesOut \/ U!Notify
    <3>1. CASE buffer' = buffer
      BY <2>1, <2>5, <2>8, <3>1, BoardKeeps
    <3>2. CASE buffer # << >> /\ buffer' = << >>
      <4>1. ~U!BreaksUp
        <5>1. U!Notify
          BY <2>8, <3>2 DEF U!Check, U!ReadTimesOut
        <5>2. board = "notify" /\ UNCHANGED worker
          BY <5>1 DEF U!Notify, U!BoardGoto, U!sVars
        <5>3. QED
          BY <5>2 DEF U!BreaksUp, U!S!WriteFails, U!S!Restart, U!S!Goto
      <4>2. broken' = broken
        BY <2>1, <4>1, UplinkTrack DEF UplinkInv
      <4>3. QED
        BY <2>1, <2>8, <3>2, <4>2, BoardKeeps DEF U!F!Next, U!F!Notify
    <3>3. QED
      BY <2>1, <2>8, <3>1, <3>2, BoardKeeps
  <2>9. CASE U!LinkChanges
    <3>1. UNCHANGED << m_buf, temp_buf, up, board, buffer, edits, last >>
      BY <2>9 DEF U!LinkChanges, U!sVars
    <3>2. broken' \in BOOLEAN /\ (~broken' => ~broken)
      BY <2>1, UplinkTrack DEF UplinkInv
    <3>3. UplinkInv'
      BY <3>1, <3>2 DEF UplinkInv
    <3>4. QED
      BY <2>5, <3>1, <3>3
  <2>10. QED
    BY <2>1, <2>3, <2>4, <2>6, <2>7, <2>8, <2>9 DEF U!Act, U!BoardRuns
<1>3. QED
  BY <1>1, <1>2

\* ImplementsFeed: the bytes the board reads are in the order they were sent and its
\* packets are whole until one has been broken up, whatever is written in part, cut by
\* a flush or dropped, and however often the program is closed or crashes.
THEOREM UplinkImplementsFeed == U!Spec => U!ImplementsFeed
<1>1. U!Init => U!F!Init
  BY DEF U!Init, U!F!Init
<1>2. UplinkInv /\ [U!Next]_(U!vars) => UplinkInv' /\ [U!F!Next]_(U!F!feedVars)
  BY UplinkNext
<1>3. QED
  BY <1>1, <1>2, UplinkInit, PTL DEF U!Spec, U!ImplementsFeed, U!F!Spec

-----------------------------------------------------------------------------
(* The client's half: UartLink implements Speedometer while in step. *)

\* The places of the threads, the flags and the bounded counter.
ControlInv ==
  /\ dtor \in {"run", "stop", "wait", "gone"}
  /\ reader \in {"top", "open", "wait", "setStatus", "fail", "close", "closeLast", "done"}
  /\ m_stop \in BOOLEAN /\ m_status \in BOOLEAN /\ open \in BOOLEAN
  /\ tick \in {"idle", "show", "clear"}
  /\ exits \in 0 .. MaxExits

\* The edit m_buffer has for the field, if any, lies between what the field has shown
\* and what is still to come.
HeldInv ==
  \/ m_buffer = << >>
  \/ NoEdit(m_buffer[Followed])
  \/ /\ newest <= m_buffer[Followed][1] /\ m_buffer[Followed][1] <= last
     /\ AtLeast(down, m_buffer[Followed][1])

\* What holds as long as no packet has been broken up.
InStep ==
  /\ Whole(down)
  /\ m_buffer = << >> \/ \E p \in Edits : m_buffer = F!Bytes(p)
  /\ display # Garbage

DataInv ==
  /\ edits \in Edits /\ last \in 0 .. edits /\ newest \in 0 .. last /\ broken \in BOOLEAN
  /\ display \in Edits \cup {Garbage}
  /\ m_buffer \in Seq(Byte) /\ Len(m_buffer) \in {0, SBUFLEN}
  /\ down \in Seq(Byte) /\ Len(down) <= Cap
  /\ Sorted(down) /\ AtMost(down, last) /\ AtLeast(down, newest)
  /\ HeldInv
  /\ ~broken => InStep

LinkInv == ControlInv /\ DataInv

LEMMA LinkInvTypes == LinkInv => TypeOK
<1>. SUFFICES ASSUME LinkInv PROVE TypeOK
  OBVIOUS
<1>1. C!TypeOK
  BY DEF LinkInv, ControlInv, DataInv, C!TypeOK
<1>2. edits \in Edits /\ last \in Edits /\ newest \in Edits
  BY LinkAssumption DEF LinkInv, DataInv, Edits
<1>3. QED
  BY <1>1, <1>2 DEF LinkInv, ControlInv, DataInv, TypeOK

LEMMA LinkInit == Init => LinkInv
<1>. SUFFICES ASSUME Init PROVE LinkInv
  OBVIOUS
<1>1. ControlInv
  <2>1. exits = 0 /\ 0 \in 0 .. MaxExits
    BY LinkAssumption DEF Init
  <2>2. QED
    BY <2>1 DEF Init, C!Started, ControlInv
<1>2. /\ edits = 0 /\ last = 0 /\ newest = 0 /\ display = 0 /\ broken = FALSE
      /\ m_buffer = << >> /\ down = << >>
  BY DEF Init, F!Init, C!Started, C!Zeroed, Blank
<1>3. 0 \in Edits /\ 0 # Garbage
  BY LinkAssumption DEF Edits, Garbage
<1>4. /\ down \in Seq(Byte) /\ Len(down) = 0 /\ m_buffer \in Seq(Byte) /\ Len(m_buffer) = 0
  BY <1>2
<1>5. Sorted(down) /\ AtMost(down, last) /\ AtLeast(down, newest) /\ Len(down) <= Cap
  BY <1>4, LinkAssumption DEF Sorted, AtMost, AtLeast
<1>6. HeldInv /\ InStep
  <2>1. Whole(down)
    BY <1>2, WholeEmpty
  <2>2. display # Garbage
    BY <1>2, <1>3
  <2>3. m_buffer = << >>
    BY <1>2
  <2>4. QED
    BY <2>1, <2>2, <2>3 DEF HeldInv, InStep
<1>7. last \in 0 .. edits /\ newest \in 0 .. last /\ broken \in BOOLEAN
  <2>1. 0 \in 0 .. 0
    OBVIOUS
  <2>2. QED
    BY <1>2, <2>1
<1>8. QED
  BY <1>1, <1>2, <1>3, <1>4, <1>5, <1>6, <1>7 DEF LinkInv, DataInv

LEMMA ControlNext ==
  ASSUME ControlInv, [Next]_vars
  PROVE  ControlInv'
<1>1. CASE UNCHANGED vars
  BY <1>1 DEF ControlInv, vars, clientVars, windowVars
<1>2. CASE PacketBreaks \/ Edit \/ Forward \/ Log \/ LoseUnread
  BY <1>2 DEF ControlInv, PacketBreaks, Edit, Forward, Log, LoseUnread, ClientFrame, clientVars,
              windowVars
<1>3. CASE ClientRuns \/ ClientFails
  <2>1. UNCHANGED << dtor, m_stop, tick, exits >>
    BY <1>3 DEF ClientRuns, ClientFails, windowVars, C!ReaderProgress, C!Top, C!OpenSucceeds, C!OpenFails,
                C!ReadPacket, C!ReadPart, C!WaitTimesOut, C!SetStatus, C!Fail, C!Close,
                C!CloseLast, C!Pass, C!Goto
  <2>2. reader' \in {"top", "open", "wait", "setStatus", "fail", "close", "closeLast", "done"}
    BY <1>3 DEF ClientRuns, ClientFails, C!ReaderProgress, C!Top, C!OpenSucceeds, C!OpenFails,
                C!ReadPacket, C!ReadPart, C!WaitTimesOut, C!SetStatus, C!Fail, C!Close,
                C!CloseLast, C!Pass, C!Goto
  <2>3. m_status' \in {m_status, TRUE, FALSE} /\ open' \in {open, TRUE, FALSE}
    BY <1>3 DEF ClientRuns, ClientFails, C!ReaderProgress, C!Top, C!OpenSucceeds, C!OpenFails,
                C!ReadPacket, C!ReadPart, C!WaitTimesOut, C!SetStatus, C!Fail, C!Close,
                C!CloseLast, C!Pass, C!Goto
  <2>4. QED
    BY <2>1, <2>2, <2>3 DEF ControlInv
<1>4. CASE ClientEnds \/ ClientQuits
  <2>1. dtor' \in {"stop", "wait", "gone"} /\ m_stop' \in {m_stop, TRUE}
    BY <1>4 DEF ClientEnds, ClientQuits, C!Destructor, C!SetStop, C!Wait, C!Quit, C!DtorGoto
  <2>2. UNCHANGED << reader, m_status, open, tick >>
    BY <1>4 DEF ClientEnds, ClientQuits, C!Destructor, C!SetStop, C!Wait, C!Quit, C!DtorGoto,
                C!MainUnchanged, windowVars
  <2>3. exits' \in 0 .. MaxExits
    BY <1>4, LinkAssumption DEF ControlInv, ClientEnds, ClientQuits, Exit
  <2>4. QED
    BY <2>1, <2>2, <2>3 DEF ControlInv
<1>5. CASE Window
  <2>1. tick' \in {"idle", "show", "clear"} /\ exits' = exits
    BY <1>5 DEF Window, Poll, ShowField, Show, ClearBuffer
  <2>2. UNCHANGED << dtor, reader, m_stop, m_status, open >>
    BY <1>5 DEF Window, Poll, ShowField, Show, ClearBuffer, C!ClearBuffer, C!MainUnchanged,
                clientVars
  <2>3. QED
    BY <2>1, <2>2 DEF ControlInv
<1>6. CASE ClientRestarts
  <2>1. exits' \in 0 .. MaxExits
    BY <1>6, LinkAssumption DEF ControlInv, ClientRestarts, Exit
  <2>2. QED
    BY <1>6, <2>1 DEF ControlInv, ClientRestarts, C!Restart
<1>7. QED
  BY <1>1, <1>2, <1>3, <1>4, <1>5, <1>6 DEF Next, Act

LEMMA LinkTrack ==
  ASSUME broken \in BOOLEAN, Track
  PROVE  broken' \in BOOLEAN /\ (~broken' => ~broken /\ ~BreaksUp)
  BY DEF Track

\* An order that holds for an edit holds for an older one, or a newer one.
LEMMA OrderWeaker ==
  ASSUME NEW s \in Seq(Byte), NEW d \in Nat, NEW e \in Nat, d <= e
  PROVE  /\ AtLeast(s, e) => AtLeast(s, d)
         /\ AtMost(s, d) => AtMost(s, e)
<1>1. \A j \in 1 .. Len(s) : s[j][1] \in Nat
  BY ByteType
<1>2. QED
  BY <1>1 DEF AtLeast, AtMost

\* A packet the buffer holds is not the zeroed buffer, and its field is of its edit.
LEMMA HeldIs ==
  ASSUME NEW p \in Edits
  PROVE  /\ F!Bytes(p) # << >>
         /\ F!Bytes(p)[Followed] = IF p = 0 THEN F!ZeroByte ELSE << p, Followed >>
<1>1. p \in Nat /\ SBUFLEN \in Nat \ {0} /\ Followed \in 1 .. SBUFLEN
  BY LinkAssumption DEF Edits
<1>2. Len(F!Bytes(p)) # 0
  BY <1>1, BytesType
<1>3. QED
  BY <1>1, <1>2, BytesType DEF F!ZeroByte

\* A step that moves no byte.
LEMMA QuietKeeps ==
  ASSUME DataInv, UNCHANGED << edits, last, newest, down >>,
         display' = display \/ display' = Blank,
         m_buffer' = m_buffer \/ m_buffer' = << >>,
         broken' \in BOOLEAN, ~broken' => ~broken
  PROVE  DataInv'
<1>1. Blank \in Edits /\ Blank # Garbage
  BY LinkAssumption DEF Blank, Edits, Garbage
<1>2. m_buffer' \in Seq(Byte) /\ Len(m_buffer') \in {0, SBUFLEN}
  <2>1. CASE m_buffer' = m_buffer
    BY <2>1 DEF DataInv
  <2>2. CASE m_buffer' = << >>
    BY <2>2
  <2>3. QED
    BY <2>1, <2>2
<1>3. HeldInv'
  BY DEF DataInv, HeldInv
<1>4. ~broken' => InStep'
  BY <1>1 DEF DataInv, InStep
<1>5. QED
  BY <1>1, <1>2, <1>3, <1>4 DEF DataInv

LEMMA EditStep ==
  ASSUME DataInv, Edit, broken' \in BOOLEAN, ~broken' => ~broken
  PROVE  DataInv'
<1>1. UNCHANGED << last, newest, down, display, m_buffer >>
  BY DEF Edit, F!Edit, ClientFrame, clientVars, windowVars
<1>2. edits' \in Edits /\ last' \in 0 .. edits'
  BY <1>1, LinkAssumption DEF Edit, F!Edit, DataInv, Edits
<1>3. HeldInv' /\ (~broken' => InStep')
  BY <1>1 DEF DataInv, HeldInv, InStep
<1>4. QED
  BY <1>1, <1>2, <1>3 DEF DataInv

\* Bytes are taken off the line, or lost, and kept nowhere.
LEMMA LineDrops ==
  ASSUME DataInv, UNCHANGED << edits, last, newest, display, m_buffer >>,
         NEW k \in 0 .. Len(down), down' = SubSeq(down, k + 1, Len(down)),
         broken' \in BOOLEAN, ~broken' => ~broken /\ Whole(down')
  PROVE  DataInv'
<1>1. down \in Seq(Byte) /\ last \in Nat /\ newest \in Nat /\ k \in Nat
  BY DEF DataInv, Edits
<1>2. /\ down' \in Seq(Byte) /\ Len(down') <= Cap
      /\ Sorted(down') /\ AtMost(down', last) /\ AtLeast(down', newest)
  <2>1. /\ down' \in Seq(Byte) /\ Len(down') = Len(down) - k
        /\ Sorted(down) => Sorted(down')
        /\ \A e \in Nat : AtLeast(down, e) => AtLeast(down', e)
        /\ \A e \in Nat : AtMost(down, e) => AtMost(down', e)
    BY <1>1, OrderDrop
  <2>2. QED
    BY <1>1, <2>1, LinkAssumption DEF DataInv
<1>3. HeldInv'
  <2>1. CASE m_buffer = << >> \/ NoEdit(m_buffer[Followed])
    BY <2>1 DEF HeldInv
  <2>2. CASE ~(m_buffer = << >> \/ NoEdit(m_buffer[Followed]))
    <3>1. /\ newest <= m_buffer[Followed][1] /\ m_buffer[Followed][1] <= last
          /\ AtLeast(down, m_buffer[Followed][1])
      BY <2>2 DEF DataInv, HeldInv
    <3>2. m_buffer[Followed][1] \in Nat
      <4>1. Followed \in 1 .. Len(m_buffer)
        BY <2>2, LinkAssumption DEF DataInv
      <4>2. QED
        BY <4>1, ByteType DEF DataInv
    <3>3. AtLeast(down', m_buffer[Followed][1])
      BY <1>1, <3>1, <3>2, OrderDrop
    <3>4. QED
      BY <3>1, <3>3 DEF HeldInv
  <2>3. QED
    BY <2>1, <2>2
<1>4. ~broken' => InStep'
  BY DEF DataInv, InStep
<1>5. QED
  BY <1>2, <1>3, <1>4 DEF DataInv

\* A packet, or what stands in its place, is read into the buffer.
LEMMA ReadStep ==
  ASSUME DataInv, UNCHANGED << edits, last, newest, display >>, C!ReadPacket,
         broken' \in BOOLEAN, ~broken' => ~broken
  PROVE  DataInv'
<1>. DEFINE b == SubSeq(down, 1, SBUFLEN)
<1>1. m_buffer' = b /\ down' = SubSeq(down, SBUFLEN + 1, Len(down)) /\ Len(down) >= SBUFLEN
  BY DEF C!ReadPacket, C!Drop
<1>2. /\ down \in Seq(Byte) /\ last \in Nat /\ newest \in Nat /\ SBUFLEN \in 0 .. Len(down)
      /\ Followed \in 1 .. SBUFLEN /\ SBUFLEN \in Nat \ {0} /\ Followed \in 1 .. Len(down)
  BY <1>1, LinkAssumption DEF DataInv, Edits
<1>3. b \in Seq(Byte) /\ Len(b) = SBUFLEN /\ b[Followed] = down[Followed]
  BY <1>2, OrderTake
<1>4. /\ down' \in Seq(Byte) /\ Len(down') = Len(down) - SBUFLEN
      /\ \A j \in 1 .. Len(down') : down'[j] = down[j + SBUFLEN]
  BY <1>1, <1>2, Dropped
<1>5. Sorted(down') /\ AtMost(down', last) /\ AtLeast(down', newest) /\ Len(down') <= Cap
  <2>1. /\ Sorted(down) => Sorted(down')
        /\ \A e \in Nat : AtLeast(down, e) => AtLeast(down', e)
        /\ \A e \in Nat : AtMost(down, e) => AtMost(down', e)
    BY <1>1, <1>2, OrderDrop
  <2>2. QED
    BY <1>2, <1>4, <2>1, LinkAssumption DEF DataInv
<1>6. HeldInv'
  <2>. HIDE DEF b
  <2>1. CASE NoEdit(down[Followed])
    BY <1>1, <1>3, <2>1 DEF HeldInv
  <2>2. CASE ~NoEdit(down[Followed])
    <3>1. newest <= down[Followed][1] /\ down[Followed][1] <= last
      BY <1>2, <2>2 DEF DataInv, AtLeast, AtMost
    <3>2. AtLeast(down', down[Followed][1])
      <4>. SUFFICES ASSUME NEW j \in 1 .. Len(down'), ~NoEdit(down'[j])
                    PROVE  down[Followed][1] <= down'[j][1]
        BY DEF AtLeast
      <4>1. /\ j + SBUFLEN \in 1 .. Len(down) /\ Followed <= j + SBUFLEN
            /\ down'[j] = down[j + SBUFLEN]
        BY <1>2, <1>4
      <4>2. QED
        BY <1>2, <2>2, <4>1 DEF DataInv, Sorted
    <3>3. QED
      BY <1>1, <1>3, <3>1, <3>2 DEF HeldInv
  <2>3. QED
    BY <2>1, <2>2
<1>7. ~broken' => InStep'
  <2>. SUFFICES ASSUME ~broken, Whole(down), display # Garbage PROVE InStep'
    BY DEF DataInv, InStep
  <2>1. Whole(down')
    BY <1>1, <1>2, OffFacts, WholeDrop
  <2>2. PICK p \in Nat : b = F!Bytes(p)
    BY <1>1, <1>2, WholeFirst
  <2>3. p \in Edits
    <3>. HIDE DEF b
    <3>1. b[Followed] \in Byte
      BY <1>2, <1>3
    <3>2. b[Followed] = IF p = 0 THEN << 0, 0 >> ELSE << p, Followed >>
      BY <1>2, <2>2, BytesType
    <3>3. QED
      BY <1>2, <3>1, <3>2, LinkAssumption DEF Byte, Edits
  <2>4. QED
    BY <1>1, <2>1, <2>2, <2>3 DEF InStep
<1>8. m_buffer' \in Seq(Byte) /\ Len(m_buffer') \in {0, SBUFLEN}
  BY <1>1, <1>3
<1>9. QED
  <2>. HIDE DEF b
  <2>1. QED
    BY <1>4, <1>5, <1>6, <1>7, <1>8 DEF DataInv

\* The board puts a packet on the line.
LEMMA ForwardStep ==
  ASSUME DataInv, Forward, broken' \in BOOLEAN, ~broken' => ~broken
  PROVE  DataInv'
<1>1. PICK b \in F!Readable : down' = down \o b /\ last' = F!Newest(b, last)
  BY DEF Forward
<1>2. /\ UNCHANGED << edits, newest, display, m_buffer >>
      /\ Len(down) + SBUFLEN <= Cap
  BY DEF Forward, ClientFrame, clientVars, windowVars
<1>3. /\ edits \in Edits /\ edits \in Nat /\ last \in 0 .. edits /\ last \in Edits /\ last \in Nat
      /\ newest \in 0 .. last /\ newest \in Nat /\ newest <= last
      /\ SBUFLEN \in Nat \ {0} /\ Followed \in 1 .. SBUFLEN
  BY LinkAssumption DEF DataInv, Edits
<1>4. F!InOrder(b, last)
  BY DEF F!Readable
<1>5. ~broken => \E p \in 0 .. edits : b = F!Bytes(p)
  BY DEF F!Readable
<1>6. b \in Seq(Sent(edits)) /\ Len(b) = SBUFLEN
  <2>1. CASE broken
    <3>1. b \in [1 .. SBUFLEN -> Sent(edits)]
      BY <2>1 DEF F!Readable, F!Place, F!ZeroByte, Sent
    <3>2. QED
      BY <1>3, <3>1
  <2>2. CASE ~broken
    <3>1. PICK p \in 0 .. edits : b = F!Bytes(p)
      BY <1>5, <2>2
    <3>2. p \in Edits /\ p \in Nat /\ p <= edits
      BY <1>3, <3>1, LinkAssumption DEF Edits
    <3>3. F!Bytes(p) \in Seq(Sent(edits))
      BY <1>3, <3>2, BytesOrdered, SentIs
    <3>4. QED
      BY <3>1, <3>2, <3>3, BytesType
  <2>3. QED
    BY <2>1, <2>2, <1>3 DEF DataInv
<1>7. /\ b \in Seq(Byte)
      /\ \A j \in 1 .. SBUFLEN : b[j][1] \in 0 .. edits /\ (NoEdit(b[j]) => b[j][1] = 0)
  BY <1>3, <1>6, SentIs
<1>8. Sorted(b) /\ AtLeast(b, last)
  <2>1. \A i, j \in 1 .. SBUFLEN : i <= j => b[j][1] = 0 \/ b[i][1] <= b[j][1]
    BY <1>3, <1>4 DEF F!InOrder, F!Place
  <2>2. \A j \in 1 .. SBUFLEN : b[j][1] = 0 \/ last <= b[j][1]
    BY <1>3, <1>4 DEF F!InOrder, F!Place
  <2>3. \A j \in 1 .. SBUFLEN : b[j][1] = 0 => NoEdit(b[j])
    BY DEF NoEdit
  <2>4. QED
    BY <1>6, <2>1, <2>2, <2>3 DEF Sorted, AtLeast
<1>9. /\ last' \in 0 .. edits /\ last <= last'
      /\ \A i \in 1 .. SBUFLEN : b[i][1] <= last'
      /\ last' = last \/ \E i \in 1 .. SBUFLEN : last' = b[i][1]
  <2>1. \A i \in 1 .. SBUFLEN : b[i][1] \in Edits
    BY <1>3, <1>7, LinkAssumption DEF Edits
  <2>2. /\ last' \in Edits /\ last <= last'
        /\ \A i \in 1 .. SBUFLEN : b[i][1] <= last'
        /\ last' = last \/ \E i \in 1 .. SBUFLEN : last' = b[i][1]
    BY <1>1, <1>3, <2>1, NewestIs
  <2>3. last' <= edits
    BY <1>3, <1>7, <2>2 DEF Edits
  <2>4. QED
    BY <1>3, <2>2, <2>3 DEF Edits
<1>10. down \in Seq(Byte) /\ Sorted(down) /\ AtMost(down, last) /\ AtLeast(down, newest)
  BY DEF DataInv
<1>11. /\ down' \in Seq(Byte) /\ Len(down') = Len(down) + Len(b) /\ Sorted(down')
       /\ \A d : AtLeast(down, d) /\ AtLeast(b, d) => AtLeast(down', d)
       /\ \A d : AtMost(down, d) /\ AtMost(b, d) => AtMost(down', d)
  BY <1>1, <1>3, <1>7, <1>8, <1>10, OrderConcat
<1>12. AtMost(down', last') /\ last' \in Nat
  <2>1. last' \in Nat
    BY <1>3, <1>9
  <2>2. AtMost(down, last')
    BY <1>3, <1>9, <1>10, <2>1, OrderWeaker
  <2>3. AtMost(b, last')
    BY <1>6, <1>9 DEF AtMost
  <2>4. QED
    BY <1>11, <2>1, <2>2, <2>3
<1>13. \A d \in Nat : d <= last /\ AtLeast(down, d) => AtLeast(down', d)
  BY <1>3, <1>7, <1>8, <1>11, OrderWeaker
<1>14. HeldInv'
  <2>1. CASE m_buffer = << >> \/ NoEdit(m_buffer[Followed])
    BY <1>2, <2>1 DEF HeldInv
  <2>2. CASE ~(m_buffer = << >> \/ NoEdit(m_buffer[Followed]))
    <3>1. /\ newest <= m_buffer[Followed][1] /\ m_buffer[Followed][1] <= last
          /\ AtLeast(down, m_buffer[Followed][1])
      BY <2>2 DEF DataInv, HeldInv
    <3>2. m_buffer[Followed][1] \in Nat
      <4>1. Followed \in 1 .. Len(m_buffer)
        BY <1>3, <2>2 DEF DataInv
      <4>2. QED
        BY <4>1, ByteType DEF DataInv
    <3>3. AtLeast(down', m_buffer[Followed][1]) /\ m_buffer[Followed][1] <= last'
      BY <1>3, <1>9, <1>12, <1>13, <3>1, <3>2
    <3>4. QED
      BY <1>2, <3>1, <3>3 DEF HeldInv
  <2>3. QED
    BY <2>1, <2>2
<1>15. ~broken' => InStep'
  <2>. SUFFICES ASSUME ~broken, InStep PROVE InStep'
    BY DEF DataInv
  <2>1. PICK p \in 0 .. edits : b = F!Bytes(p)
    BY <1>5
  <2>2. Whole(down')
    BY <1>1, <1>3, <1>10, <2>1, WholeAppend DEF InStep
  <2>3. QED
    BY <1>2, <2>2 DEF InStep
<1>16. newest' \in 0 .. last' /\ Len(down') <= Cap /\ AtLeast(down', newest')
  <2>1. newest' \in 0 .. last'
    BY <1>2, <1>3, <1>9, <1>12
  <2>2. Len(down') <= Cap
    BY <1>2, <1>6, <1>11
  <2>3. AtLeast(down', newest')
    BY <1>2, <1>3, <1>10, <1>13
  <2>4. QED
    BY <2>1, <2>2, <2>3
<1>17. QED
  BY <1>2, <1>9, <1>11, <1>12, <1>14, <1>15, <1>16 DEF DataInv

\* The board's log puts a byte on the line.
LEMMA LogStep ==
  ASSUME DataInv, Log, broken' = TRUE
  PROVE  DataInv'
<1>. DEFINE g == << << Garbage, 0 >> >>
<1>1. /\ UNCHANGED << edits, last, newest, display, m_buffer >>
      /\ Len(down) < Cap
  BY DEF Log, ClientFrame, feedVars, clientVars, windowVars
<1>2. g \in Seq(Byte) /\ Len(g) = 1 /\ g[1][1] = Garbage
  <2>1. << Garbage, 0 >> \in Byte
    BY DEF Byte
  <2>2. QED
    BY <2>1
<1>3. down \in Seq(Byte) /\ down' = down \o g
  <2>1. \A T : \A s \in Seq(T), x \in T : Append(s, x) = s \o << x >>
    OBVIOUS
  <2>2. down \in Seq(Byte) /\ << Garbage, 0 >> \in Byte
    BY DEF DataInv, Byte
  <2>3. down' = Append(down, << Garbage, 0 >>)
    BY DEF Log
  <2>4. QED
    BY <2>1, <2>2, <2>3, Zenon
<1>4. last \in Nat /\ newest \in Nat
  BY DEF DataInv, Edits
<1>. HIDE DEF g
<1>5. Sorted(g) /\ \A e : AtLeast(g, e) /\ AtMost(g, e)
  BY <1>2 DEF Sorted, AtLeast, AtMost, NoEdit
<1>6. /\ down' \in Seq(Byte) /\ Len(down') = Len(down) + 1
      /\ Sorted(down')
      /\ \A d : AtLeast(down, d) => AtLeast(down', d)
      /\ \A d : AtMost(down, d) => AtMost(down', d)
  BY <1>2, <1>3, <1>4, <1>5, OrderConcat DEF DataInv
<1>7. Len(down') <= Cap
  BY <1>1, <1>3, <1>6, LinkAssumption
<1>8. HeldInv'
  BY <1>1, <1>6 DEF DataInv, HeldInv
<1>9. broken' \in BOOLEAN
  OBVIOUS
<1>10. QED
  BY <1>1, <1>6, <1>7, <1>8, <1>9 DEF DataInv

\* What the getter makes of its byte: blank, an edit the field may show, or garbage,
\* and that only after a packet was broken up.
LEMMA ShownIs ==
  ASSUME DataInv
  PROVE  LET v == Shown(Followed) IN
         \/ v = Blank
         \/ v = Garbage /\ broken
         \/ /\ v \in 1 .. MaxEdits /\ newest <= v /\ v <= last /\ AtLeast(down, v)
            /\ m_buffer[Followed][1] = v
<1>. DEFINE b == m_buffer[Followed]
<1>1. CASE m_buffer = C!Zeroed \/ b = F!ZeroByte
  BY <1>1 DEF Shown
<1>2. CASE m_buffer # C!Zeroed /\ b # F!ZeroByte
  <2>1. Shown(Followed) = IF b[2] = Followed THEN b[1] ELSE Garbage
    BY <1>2 DEF Shown
  <2>2. m_buffer # << >> /\ b # << 0, 0 >>
    BY <1>2 DEF C!Zeroed, F!ZeroByte
  <2>3. b \in Byte /\ Followed \in 1 .. SBUFLEN
    <3>1. Followed \in 1 .. SBUFLEN
      BY LinkAssumption
    <3>2. Len(m_buffer) = SBUFLEN
      BY <2>2 DEF DataInv
    <3>3. QED
      BY <3>1, <3>2 DEF DataInv
  <2>. HIDE DEF b
  <2>4. CASE b[2] = Followed
    <3>1. b[1] \in 1 .. MaxEdits /\ ~NoEdit(b)
      BY <2>2, <2>3, <2>4, LinkAssumption DEF Byte, NoEdit, Garbage
    <3>2. newest <= b[1] /\ b[1] <= last /\ AtLeast(down, b[1])
      BY <2>2, <3>1 DEF DataInv, HeldInv, b
    <3>3. QED
      BY <2>1, <2>4, <3>1, <3>2 DEF b
  <2>5. CASE b[2] # Followed
    <3>1. broken
      <4>. SUFFICES ASSUME ~broken PROVE FALSE
        OBVIOUS
      <4>1. PICK p \in Edits : m_buffer = F!Bytes(p)
        BY <2>2 DEF DataInv, InStep
      <4>2. b = IF p = 0 THEN << 0, 0 >> ELSE << p, Followed >>
        BY <4>1, HeldIs DEF b, F!ZeroByte
      <4>3. QED
        BY <2>2, <2>5, <4>2
    <3>2. QED
      BY <2>1, <2>5, <3>1
  <2>6. QED
    BY <2>4, <2>5
<1>3. QED
  BY <1>1, <1>2

\* A step that leaves the panel alone and shows no edit clears the field on display,
\* or changes nothing there.
LEMMA NothingShown ==
  ASSUME DataInv, DataInv', UNCHANGED << edits, newest >>,
         display' \in {display, Blank, Garbage}, ~broken' => ~broken
  PROVE  [Aligned!Next]_(Aligned!vars)
<1>. DEFINE M == IF broken /\ display = Garbage THEN Blank ELSE display
<1>1. M' = M \/ M' = Blank
  <2>1. display' = Garbage => broken'
    BY DEF DataInv, InStep
  <2>2. display = Garbage => broken
    BY DEF DataInv, InStep
  <2>3. QED
    BY <2>1, <2>2 DEF Blank
<1>2. CASE M' = M
  BY <1>2 DEF Aligned!vars, OneField
<1>3. CASE M' = Blank
  <2>. HIDE DEF M
  <2>1. OneField(M)' = [f \in {Followed} |-> IF f \in {Followed} THEN Aligned!Blank ELSE OneField(M)[f]]
    BY <1>3 DEF OneField, Blank, Aligned!Blank
  <2>2. UNCHANGED << edits, OneField(newest) >>
    BY DEF OneField
  <2>3. Aligned!Clear({Followed})
    BY <2>1, <2>2 DEF Aligned!Clear, M
  <2>4. QED
    BY <2>3 DEF Aligned!Next
<1>4. QED
  BY <1>1, <1>2, <1>3

LEMMA ShowStep ==
  ASSUME DataInv, ShowField, broken' \in BOOLEAN, ~broken' => ~broken
  PROVE  DataInv' /\ [Aligned!Next]_(Aligned!vars)
<1>. DEFINE v == Shown(Followed)
<1>1. /\ UNCHANGED << edits, last, m_buffer, down >>
      /\ display' = v /\ newest' = IF v \in {Blank, Garbage} THEN newest ELSE v
  BY DEF ShowField, Show, feedVars, clientVars
<1>2. \/ v = Blank
      \/ v = Garbage /\ broken
      \/ /\ v \in 1 .. MaxEdits /\ newest <= v /\ v <= last /\ AtLeast(down, v)
         /\ m_buffer[Followed][1] = v
  BY ShownIs
<1>. HIDE DEF v
<1>3. 0 \in Edits /\ Blank = 0 /\ Garbage = MaxEdits + 1 /\ MaxEdits \in Nat /\ 0 # Garbage
  BY LinkAssumption DEF Edits, Blank, Garbage
<1>4. CASE v = Blank \/ (v = Garbage /\ broken)
  <2>1. newest' = newest
    BY <1>1, <1>4
  <2>2. DataInv'
    <3>1. display' \in Edits \cup {Garbage}
      BY <1>1, <1>3, <1>4
    <3>2. HeldInv'
      BY <1>1, <2>1 DEF DataInv, HeldInv
    <3>3. ~broken' => InStep'
      BY <1>1, <1>3, <1>4 DEF DataInv, InStep
    <3>4. QED
      BY <1>1, <2>1, <3>1, <3>2, <3>3 DEF DataInv
  <2>3. display' \in {display, Blank, Garbage}
    BY <1>1, <1>4
  <2>4. QED
    BY <1>1, <2>1, <2>2, <2>3, NothingShown
<1>5. CASE /\ v \in 1 .. MaxEdits /\ newest <= v /\ v <= last /\ AtLeast(down, v)
           /\ m_buffer[Followed][1] = v
  <2>1. v # Blank /\ v # Garbage /\ v \in Edits /\ newest' = v
    BY <1>1, <1>3, <1>5 DEF Edits
  <2>2. last \in Nat /\ edits \in Nat /\ newest \in Nat /\ last <= edits
    BY DEF DataInv, Edits
  <2>3. DataInv'
    <3>1. newest' \in 0 .. last'
      BY <1>1, <1>5, <2>1, <2>2
    <3>2. HeldInv'
      BY <1>1, <1>5, <2>1 DEF HeldInv
    <3>3. ~broken' => InStep'
      BY <1>1, <2>1 DEF DataInv, InStep
    <3>4. QED
      BY <1>1, <1>5, <2>1, <3>1, <3>2, <3>3 DEF DataInv
  <2>4. Aligned!Show(Followed)
    <3>1. v \in newest .. edits
      BY <1>5, <2>1, <2>2
    <3>2. OneField(newest)[Followed] = newest /\ OneField(newest)' = [OneField(newest) EXCEPT ![Followed] = v]
      BY <2>1 DEF OneField
    <3>3. OneField(IF broken /\ display = Garbage THEN Blank ELSE display)'
            = [OneField(IF broken /\ display = Garbage THEN Blank ELSE display) EXCEPT ![Followed] = v]
      BY <1>1, <2>1 DEF OneField
    <3>4. QED
      BY <1>1, <3>1, <3>2, <3>3 DEF Aligned!Show
  <2>5. QED
    BY <2>3, <2>4 DEF Aligned!Next
<1>6. QED
  BY <1>2, <1>4, <1>5

\* The port is opened: what it had is dropped, whole packets of it unless one is
\* broken up.
LEMMA OpenStep ==
  ASSUME DataInv, UNCHANGED << edits, last, newest, display >>, C!OpenSucceeds,
         broken' \in BOOLEAN, ~broken' => ~broken /\ ~BreaksUp
  PROVE  DataInv'
<1>1. PICK k \in 0 .. Len(down) : down' = SubSeq(down, k + 1, Len(down))
  BY DEF C!OpenSucceeds, C!Drop
<1>2. UNCHANGED m_buffer /\ reader = "open"
  BY DEF C!OpenSucceeds, C!Goto
<1>3. down \in Seq(Byte) /\ Len(down) \in Nat /\ k \in Nat
  BY DEF DataInv
<1>4. Len(down') = Len(down) - k
  BY <1>1, <1>3, Dropped
<1>5. ASSUME ~broken' PROVE Whole(down')
  <2>1. Whole(down) /\ ~BreaksUp
    BY <1>5 DEF DataInv, InStep
  <2>2. CASE down' = << >>
    BY <2>2, WholeEmpty
  <2>3. CASE down' # << >>
    <3>1. (Len(down) - Len(down')) % SBUFLEN = 0
      BY <1>2, <2>1, <2>3 DEF BreaksUp
    <3>2. Len(down) - Len(down') = k
      BY <1>3, <1>4
    <3>3. PICK q \in Nat : k = Off(q)
      BY <1>3, <3>1, <3>2, OffOfWhole
    <3>4. QED
      BY <1>1, <1>3, <2>1, <3>3, WholeDrop
  <2>4. QED
    BY <2>2, <2>3
<1>6. QED
  BY <1>1, <1>2, <1>5, LineDrops

\* A part of a packet is read and thrown away.
LEMMA PartStep ==
  ASSUME DataInv, UNCHANGED << edits, last, newest, display >>,
         NEW k \in 1 .. SBUFLEN - 1, C!ReadPart(k),
         broken' \in BOOLEAN, ~broken' => ~broken /\ ~BreaksUp
  PROVE  DataInv'
<1>1. BreaksUp
  BY DEF BreaksUp
<1>2. k \in 0 .. Len(down) /\ down' = SubSeq(down, k + 1, Len(down)) /\ UNCHANGED m_buffer
  <2>1. k <= Len(down) /\ down' = SubSeq(down, k + 1, Len(down)) /\ UNCHANGED m_buffer
    BY DEF C!ReadPart, C!Drop
  <2>2. Len(down) \in Nat
    BY DEF DataInv
  <2>3. QED
    BY <2>1, <2>2, LinkAssumption
<1>3. QED
  BY <1>1, <1>2, LineDrops

LEMMA DataNext ==
  ASSUME DataInv, [Next]_vars
  PROVE  DataInv' /\ [Aligned!Next]_(Aligned!vars)
<1>1. ASSUME UNCHANGED << edits, last, newest, down >>,
             display' = display \/ display' = Blank,
             m_buffer' = m_buffer \/ m_buffer' = << >>,
             broken' \in BOOLEAN, ~broken' => ~broken
      PROVE  DataInv' /\ [Aligned!Next]_(Aligned!vars)
  <2>1. DataInv'
    BY <1>1, QuietKeeps
  <2>2. display' \in {display, Blank, Garbage}
    BY <1>1
  <2>3. QED
    BY <1>1, <2>1, <2>2, NothingShown
<1>2. CASE UNCHANGED vars
  <2>1. UNCHANGED << edits, last, newest, down, display, m_buffer, broken >>
    BY <1>2 DEF vars, feedVars, clientVars, windowVars
  <2>2. broken' \in BOOLEAN /\ (~broken' => ~broken)
    BY <2>1 DEF DataInv
  <2>3. QED
    BY <1>1, <2>1, <2>2
<1>3. CASE PacketBreaks
  <2>1. UNCHANGED << edits, last, newest, down, display, m_buffer >> /\ broken' = TRUE
    BY <1>3 DEF PacketBreaks, F!Break, ClientFrame, clientVars, windowVars
  <2>2. broken' \in BOOLEAN /\ (~broken' => ~broken)
    BY <2>1
  <2>3. QED
    BY <1>1, <2>1, <2>2
<1>4. CASE Act /\ Track
  <2>1. broken' \in BOOLEAN /\ (~broken' => ~broken /\ ~BreaksUp)
    BY <1>4, LinkTrack DEF DataInv
  <2>2. ASSUME DataInv', UNCHANGED << edits, newest, display >>
        PROVE  DataInv' /\ [Aligned!Next]_(Aligned!vars)
    BY <2>1, <2>2, NothingShown
  <2>3. CASE Edit
    <3>1. DataInv'
      BY <2>1, <2>3, EditStep
    <3>2. UNCHANGED << newest, display >> /\ edits' = edits + 1
      BY <2>3 DEF Edit, F!Edit, ClientFrame, windowVars
    <3>3. (IF broken /\ display = Garbage THEN Blank ELSE display)'
            = IF broken /\ display = Garbage THEN Blank ELSE display
      <4>1. (display = Garbage => broken) /\ (display' = Garbage => broken')
        BY <3>1 DEF DataInv, InStep
      <4>2. QED
        BY <3>2, <4>1 DEF Garbage
    <3>4. Aligned!Edit
      BY <3>2, <3>3 DEF Aligned!Edit, OneField
    <3>5. QED
      BY <3>1, <3>4 DEF Aligned!Next
  <2>4. CASE Forward
    <3>1. UNCHANGED << edits, newest, display >>
      BY <2>4 DEF Forward, ClientFrame, windowVars
    <3>2. QED
      BY <2>1, <2>2, <2>4, <3>1, ForwardStep
  <2>5. CASE Log
    <3>1. UNCHANGED << edits, newest, display >>
      BY <2>5 DEF Log, ClientFrame, feedVars, windowVars
    <3>2. broken' = TRUE
      BY <2>1, <2>5 DEF BreaksUp
    <3>3. QED
      BY <2>2, <2>5, <3>1, <3>2, LogStep
  <2>6. CASE LoseUnread
    <3>1. UNCHANGED << edits, last, newest, display, m_buffer >> /\ down' = << >>
      BY <2>6 DEF LoseUnread, ClientFrame, feedVars, clientVars, windowVars
    <3>2. down \in Seq(Byte) /\ Len(down) \in 0 .. Len(down)
      BY DEF DataInv
    <3>3. down' = SubSeq(down, Len(down) + 1, Len(down))
      BY <3>1, <3>2
    <3>4. DataInv'
      BY <2>1, <3>1, <3>2, <3>3, WholeEmpty, LineDrops
    <3>5. QED
      BY <2>2, <3>1, <3>4
  <2>7. CASE ClientRuns \/ ClientFails
    <3>1. UNCHANGED << edits, last, newest, display >>
      BY <2>7 DEF ClientRuns, ClientFails, feedVars, windowVars
    <3>2. CASE C!OpenSucceeds
      BY <2>1, <2>2, <3>1, <3>2, OpenStep
    <3>3. CASE C!ReadPacket
      BY <2>1, <2>2, <3>1, <3>3, ReadStep
    <3>4. CASE \E k \in 1 .. SBUFLEN - 1 : C!ReadPart(k)
      BY <2>1, <2>2, <3>1, <3>4, PartStep
    <3>5. CASE \/ C!Top \/ C!OpenFails \/ C!WaitTimesOut \/ C!SetStatus \/ C!Fail \/ C!Close
               \/ C!CloseLast
      <4>1. UNCHANGED << down, m_buffer >>
        BY <3>5 DEF C!Top, C!OpenFails, C!WaitTimesOut, C!SetStatus, C!Fail, C!Close,
                    C!CloseLast, C!Pass
      <4>2. QED
        BY <1>1, <2>1, <3>1, <4>1
    <3>6. QED
      BY <2>7, <3>2, <3>3, <3>4, <3>5 DEF ClientRuns, ClientFails, C!ReaderProgress
  <2>8. CASE ClientEnds \/ ClientQuits
    <3>1. UNCHANGED << edits, last, newest, display, down, m_buffer >>
      BY <2>8 DEF ClientEnds, ClientQuits, C!Destructor, C!SetStop, C!Wait, C!Quit, C!DtorGoto,
                  C!MainUnchanged, feedVars, windowVars
    <3>2. QED
      BY <1>1, <2>1, <3>1
  <2>9. CASE Poll \/ ClearBuffer
    <3>1. /\ UNCHANGED << edits, last, newest, down >>
          /\ display' = display \/ display' = Blank
          /\ m_buffer' = m_buffer \/ m_buffer' = << >>
      BY <2>9 DEF Poll, ClearBuffer, C!ClearBuffer, C!MainUnchanged, C!Zeroed, feedVars, clientVars
    <3>2. QED
      BY <1>1, <2>1, <3>1
  <2>10. CASE ShowField
    BY <2>1, <2>10, ShowStep
  <2>11. CASE ClientRestarts
    <3>1. UNCHANGED << edits, last, newest, down >> /\ display' = Blank /\ m_buffer' = << >>
      BY <2>11 DEF ClientRestarts, C!Restart, C!Zeroed, feedVars
    <3>2. QED
      BY <1>1, <2>1, <3>1
  <2>12. QED
    BY <1>4, <2>3, <2>4, <2>5, <2>6, <2>7, <2>8, <2>9, <2>10, <2>11 DEF Act, Window
<1>5. QED
  BY <1>2, <1>3, <1>4 DEF Next

\* TypeOK of the client's half: whatever is written, lost or broken up, the serial line
\* never holds more than it can, m_buffer is zeroed or SBUFLEN bytes long, and the
\* field shows an edit of the panel or a value that never was one.
THEOREM UartTypeCorrect == Spec => []TypeOK
<1>1. LinkInv /\ [Next]_vars => LinkInv'
  BY ControlNext, DataNext DEF LinkInv
<1>2. QED
  BY <1>1, LinkInit, LinkInvTypes, PTL DEF Spec

\* SameWhileInStep: over the UART the window behaves like over TCP until the first packet
\* is broken up, and even then no field goes back to an edit older than it has shown.
THEOREM UartSameWhileInStep == Spec => SameWhileInStep
<1>1. Init => Aligned!Init
  <2>1. SUFFICES ASSUME Init PROVE Aligned!Init
    OBVIOUS
  <2>2. edits = 0 /\ broken = FALSE /\ display = Blank /\ newest = Blank
    BY <2>1 DEF Init, F!Init
  <2>3. QED
    BY <2>2 DEF Aligned!Init, Aligned!Blank, OneField, Blank
<1>2. LinkInv /\ [Next]_vars => LinkInv' /\ [Aligned!Next]_(Aligned!vars)
  BY ControlNext, DataNext DEF LinkInv
<1>3. QED
  BY <1>1, <1>2, LinkInit, PTL DEF Spec, SameWhileInStep, Aligned!Spec

=============================================================================
