----------------------------- MODULE LinkProofs -----------------------------
(***************************************************************************)
(* Theorems about the jitter buffer and about the stream that feeds it     *)
(* over the network.  The first part is about the jitter buffer alone      *)
(* (Jitter), for every width of the sequence numbers, concealment limit,   *)
(* depth, ring and jitter estimate that JitterAssumption allows.  The      *)
(* second is about the whole path (Link, which EXTENDS Jitter), for any    *)
(* number and length of streams, messages under way and restarts of the    *)
(* daemon that LinkAssumption allows; it rests on the jitter buffer's      *)
(* invariant Inv.                                                          *)
(***************************************************************************)
EXTENDS Link, SequenceTheorems, TLAPS

\* The constants in the form the arithmetic lemmas need.
LEMMA Constants ==
    /\ SeqSize \in Nat \ {0} /\ SeqSize \div 2 \in 2..SeqSize
    /\ MaxConcealed \in Nat \ {0} /\ MaxConcealed < SeqSize \div 2
    /\ MaxDepth \in Nat \ {0} /\ FirstDepth \in 1..MaxDepth
    /\ RecalcEvery \in Nat \ {0} /\ Estimate \subseteq Int
    /\ RingFrames \in Nat /\ MaxDepth <= RingFrames /\ MaxRead \in Nat
BY JitterAssumption

\* Division by SeqSize leaves a remainder in range.
LEMMA ModSplit ==
    ASSUME NEW a \in Int
    PROVE  a % SeqSize \in 0..SeqSize - 1 /\ \E k \in Int : a = (a % SeqSize) + SeqSize * k
<1>1. \A m \in Nat \ {0} : \A b \in Int :
        b % m \in 0..m - 1 /\ b \div m \in Int /\ b = (b % m) + m * (b \div m)
  OBVIOUS
<1> QED
  BY <1>1, Constants

\* A number in range is its own remainder.
LEMMA ModSmall == ASSUME NEW r \in 0..SeqSize - 1 PROVE r % SeqSize = r
BY Constants

\* Numbers a multiple of SeqSize apart leave the same remainder.
LEMMA ModEqual ==
    ASSUME NEW a \in Int, NEW b \in Int, NEW k \in Int, a = b + SeqSize * k
    PROVE  a % SeqSize = b % SeqSize
<1> PICK p \in Int : a = (a % SeqSize) + SeqSize * p
  BY ModSplit
<1> PICK q \in Int : b = (b % SeqSize) + SeqSize * q
  BY ModSplit
<1> DEFINE r == a % SeqSize
           s == b % SeqSize
           kk == SeqSize * k
           pp == SeqSize * p
           qq == SeqSize * q
           j == k + q - p
           jj == SeqSize * j
<1>1. r \in 0..SeqSize - 1 /\ s \in 0..SeqSize - 1
  BY ModSplit
<1>2. SeqSize \in Nat \ {0} /\ j \in Int
  BY Constants
<1>3. kk \in Int /\ pp \in Int /\ qq \in Int
  BY <1>2
<1>4. jj = kk + qq - pp
  BY <1>2
<1>5. /\ j >= 1 => jj >= SeqSize
      /\ j <= -1 => jj <= -SeqSize
      /\ j = 0 => jj = 0
  <2> HIDE DEF j
  <2> QED
    BY <1>2
<1>6. a = r + pp /\ b = s + qq /\ a = b + kk
  OBVIOUS
<1> HIDE DEF r, s, kk, pp, qq, j, jj
<1>7. jj = r - s
  BY <1>1, <1>3, <1>4, <1>6
<1>8. r = s
  BY <1>1, <1>2, <1>5, <1>7
<1> QED
  BY <1>8 DEF r, s

\* Reducing a summand first makes no difference.
LEMMA ModPlus ==
    ASSUME NEW a \in Int, NEW b \in Int
    PROVE  ((a % SeqSize) + b) % SeqSize = (a + b) % SeqSize
<1> PICK k \in Int : a = (a % SeqSize) + SeqSize * k
  BY ModSplit
<1> DEFINE r == a % SeqSize
           kk == SeqSize * k
<1>1. r \in Int /\ kk \in Int /\ a = r + kk
  BY ModSplit, Constants
<1> HIDE DEF r, kk
<1>2. r + b \in Int /\ a + b \in Int /\ a + b = (r + b) + kk
  BY <1>1
<1>3. (a + b) % SeqSize = (r + b) % SeqSize
  BY <1>2, ModEqual DEF kk
<1> QED
  BY <1>3 DEF r

\* The distance of two wrapped numbers is the distance of the numbers.
LEMMA ModDistance ==
    ASSUME NEW a \in Int, NEW b \in Int, a - b \in 0..SeqSize - 1
    PROVE  ((a % SeqSize) - (b % SeqSize)) % SeqSize = a - b
<1> PICK p \in Int : a = (a % SeqSize) + SeqSize * p
  BY ModSplit
<1> PICK q \in Int : b = (b % SeqSize) + SeqSize * q
  BY ModSplit
<1> DEFINE r == a % SeqSize
           s == b % SeqSize
           pp == SeqSize * p
           qq == SeqSize * q
           kk == SeqSize * (q - p)
<1>1. r \in Int /\ s \in Int /\ SeqSize \in Int
  BY ModSplit, Constants
<1>2. pp \in Int /\ qq \in Int /\ q - p \in Int /\ kk = qq - pp
  BY <1>1
<1>3. a = r + pp /\ b = s + qq
  OBVIOUS
<1> HIDE DEF r, s, pp, qq, kk
<1>4. r - s \in Int /\ a - b \in Int /\ r - s = (a - b) + kk
  BY <1>1, <1>2, <1>3
<1>5. (r - s) % SeqSize = (a - b) % SeqSize
  BY <1>2, <1>4, ModEqual DEF kk
<1>6. (a - b) % SeqSize = a - b
  BY ModSmall
<1> QED
  BY <1>5, <1>6 DEF r, s

\* A remainder is a sequence number.
LEMMA InRange == \A a \in Int : a % SeqSize \in Seq32
BY ModSplit DEF Seq32

\* A frame pushed within a depth: the newest frames, and it after them.
LEMMA PushedFrame ==
    ASSUME NEW q \in Seq(Frame), NEW f \in Frame, NEW d \in 1..MaxDepth
    PROVE  LET r == Queue!Pushed(q, <<f>>, d)
           IN  \E k \in 1..d :
                  /\ k <= Len(q) + 1
                  /\ r \in Seq(Frame) /\ Len(r) = k
                  /\ r[k] = f
                  /\ \A i \in 1..k - 1 : r[i] = q[Len(q) + 1 - k + i]
<1> DEFINE s == q \o <<f>>
           r == Queue!Pushed(q, <<f>>, d)
           k == IF Len(q) + 1 <= d THEN Len(q) + 1 ELSE d
<1>1. Len(q) \in Nat /\ d \in Nat \ {0}
  BY Constants, LenProperties
<1>2. /\ s \in Seq(Frame) /\ Len(s) = Len(q) + 1
      /\ s[Len(q) + 1] = f /\ \A i \in 1..Len(q) : s[i] = q[i]
  OBVIOUS
<1>3. r = IF Len(s) <= d THEN s ELSE SubSeq(s, Len(s) - d + 1, Len(s))
  <2>1. Queue!Lesser(d, RingFrames) = d
    BY Constants DEF Queue!Lesser
  <2> QED
    BY <2>1 DEF Queue!Pushed, Queue!LastN
<1>4. k \in 1..d /\ k <= Len(q) + 1
  BY <1>1
<1> HIDE DEF s, r
<1>5. CASE Len(q) + 1 <= d
  <2>1. r = s /\ k = Len(q) + 1
    BY <1>2, <1>3, <1>5
  <2>2. r \in Seq(Frame) /\ Len(r) = k /\ r[k] = f
    BY <1>2, <2>1
  <2>3. ASSUME NEW i \in 1..k - 1 PROVE r[i] = q[Len(q) + 1 - k + i]
    <3>1. i \in 1..Len(q) /\ Len(q) + 1 - k + i = i
      BY <1>1, <2>1
    <3> QED
      BY <1>2, <2>1, <3>1
  <2> HIDE DEF k
  <2> QED
    BY <1>4, <2>2, <2>3, Zenon DEF r, k
<1>6. CASE ~(Len(q) + 1 <= d)
  <2> DEFINE m == Len(s) - d + 1
  <2>1. m \in 1..Len(s) /\ Len(s) - m + 1 = d /\ k = d
    BY <1>1, <1>2, <1>6
  <2>2. \A i \in m..Len(s) : s[i] \in Frame
    BY <1>1, <1>2, <2>1, ElementOfSeq
  <2> HIDE DEF m
  <2>3. /\ SubSeq(s, m, Len(s)) \in Seq(Frame)
        /\ Len(SubSeq(s, m, Len(s))) = IF m <= Len(s) THEN Len(s) - m + 1 ELSE 0
        /\ \A i \in 1..Len(s) - m + 1 : SubSeq(s, m, Len(s))[i] = s[m + i - 1]
    BY <1>1, <1>2, <2>1, <2>2, SubSeqProperties
  <2>4. r = SubSeq(s, m, Len(s))
    BY <1>1, <1>2, <1>3, <1>6 DEF m
  <2>5. \A i \in 1..d : m + i - 1 = Len(q) + 1 - d + i
    BY <1>1, <1>2 DEF m
  <2>6. r \in Seq(Frame) /\ Len(r) = d
    <3>1. m <= Len(s)
      BY <1>1, <1>2, <2>1
    <3> QED
      BY <2>1, <2>3, <2>4, <3>1
  <2>7. ASSUME NEW i \in 1..d PROVE r[i] = s[Len(q) + 1 - d + i]
    <3>1. i \in 1..Len(s) - m + 1
      BY <2>1
    <3>2. r[i] = s[m + i - 1]
      BY <2>3, <2>4, <3>1
    <3> QED
      BY <2>5, <3>2
  <2>8. r[k] = f
    <3>1. d \in 1..d /\ Len(q) + 1 - d + d = Len(q) + 1
      BY <1>1
    <3>2. r[d] = s[Len(q) + 1 - d + d]
      BY <2>7, <3>1
    <3> QED
      BY <1>2, <2>1, <3>1, <3>2
  <2>9. ASSUME NEW i \in 1..k - 1 PROVE r[i] = q[Len(q) + 1 - k + i]
    <3>1. i \in 1..d /\ Len(q) + 1 - d + i \in 1..Len(q)
      BY <1>1, <1>6, <2>1
    <3>2. r[i] = s[Len(q) + 1 - d + i]
      BY <2>7, <3>1
    <3> QED
      BY <1>2, <2>1, <3>1, <3>2
  <2>10. Len(r) = k
    BY <2>1, <2>6
  <2> HIDE DEF k
  <2> QED
    BY <1>4, <2>6, <2>8, <2>9, <2>10, Zenon DEF r, k
<1> QED
  BY <1>5, <1>6

\* A read takes the oldest frames and leaves the others as they are.
LEMMA PoppedFrames ==
    ASSUME NEW q \in Seq(Frame), NEW n \in 1..MaxRead
    PROVE  LET r == Queue!Popped(q, n)
           IN  \E m \in 0..Len(q) :
                  /\ r \in Seq(Frame) /\ Len(r) = Len(q) - m
                  /\ m = 0 => r = q
                  /\ \A i \in 1..Len(q) - m : r[i] = q[m + i]
<1> DEFINE m == IF n < Len(q) THEN n ELSE Len(q)
           r == Queue!Popped(q, n)
<1>1. Len(q) \in Nat /\ m \in 0..Len(q)
  BY Constants, LenProperties
<1>2. r = SubSeq(q, m + 1, Len(q))
  BY DEF Queue!Popped, Queue!Lesser
<1>3. m = 0 => q = <<>>
  BY <1>1
<1>4. \A i \in m + 1..Len(q) : q[i] \in Frame
  BY <1>1, ElementOfSeq
<1> HIDE DEF m, r
<1>5. /\ r \in Seq(Frame)
      /\ Len(r) = IF m + 1 <= Len(q) THEN Len(q) - (m + 1) + 1 ELSE 0
      /\ \A i \in 1..Len(q) - (m + 1) + 1 : r[i] = q[(m + 1) + i - 1]
  <2>1. m + 1 \in 1..Len(q) + 1
    BY <1>1
  <2> QED
    BY <1>1, <1>2, <1>4, <2>1, SubSeqProperties
<1>6. Len(r) = Len(q) - m /\ \A i \in 1..Len(q) - m : r[i] = q[m + i]
  <2>1. Len(r) = Len(q) - m
    BY <1>1, <1>5
  <2>2. ASSUME NEW i \in 1..Len(q) - m PROVE r[i] = q[m + i]
    <3>1. i \in 1..Len(q) - (m + 1) + 1 /\ (m + 1) + i - 1 = m + i
      BY <1>1
    <3>2. r[i] = q[(m + 1) + i - 1]
      BY <1>5, <3>1
    <3> QED
      BY <3>1, <3>2
  <2> QED
    BY <2>1, <2>2
<1>7. m = 0 => r = q
  BY <1>2, <1>3, <1>5, <1>6
<1> QED
  BY <1>1, <1>5, <1>6, <1>7 DEF r

----------------------------------------------------------------------------

\* Moving on by one slot is a step of one, whatever wraps.
LEMMA OneStep ==
    ASSUME NEW s \in Seq32
    PROVE  After(s) \in Seq32 /\ (After(s) - s) % SeqSize = 1
<1>1. SeqSize \in Nat \ {0} /\ SeqSize > 1 /\ s \in 0..SeqSize - 1 /\ s \in Int /\ s + 1 \in Int
  BY Constants DEF Seq32
<1>2. s % SeqSize = s
  BY <1>1, ModSmall
<1>3. (((s + 1) % SeqSize) - (s % SeqSize)) % SeqSize = (s + 1) - s
  <2>1. (s + 1) - s \in 0..SeqSize - 1
    BY <1>1
  <2> QED
    BY <1>1, <2>1, ModDistance
<1>4. (s + 1) - s = 1
  BY <1>1
<1> QED
  BY <1>1, <1>2, <1>3, <1>4, InRange DEF After

\* A packet that is not late lies as far ahead as the unsigned difference
\* says, which is less than half the range.
LEMMA AheadOrLevel ==
    ASSUME NEW a \in Seq32, NEW b \in Seq32, Signed(a - b) >= 0
    PROVE  LET g == Signed(a - b)
           IN  /\ g \in Nat /\ g < SeqSize \div 2
               /\ (a - b) % SeqSize = g
               /\ (b + g) % SeqSize = a
<1> DEFINE m == (a - b) % SeqSize
<1>1. /\ SeqSize \in Nat \ {0} /\ SeqSize \div 2 \in 2..SeqSize
      /\ a \in 0..SeqSize - 1 /\ a \in Int /\ b \in Int /\ a - b \in Int
  BY Constants DEF Seq32
<1>2. m \in 0..SeqSize - 1
  BY <1>1, ModSplit
<1>3. (m + b) % SeqSize = ((a - b) + b) % SeqSize
  BY <1>1, ModPlus
<1>4. (a - b) + b = a /\ a % SeqSize = a
  BY <1>1, ModSmall
<1>5. Signed(a - b) = IF m < SeqSize \div 2 THEN m ELSE m - SeqSize
  BY DEF Signed
<1> HIDE DEF m
<1>6. m < SeqSize \div 2 /\ Signed(a - b) = m
  BY <1>1, <1>2, <1>5
<1>7. b + m = m + b
  BY <1>1, <1>2
<1> QED
  BY <1>2, <1>3, <1>4, <1>6, <1>7 DEF m

----------------------------------------------------------------------------

\* The two halves of RingGapless: the frames of a ring follow on, and a slot
\* follows the newest of them.
Gapless(q) ==
    \A i \in 2..Len(q) : q[i].follows => q[i].seq = (q[i - 1].seq + 1) % SeqSize
Following(q, next) == Len(q) > 0 => next = (q[Len(q)].seq + 1) % SeqSize

\* A frame that follows on, if it says it does, keeps the ring gapless.
LEMMA PushGapless ==
    ASSUME NEW q \in Seq(Frame), NEW f \in Frame, NEW d \in 1..MaxDepth,
           Gapless(q), f.follows => Following(q, f.seq)
    PROVE  /\ Gapless(Queue!Pushed(q, <<f>>, d))
           /\ Following(Queue!Pushed(q, <<f>>, d), After(f.seq))
<1> DEFINE r == Queue!Pushed(q, <<f>>, d)
<1>1. PICK k \in 1..d : /\ k <= Len(q) + 1
                        /\ r \in Seq(Frame) /\ Len(r) = k
                        /\ r[k] = f
                        /\ \A i \in 1..k - 1 : r[i] = q[Len(q) + 1 - k + i]
  <2>1. \E k \in 1..d : /\ k <= Len(q) + 1
                        /\ r \in Seq(Frame) /\ Len(r) = k
                        /\ r[k] = f
                        /\ \A i \in 1..k - 1 : r[i] = q[Len(q) + 1 - k + i]
    BY PushedFrame, Zenon
  <2> HIDE DEF r
  <2> QED
    BY <2>1
<1> DEFINE o == Len(q) + 1 - k
<1>2. \A i \in 1..k - 1 : r[i] = q[o + i]
  BY <1>1, Zenon
<1>3. Len(q) \in Nat /\ k \in Nat
  BY LenProperties
<1> HIDE DEF r
<1>4. o \in Nat /\ o + k = Len(q) + 1
  BY <1>1, <1>3
<1> HIDE DEF o
<1>5. ASSUME NEW i \in 2..Len(r), r[i].follows
      PROVE  r[i].seq = (r[i - 1].seq + 1) % SeqSize
  <2>1. i \in 2..k /\ i - 1 \in 1..k - 1
    BY <1>1, <1>3, <1>4
  <2>2. r[i - 1] = q[o + (i - 1)]
    BY <1>2, <2>1
  <2>3. CASE i = k
    <3>1. o + (i - 1) = Len(q) /\ Len(q) > 0
      BY <1>3, <1>4, <2>1, <2>3
    <3> QED
      BY <1>1, <1>5, <2>2, <2>3, <3>1 DEF Following
  <2>4. CASE i # k
    <3>1. i \in 1..k - 1 /\ o + i \in 2..Len(q) /\ (o + i) - 1 = o + (i - 1)
      BY <1>3, <1>4, <2>1, <2>4
    <3>2. r[i] = q[o + i]
      BY <1>2, <3>1
    <3>3. q[o + i].follows => q[o + i].seq = (q[(o + i) - 1].seq + 1) % SeqSize
      BY <3>1 DEF Gapless
    <3> QED
      BY <1>5, <2>2, <3>1, <3>2, <3>3
  <2> QED
    BY <2>3, <2>4
<1>6. After(f.seq) = (r[Len(r)].seq + 1) % SeqSize
  BY <1>1 DEF After
<1> QED
  BY <1>5, <1>6 DEF Gapless, Following, r

\* A read keeps the ring gapless.
LEMMA PopGapless ==
    ASSUME NEW q \in Seq(Frame), NEW n \in 1..MaxRead,
           Gapless(q)
    PROVE  /\ Gapless(Queue!Popped(q, n))
           /\ \A next : Following(q, next) => Following(Queue!Popped(q, n), next)
<1> DEFINE r == Queue!Popped(q, n)
<1>1. PICK m \in 0..Len(q) : /\ Len(r) = Len(q) - m
                             /\ \A i \in 1..Len(q) - m : r[i] = q[m + i]
  BY PoppedFrames
<1>2. Len(q) \in Nat /\ m \in Nat
  BY LenProperties
<1> HIDE DEF r
<1>3. ASSUME NEW i \in 2..Len(r), r[i].follows
      PROVE  r[i].seq = (r[i - 1].seq + 1) % SeqSize
  <2>1. /\ i \in 1..Len(q) - m /\ i - 1 \in 1..Len(q) - m
        /\ m + i \in 2..Len(q) /\ (m + i) - 1 = m + (i - 1)
    BY <1>1, <1>2
  <2>2. r[i] = q[m + i] /\ r[i - 1] = q[m + (i - 1)]
    BY <1>1, <2>1
  <2>3. q[m + i].follows => q[m + i].seq = (q[(m + i) - 1].seq + 1) % SeqSize
    BY <2>1 DEF Gapless
  <2> QED
    BY <1>3, <2>1, <2>2, <2>3
<1>4. ASSUME NEW next, Following(q, next), Len(r) > 0
      PROVE  next = (r[Len(r)].seq + 1) % SeqSize
  <2>1. Len(r) \in 1..Len(q) - m /\ m + Len(r) = Len(q) /\ Len(q) > 0
    BY <1>1, <1>2, <1>4
  <2>2. r[Len(r)] = q[m + Len(r)]
    BY <1>1, <2>1
  <2> QED
    BY <1>4, <2>1, <2>2 DEF Following
<1> QED
  BY <1>3, <1>4 DEF Gapless, Following, r

----------------------------------------------------------------------------

\* Between two packets nothing is left to conceal; within one the packet
\* lies `gap` slots after the next.  Nothing counts as following on before the
\* session has a position.
Sequenced ==
    /\ packet = NoPacket => gap = 0
    /\ packet # NoPacket => have_seq /\ packet = (next_seq + gap) % SeqSize
    /\ ~have_seq => broken

Inv == TypeOK /\ RingGapless /\ LatencyBounded /\ Sequenced

\* RingGapless is both halves of the ring as it is.
LEMMA Halves == RingGapless <=> Gapless(ring) /\ (~broken => Following(ring, next_seq))
BY DEF RingGapless, Gapless, Following

\* The frame that fills the next slot.
LEMMA Pushes ==
    ASSUME Inv, NEW made \in {"decoded", "concealed"}, PushFrame(next_seq, made)
    PROVE  /\ ring' \in Seq(Frame) /\ Len(ring') <= target_depth_frames
           /\ Gapless(ring') /\ Following(ring', After(next_seq))
           /\ broken' = FALSE
<1> DEFINE f == [seq |-> next_seq, made |-> made, follows |-> ~broken]
<1>1. f \in Frame
  <2>1. next_seq \in Seq32 /\ (~broken) \in BOOLEAN
    BY DEF Inv, TypeOK
  <2> QED
    BY <2>1 DEF Frame
<1>2. f.seq = next_seq /\ (f.follows => ~broken)
  BY Zenon
<1>3. ring' = Queue!Pushed(ring, <<f>>, target_depth_frames) /\ broken' = FALSE
  BY DEF PushFrame, DepthPassed
<1>4. ring \in Seq(Frame) /\ target_depth_frames \in 1..MaxDepth
  BY DEF Inv, TypeOK
<1>5. Gapless(ring) /\ (~broken => Following(ring, next_seq))
  BY Halves DEF Inv
<1> HIDE DEF f
<1>6. ring' \in Seq(Frame) /\ Len(ring') <= target_depth_frames
  <2>1. PICK k \in 1..target_depth_frames : ring' \in Seq(Frame) /\ Len(ring') = k
    BY <1>1, <1>3, <1>4, PushedFrame
  <2> QED
    BY <1>4, <2>1
<1>7. Gapless(ring') /\ Following(ring', After(next_seq))
  BY <1>1, <1>2, <1>3, <1>4, <1>5, PushGapless
<1> QED
  BY <1>3, <1>6, <1>7

\* Whatever the estimate asks for is clamped.
LEMMA Adapts ==
    ASSUME TypeOK, UpdateEstimate
    PROVE  /\ have_arrival' \in BOOLEAN
           /\ target_depth_frames' \in 1..MaxDepth
           /\ packets_since_recalc' \in 0..RecalcEvery - 1
<1>1. \A n \in Int : Clamp(n) \in 1..MaxDepth
  BY Constants DEF Clamp
<1>2. Estimate \subseteq Int /\ RecalcEvery \in Nat \ {0}
  BY Constants
<1>3. target_depth_frames' \in 1..MaxDepth
  BY <1>1, <1>2 DEF TypeOK, UpdateEstimate
<1>4. packets_since_recalc' \in 0..RecalcEvery - 1
  BY <1>2 DEF TypeOK, UpdateEstimate
<1> QED
  BY <1>3, <1>4 DEF UpdateEstimate

\* The values a session starts with are of their types.
LEMMA Fresh ==
    /\ 0 \in Seq32 /\ 0 \in 0..RecalcEvery - 1 /\ 0 \in 0..MaxConcealed
    /\ FirstDepth \in 1..MaxDepth
    /\ <<>> \in Seq(Frame) /\ Len(<<>>) = 0 /\ 0 <= RingFrames /\ 0 <= MaxDepth
BY Constants DEF Seq32

\* The invariant holds of a new buffer and an empty ring.
LEMMA InvInit == Init => Inv
<1> SUFFICES ASSUME Init PROVE Inv
  OBVIOUS
<1>1. Len(ring) = 0
  BY Fresh DEF Init
<1>2. TypeOK
  BY <1>1, Fresh DEF Init, TypeOK
<1>3. RingGapless /\ LatencyBounded /\ Sequenced
  BY <1>1, Fresh DEF Init, RingGapless, LatencyBounded, Sequenced
<1> QED
  BY <1>2, <1>3 DEF Inv

\* A packet taken in keeps the invariant: the ring is not touched, and the new
\* packet lies after the frames it still has to conceal.
LEMMA InvOnPacket == ASSUME Inv, NEW seq \in Seq32, OnPacket(seq) PROVE Inv'
<1> USE DEF Inv
<1>1. Receive /\ UpdateEstimate /\ have_seq' = TRUE /\ ring' = ring
      /\ packet = NoPacket /\ gap = 0
  BY DEF OnPacket, DropLate, Resync, Accept, Receive, Sequenced
<1>2. NoPacket \notin Seq32
  BY Constants DEF NoPacket, Seq32
<1>3. LatencyBounded'
  BY <1>1 DEF LatencyBounded
<1>4. next_seq' \in Seq32 /\ packet' \in Seq32 \cup {NoPacket}
      /\ gap' \in 0..MaxConcealed /\ broken' \in BOOLEAN /\ RingGapless' /\ Sequenced'
  <2>1. CASE DropLate(seq)
    <3>1. have_seq
      BY <2>1 DEF DropLate, Ahead
    <3>2. next_seq' = next_seq /\ packet' = packet /\ gap' = gap /\ broken' = broken
      BY <2>1 DEF DropLate
    <3> QED
      BY <1>1, <3>1, <3>2 DEF TypeOK, RingGapless, Sequenced
  <2>2. CASE Resync(seq)
    <3>1. next_seq' = seq /\ packet' = seq /\ gap' = 0 /\ broken' = TRUE
      BY <2>2 DEF Resync
    <3>2. seq + 0 = seq /\ seq % SeqSize = seq /\ gap' \in 0..MaxConcealed
      BY <3>1, Constants, ModSmall DEF Seq32
    <3>3. RingGapless'
      BY <1>1, <3>1 DEF RingGapless
    <3> QED
      BY <1>1, <1>2, <3>1, <3>2, <3>3 DEF Sequenced
  <2>3. CASE Accept(seq)
    <3>1. /\ packet' = seq /\ gap' = Ahead(seq) /\ broken' = broken
          /\ next_seq' = IF have_seq THEN next_seq ELSE seq
          /\ gap' \in 0..MaxConcealed
      BY <2>3 DEF Accept, Missing
    <3>2. CASE have_seq
      <4>1. next_seq \in Seq32 /\ next_seq' = next_seq /\ gap' = Signed(seq - next_seq)
        BY <3>1, <3>2 DEF TypeOK, Ahead
      <4>2. Signed(seq - next_seq) >= 0
        BY <3>1, <4>1
      <4>3. (next_seq + gap') % SeqSize = seq
        BY <4>1, <4>2, AheadOrLevel
      <4>4. RingGapless'
        BY <1>1, <3>1, <4>1 DEF RingGapless
      <4> QED
        BY <1>1, <1>2, <3>1, <4>1, <4>3, <4>4 DEF Sequenced, TypeOK
    <3>3. CASE ~have_seq
      <4>1. next_seq' = seq /\ gap' = 0 /\ broken /\ broken' = broken
        BY <3>1, <3>3 DEF Ahead, Sequenced
      <4>2. seq + 0 = seq /\ seq % SeqSize = seq
        BY Constants, ModSmall DEF Seq32
      <4>3. RingGapless'
        BY <1>1, <4>1 DEF RingGapless
      <4> QED
        BY <1>1, <1>2, <3>1, <4>1, <4>2, <4>3 DEF Sequenced, TypeOK
    <3> QED
      BY <3>2, <3>3 DEF TypeOK
  <2> QED
    BY <2>1, <2>2, <2>3 DEF OnPacket
<1>5. TypeOK'
  BY <1>1, <1>4, Adapts DEF TypeOK
<1> QED
  BY <1>3, <1>4, <1>5

\* One concealed frame brings the position one slot closer to the packet.
LEMMA InvConceal == ASSUME Inv, Conceal PROVE Inv'
<1> USE DEF Inv
<1>1. /\ packet # NoPacket /\ gap \in 1..MaxConcealed /\ next_seq \in Seq32 /\ have_seq
      /\ packet = (next_seq + gap) % SeqSize
      /\ next_seq' = After(next_seq) /\ gap' = gap - 1
      /\ have_seq' = have_seq /\ packet' = packet /\ adaptation' = adaptation
  BY Constants DEF Conceal, TypeOK, Sequenced
<1>2. next_seq' \in Seq32 /\ gap' \in 0..MaxConcealed
  BY <1>1, OneStep, Constants
<1>3. Sequenced'
  <2> DEFINE s == next_seq + 1
  <2>1. SeqSize \in Nat \ {0} /\ s \in Int /\ gap - 1 \in Int
    BY <1>1, Constants DEF Seq32
  <2>2. ((s % SeqSize) + (gap - 1)) % SeqSize = (s + (gap - 1)) % SeqSize
    <3> HIDE DEF s
    <3> QED
      BY <2>1, ModPlus
  <2>3. s + (gap - 1) = next_seq + gap
    BY <1>1, Constants DEF Seq32
  <2> QED
    BY <1>1, <2>2, <2>3 DEF Sequenced, After
<1>4. /\ ring' \in Seq(Frame) /\ Len(ring') <= MaxDepth
      /\ broken' \in BOOLEAN /\ Gapless(ring')
      /\ ~broken' => Following(ring', next_seq')
  <2>1. CASE PushFrame(next_seq, "concealed")
    <3>1. target_depth_frames \in 1..MaxDepth /\ Len(ring') \in Nat
      BY <2>1, Pushes, LenProperties DEF TypeOK
    <3> QED
      BY <1>1, <2>1, <3>1, Pushes, Constants
  <2>2. CASE broken' = TRUE /\ UNCHANGED ring
    BY <2>2 DEF TypeOK, LatencyBounded, RingGapless, Gapless
  <2> QED
    BY <2>1, <2>2 DEF Conceal
<1> QED
  <2>1. RingGapless' /\ LatencyBounded'
    BY <1>4 DEF RingGapless, Gapless, Following, LatencyBounded
  <2>2. Len(ring') <= RingFrames
    BY <1>4, Constants, LenProperties
  <2> QED
    BY <1>1, <1>2, <1>3, <1>4, <2>1, <2>2 DEF TypeOK, adaptation

\* With nothing left to conceal the packet itself fills the next slot.
LEMMA Level == ASSUME Inv, packet # NoPacket, gap = 0 PROVE packet = next_seq
<1>1. next_seq \in Seq32 /\ next_seq + gap = next_seq /\ next_seq % SeqSize = next_seq
  BY Constants, ModSmall DEF Inv, TypeOK, Seq32
<1> QED
  BY <1>1 DEF Inv, Sequenced

\* The packet itself fills the next slot, and the position moves past it.
LEMMA InvDecode == ASSUME Inv, Decode PROVE Inv'
<1> USE DEF Inv
<1>1. /\ packet = next_seq /\ next_seq \in Seq32 /\ have_seq
      /\ next_seq' = After(next_seq) /\ gap' = 0 /\ packet' = NoPacket
      /\ have_seq' = have_seq /\ adaptation' = adaptation
  BY Level DEF Decode, TypeOK, Sequenced
<1>2. next_seq' \in Seq32 /\ gap' \in 0..MaxConcealed
  BY <1>1, OneStep, Constants
<1>3. Sequenced'
  BY <1>1 DEF Sequenced
<1>4. /\ ring' \in Seq(Frame) /\ Len(ring') <= MaxDepth
      /\ broken' \in BOOLEAN /\ Gapless(ring')
      /\ ~broken' => Following(ring', next_seq')
  <2>1. CASE PushFrame(packet, "decoded")
    <3>1. target_depth_frames \in 1..MaxDepth /\ Len(ring') \in Nat
      BY <1>1, <2>1, Pushes, LenProperties DEF TypeOK
    <3> QED
      BY <1>1, <2>1, <3>1, Pushes, Constants
  <2>2. CASE broken' = TRUE /\ UNCHANGED ring
    BY <2>2 DEF TypeOK, LatencyBounded, RingGapless, Gapless
  <2> QED
    BY <2>1, <2>2 DEF Decode
<1> QED
  <2>1. RingGapless' /\ LatencyBounded'
    BY <1>4 DEF RingGapless, Gapless, Following, LatencyBounded
  <2>2. Len(ring') <= RingFrames
    BY <1>4, Constants, LenProperties
  <2> QED
    BY <1>1, <1>2, <1>3, <1>4, <2>1, <2>2 DEF TypeOK, adaptation

\* A new session leaves the ring as it is and breaks the timeline.
LEMMA InvRestart == ASSUME Inv, Restart PROVE Inv'
<1>1. TypeOK'
  BY Fresh DEF Inv, TypeOK, Restart
<1>2. RingGapless' /\ LatencyBounded' /\ Sequenced'
  BY DEF Inv, Restart, RingGapless, LatencyBounded, Sequenced
<1> QED
  BY <1>1, <1>2 DEF Inv

\* The callback only shortens the ring from its old end.
LEMMA InvPlay == ASSUME Inv, NEW n \in 1..MaxRead, Play(n) PROVE Inv'
<1> USE DEF Inv
<1>1. /\ UNCHANGED <<sequencing, adaptation>>
      /\ ring' = Queue!Popped(ring, n) /\ ring \in Seq(Frame)
      /\ Len(ring) <= MaxDepth
  BY DEF Play, TypeOK, LatencyBounded
<1>2. ring' \in Seq(Frame) /\ Len(ring') <= MaxDepth
  <2>1. PICK m \in 0..Len(ring) : ring' \in Seq(Frame) /\ Len(ring') = Len(ring) - m
    BY <1>1, PoppedFrames
  <2>2. Len(ring) \in Nat
    BY <1>1, LenProperties
  <2> QED
    BY <1>1, <2>1, <2>2, Constants
<1>3. Gapless(ring') /\ (~broken => Following(ring', next_seq))
  BY <1>1, Halves, PopGapless
<1>4. next_seq' = next_seq /\ broken' = broken
  BY <1>1 DEF sequencing
<1>5. RingGapless' /\ LatencyBounded'
  BY <1>2, <1>3, <1>4 DEF RingGapless, Gapless, Following, LatencyBounded
<1>6. Len(ring') <= RingFrames
  BY <1>2, Constants, LenProperties
<1> QED
  BY <1>1, <1>2, <1>5, <1>6 DEF TypeOK, Sequenced, sequencing, adaptation

\* A step of anything else changes nothing.
LEMMA InvStutter == ASSUME Inv, UNCHANGED vars PROVE Inv'
BY DEF Inv, TypeOK, RingGapless, LatencyBounded, Sequenced, vars, sequencing, adaptation

\* The invariant holds in every reachable state.
THEOREM Invariance == Spec => []Inv
<1>1. ASSUME Inv, [Next]_vars PROVE Inv'
  BY <1>1, InvOnPacket, InvConceal, InvDecode, InvRestart, InvPlay, InvStutter
     DEF Next, NetworkThread
<1> QED
  BY InvInit, <1>1, PTL DEF Spec

\* Every variable keeps its type: the depth, the gap and the recalculation
\* counter of jitter.c never leave their ranges.
THEOREM TypeCorrect == Spec => []TypeOK
<1>1. Inv => TypeOK
  BY DEF Inv
<1> QED
  BY <1>1, Invariance, PTL

\* Concealment leaves neither a hole nor an overlap in what the ring holds.
THEOREM AlwaysGapless == Spec => []RingGapless
<1>1. Inv => RingGapless
  BY DEF Inv
<1> QED
  BY <1>1, Invariance, PTL

\* However wrong the estimate, the ring never holds more than the deepest
\* target.
THEOREM AlwaysLatencyBounded == Spec => []LatencyBounded
<1>1. Inv => LatencyBounded
  BY DEF Inv
<1> QED
  BY <1>1, Invariance, PTL

\* What a step of the model does to the position and to the ring.
LEMMA Steps ==
    ASSUME Inv, [Next]_vars
    PROVE  /\ have_seq /\ have_seq' =>
                (next_seq' - next_seq) % SeqSize <= SeqSize \div 2
           /\ Len(ring') >= Len(ring) /\ ring' # ring =>
                Len(ring') <= target_depth_frames
<1> USE DEF Inv
<1> DEFINE Moved == (next_seq' - next_seq) % SeqSize
<1>1. /\ next_seq \in Seq32 /\ next_seq - next_seq = 0 /\ 0 % SeqSize = 0
      /\ SeqSize \div 2 \in 2..SeqSize
  BY Constants, ModSmall DEF TypeOK, Seq32
<1>2. next_seq' = next_seq => Moved <= SeqSize \div 2
  BY <1>1
<1>3. next_seq' = After(next_seq) => Moved <= SeqSize \div 2
  <2>1. (After(next_seq) - next_seq) % SeqSize = 1
    BY <1>1, OneStep
  <2> QED
    BY <1>1, <2>1
<1> HIDE DEF Moved
<1>4. ASSUME NEW seq \in Seq32, OnPacket(seq)
      PROVE  ring' = ring /\ (have_seq => Moved <= SeqSize \div 2)
  <2>1. CASE DropLate(seq)
    BY <1>2, <2>1 DEF DropLate, Receive
  <2>2. CASE Resync(seq)
    <3>1. ASSUME have_seq PROVE Moved <= SeqSize \div 2
      <4>1. next_seq' = seq /\ Signed(seq - next_seq) > MaxConcealed
        BY <2>2, <3>1 DEF Resync, Ahead
      <4>2. Signed(seq - next_seq) >= 0
        <5>1. seq - next_seq \in Int /\ SeqSize \in Nat \ {0}
          BY <1>1, Constants DEF Seq32
        <5>2. (seq - next_seq) % SeqSize \in Int
          BY <5>1, ModSplit
        <5>3. Signed(seq - next_seq) \in Int
          BY <5>1, <5>2 DEF Signed
        <5> QED
          BY <4>1, <5>3, Constants
      <4>3. /\ Signed(seq - next_seq) < SeqSize \div 2
            /\ (seq - next_seq) % SeqSize = Signed(seq - next_seq)
            /\ Signed(seq - next_seq) \in Nat
        BY <1>1, <4>2, AheadOrLevel
      <4> QED
        BY <1>1, <4>1, <4>3 DEF Moved
    <3> QED
      BY <2>2, <3>1 DEF Resync, Receive
  <2>3. CASE Accept(seq)
    BY <1>2, <2>3 DEF Accept, Receive
  <2> QED
    BY <1>4, <2>1, <2>2, <2>3 DEF OnPacket
<1>5. CASE Conceal
  BY <1>3, <1>5, Pushes DEF Conceal, Moved
<1>6. CASE Decode
  <2>1. packet = next_seq
    BY <1>6, Level DEF Decode
  <2> QED
    BY <1>3, <1>6, <2>1, Pushes DEF Decode, Moved
<1>7. CASE Restart
  BY <1>7 DEF Restart
<1>8. ASSUME NEW n \in 1..MaxRead, Play(n)
      PROVE  /\ next_seq' = next_seq
             /\ Len(ring') >= Len(ring) => ring' = ring
  <2>1. ring \in Seq(Frame) /\ ring' = Queue!Popped(ring, n) /\ next_seq' = next_seq
    BY <1>8 DEF Play, sequencing, TypeOK
  <2>2. PICK m \in 0..Len(ring) : Len(ring') = Len(ring) - m /\ (m = 0 => ring' = ring)
    BY <2>1, PoppedFrames
  <2>3. Len(ring) \in Nat
    BY <2>1, LenProperties
  <2> QED
    BY <2>1, <2>2, <2>3
<1>9. CASE UNCHANGED vars
  BY <1>2, <1>9 DEF vars, sequencing, Moved
<1> QED
  BY <1>2, <1>4, <1>5, <1>6, <1>7, <1>8, <1>9 DEF Next, NetworkThread, Moved

\* The position in the stream only ever moves forward, so no slot is filled
\* twice, whatever arrives and wherever the counter wraps.
THEOREM NeverGoesBack == Spec => NeverBackwards
<1>1. Inv /\ [Next]_vars =>
        [have_seq /\ have_seq' =>
           (next_seq' - next_seq) % SeqSize <= SeqSize \div 2]_vars
  BY Steps
<1> QED
  BY <1>1, Invariance, PTL DEF Spec, NeverBackwards

\* A frame is only ever added within the depth in force when it is written.
THEOREM AlwaysInForce == Spec => DepthInForce
<1>1. Inv /\ [Next]_vars =>
        [Len(ring') >= Len(ring) /\ ring' # ring =>
           Len(ring') <= target_depth_frames]_vars
  BY Steps
<1> QED
  BY <1>1, Invariance, PTL DEF Spec, DepthInForce


\* The jitter buffer at the end of the network.

Message == Audio \cup Format

\* Where the buffer will be when it is done with the packet in hand.
Position == IF packet = NoPacket THEN next_seq ELSE packet + 1

\* The wire numbers of all streams share the lower half of the range, so in
\* there the buffer's position is a plain number that only grows: nothing taken
\* or dropped lies beyond it, and the packet taken last lies right before it.
Placed ==
    /\ next_seq \in 0..MaxSent /\ packet < MaxSent
    /\ packet # NoPacket => packet = next_seq + gap
    /\ ~have_seq => current = 0 /\ taken = NoneTaken /\ dropped = NoMessage
    /\ have_seq => initialized /\ current \in Session /\ taken[current] = Position - 1
    /\ \A s \in Session : taken[s] < Position
    /\ dropped # NoMessage => dropped.n < Position

\* The packets a..b - 1 of stream s are among those in g, or s among those in c.
Lacks(g, c, s, a, b) ==
    s \in c \/ \A n \in a..b - 1 : [kind |-> "audio", session |-> s, n |-> n] \in g
Reaches(g, c, s, a, b) == a <= b /\ Lacks(g, c, s, a, b)

\* y is what may follow x on a connection where only the packets in g and the
\* streams in c may be missing.
Succeeding(g, c, x, y) ==
    \/ y.kind = "format"
    \/ /\ y.kind = "audio" /\ y.session = x.session
       /\ Reaches(g, c, y.session, IF x.kind = "format" THEN 0 ELSE x.n + 1, y.n)

\* What the daemon is given next over TCP, and that it follows what it took.
NextIn == IF net = <<>> THEN Upcoming ELSE net[1]
LastTaken == IF current = 0 THEN -1 ELSE taken[current]
Expected ==
    \/ NextIn.kind = "format"
    \/ /\ NextIn.kind = "audio" /\ initialized
       /\ current # 0 => NextIn.session = current
       /\ Reaches(unsent, cut, NextIn.session, LastTaken + 1, NextIn.n)

\* What TCP carries has no gap but what was not sent: from what the daemon took
\* last over what is under way to what the phone sends next.
Unbroken ==
    transport = "tcp" =>
        /\ net # <<>> \/ connected => Expected
        /\ \A i \in 1..Len(net) - 1 : Succeeding(unsent, cut, net[i], net[i + 1])
        /\ connected => /\ session \in Session
                        /\ net # <<>> => Succeeding(unsent, cut, net[Len(net)], Upcoming)

LinkInv == LinkTypeOK /\ Inv /\ Placed /\ Unbroken /\ TcpHidesOnlyUnsent

----------------------------------------------------------------------------

\* The constants in the form the proofs need.
LEMMA LinkConstants ==
    /\ SeqSize \in Nat \ {0} /\ SeqSize \div 2 \in Nat /\ MaxSent < SeqSize \div 2
    /\ 2 * (SeqSize \div 2) <= SeqSize
    /\ MaxSessions \in Nat /\ MaxSent \in Nat /\ NetSize \in Nat /\ MaxCrashes \in Nat
    /\ MaxConcealed \in Nat \ {0} /\ MaxConcealed < SeqSize \div 2
BY Constants, LinkAssumption

\* In the lower half of the range the wrapped difference is the difference.
LEMMA SignedPlain ==
    ASSUME NEW a \in 0..MaxSent, NEW b \in 0..MaxSent
    PROVE  Signed(a - b) = a - b
<1> DEFINE h == SeqSize \div 2
           d == a - b
<1>1. /\ SeqSize \in Nat \ {0} /\ h \in Nat /\ 2 * h <= SeqSize /\ MaxSent < h
      /\ MaxSent \in Nat
  BY LinkConstants
<1>2. d \in Int /\ d < h /\ -h < d
  BY <1>1
<1> HIDE DEF h, d
<1>3. CASE d >= 0
  <2>1. d \in 0..SeqSize - 1
    BY <1>1, <1>2, <1>3
  <2>2. d % SeqSize = d
    BY <1>1, <2>1, ModSmall
  <2> QED
    BY <1>2, <2>2 DEF Signed, d, h
<1>4. CASE d < 0
  <2>1. d + SeqSize \in 0..SeqSize - 1 /\ d + SeqSize >= h
    BY <1>1, <1>2, <1>4
  <2>2. (d + SeqSize) % SeqSize = d + SeqSize
    BY <1>1, <2>1, ModSmall
  <2>3. d + SeqSize \in Int /\ 1 \in Int /\ d + SeqSize = d + SeqSize * 1
    BY <1>1, <1>2
  <2>4. d % SeqSize = (d + SeqSize) % SeqSize
    BY <1>2, <2>3, ModEqual
  <2>6. d % SeqSize = d + SeqSize
    BY <2>2, <2>4
  <2>5. (d + SeqSize) - SeqSize = d
    BY <1>1, <1>2
  <2> QED
    BY <2>1, <2>6, <2>5, <1>1, <1>2 DEF Signed, d, h
<1> QED
  BY <1>2, <1>3, <1>4

\* The wire number of a packet is its number in the stream.
LEMMA WireNumber ==
    ASSUME NEW n \in 0..MaxSent - 1
    PROVE  n % SeqSize = n /\ n \in Seq32 /\ n \in 0..MaxSent
BY LinkConstants, ModSmall DEF Seq32

\* The kinds of message are told apart by their first field.
LEMMA Kinds ==
    ASSUME NEW m \in Message
    PROVE  /\ m.kind = "audio" => m \in Audio /\ m.session \in Session /\ m.n \in 0..MaxSent - 1
           /\ m.kind # "audio" => m.kind = "format"
           /\ m # NoMessage
BY DEF Message, Audio, Format, NoMessage

\* Whatever the network does with a message, it holds no other than before.
LEMMA Removed ==
    ASSUME net \in Seq(Message), Len(net) <= NetSize, NEW i \in 1..Len(net),
           net' \in {net, Without(i), Tail(net)}
    PROVE  /\ net' \in Seq(Message) /\ Len(net') <= NetSize /\ net[i] \in Message
           /\ \A j \in 1..Len(net') : \E k \in 1..Len(net) : net'[j] = net[k]
<1>1. Len(net) \in Nat /\ NetSize \in Nat /\ i \in 1..Len(net) /\ net[i] \in Message
      /\ \A j \in 1..Len(net) : net[j] \in Message
  BY LinkConstants, LenProperties, ElementOfSeq
<1>2. CASE net' = Without(i)
  <2> DEFINE a == SubSeq(net, 1, i - 1)
             b == SubSeq(net, i + 1, Len(net))
  <2>1. a \in Seq(Message) /\ Len(a) = i - 1 /\ \A j \in 1..i - 1 : a[j] = net[j]
    <3>1. 1 \in Int /\ i - 1 \in Int /\ \A j \in 1..i - 1 : net[j] \in Message
      BY <1>1
    <3>2. a \in Seq(Message) /\ Len(a) = (IF 1 <= i - 1 THEN (i - 1) - 1 + 1 ELSE 0)
          /\ \A j \in 1..(i - 1) - 1 + 1 : a[j] = net[1 + j - 1]
      BY <3>1, SubSeqProperties
    <3>3. (i - 1) - 1 + 1 = i - 1 /\ \A j \in 1..i - 1 : 1 + j - 1 = j
      BY <1>1
    <3> QED
      BY <1>1, <3>2, <3>3
  <2>2. b \in Seq(Message) /\ Len(b) = Len(net) - i
        /\ \A j \in 1..Len(net) - i : b[j] = net[i + j]
    <3>1. i + 1 \in Int /\ Len(net) \in Int /\ \A j \in i + 1..Len(net) : net[j] \in Message
      BY <1>1
    <3>2. b \in Seq(Message)
          /\ Len(b) = (IF i + 1 <= Len(net) THEN Len(net) - (i + 1) + 1 ELSE 0)
          /\ \A j \in 1..Len(net) - (i + 1) + 1 : b[j] = net[(i + 1) + j - 1]
      BY <3>1, SubSeqProperties
    <3>3. Len(b) = Len(net) - i
      BY <1>1, <3>2
    <3>4. ASSUME NEW j \in 1..Len(net) - i PROVE b[j] = net[i + j]
      <4>1. j \in 1..Len(net) - (i + 1) + 1 /\ (i + 1) + j - 1 = i + j
        BY <1>1
      <4>2. b[j] = net[(i + 1) + j - 1]
        BY <3>2, <4>1
      <4> QED
        BY <4>1, <4>2
    <3> QED
      BY <3>2, <3>3, <3>4
  <2>3. net' = a \o b
    BY <1>2 DEF Without
  <2> HIDE DEF a, b
  <2>4. /\ net' \in Seq(Message) /\ Len(net') = Len(a) + Len(b)
        /\ \A j \in 1..Len(a) + Len(b) :
              net'[j] = IF j <= Len(a) THEN a[j] ELSE b[j - Len(a)]
    BY <2>1, <2>2, <2>3, ConcatProperties
  <2>5. ASSUME NEW j \in 1..Len(net') PROVE \E k \in 1..Len(net) : net'[j] = net[k]
    <3>1. CASE j <= i - 1
      <4>1. j \in 1..Len(net) /\ net'[j] = net[j]
        BY <1>1, <2>1, <2>2, <2>4, <3>1
      <4> QED
        BY <4>1
    <3>2. CASE ~(j <= i - 1)
      <4>1. j - (i - 1) \in 1..Len(net) - i /\ i + (j - (i - 1)) \in 1..Len(net)
        BY <1>1, <2>1, <2>2, <2>4, <3>2
      <4>2. net'[j] = b[j - (i - 1)]
        BY <2>1, <2>4, <3>2
      <4> QED
        BY <2>2, <4>1, <4>2
    <3> QED
      BY <3>1, <3>2
  <2> QED
    BY <1>1, <2>1, <2>2, <2>4, <2>5
<1>3. CASE net' = Tail(net)
  <2>1. net # <<>>
    BY <1>1
  <2>2. /\ Tail(net) \in Seq(Message) /\ Len(Tail(net)) = Len(net) - 1
        /\ \A j \in 1..Len(Tail(net)) : Tail(net)[j] = net[j + 1]
    BY <2>1, HeadTailProperties
  <2>3. ASSUME NEW j \in 1..Len(net') PROVE \E k \in 1..Len(net) : net'[j] = net[k]
    <3>1. j + 1 \in 1..Len(net) /\ net'[j] = net[j + 1]
      BY <1>1, <1>3, <2>2
    <3> QED
      BY <3>1
  <2> QED
    BY <1>1, <1>3, <2>2, <2>3
<1> QED
  BY <1>1, <1>2, <1>3

\* A message sent joins the end of what is under way.
LEMMA Sent ==
    ASSUME net \in Seq(Message), NEW m, net' = Append(net, m),
           NEW T, net \in Seq(T), m \in T, NEW g, NEW c
    PROVE  /\ net' # <<>> /\ net'[Len(net')] = m
           /\ net'[1] = IF net = <<>> THEN m ELSE net[1]
           /\ Len(net') = Len(net) + 1 /\ net' \in Seq(T)
           /\ \A j \in 1..Len(net') : net'[j] = m \/ \E k \in 1..Len(net) : net'[j] = net[k]
           /\ (\A i \in 1..Len(net) - 1 : Succeeding(g, c, net[i], net[i + 1]))
              /\ (net # <<>> => Succeeding(g, c, net[Len(net)], m))
                 => \A i \in 1..Len(net') - 1 : Succeeding(g, c, net'[i], net'[i + 1])
<1>1. /\ net' \in Seq(T) /\ net' # <<>> /\ Len(net') = Len(net) + 1
      /\ \A i \in 1..Len(net) : net'[i] = net[i]
      /\ net'[Len(net) + 1] = m
  BY AppendProperties
<1>2. Len(net) \in Nat /\ (net = <<>> <=> Len(net) = 0)
  BY LenProperties, EmptySeq
<1>3. net'[1] = IF net = <<>> THEN m ELSE net[1]
  BY <1>1, <1>2
<1>4. ASSUME \A i \in 1..Len(net) - 1 : Succeeding(g, c, net[i], net[i + 1]),
             net # <<>> => Succeeding(g, c, net[Len(net)], m),
             NEW i \in 1..Len(net') - 1
      PROVE  Succeeding(g, c, net'[i], net'[i + 1])
  <2>1. CASE i = Len(net)
    BY <1>1, <1>2, <1>4, <2>1
  <2>2. CASE i # Len(net)
    <3>1. i \in 1..Len(net) - 1 /\ i \in 1..Len(net) /\ i + 1 \in 1..Len(net)
      BY <1>1, <1>2, <2>2
    <3> QED
      BY <1>1, <1>4, <3>1
  <2> QED
    BY <2>1, <2>2
<1>5. ASSUME NEW j \in 1..Len(net')
      PROVE  net'[j] = m \/ \E k \in 1..Len(net) : net'[j] = net[k]
  <2>1. j = Len(net) + 1 \/ j \in 1..Len(net)
    BY <1>1, <1>2
  <2> QED
    BY <1>1, <2>1
<1> QED
  BY <1>1, <1>3, <1>4, <1>5

\* The oldest message is taken, and the one after it is the oldest.
LEMMA Taken ==
    ASSUME net \in Seq(Message), net # <<>>, net' = Tail(net), NEW g, NEW c,
           \A i \in 1..Len(net) - 1 : Succeeding(g, c, net[i], net[i + 1])
    PROVE  /\ net' # <<>> => /\ Succeeding(g, c, net[1], net'[1])
                             /\ net'[Len(net')] = net[Len(net)]
           /\ net' = <<>> => net[Len(net)] = net[1]
           /\ \A i \in 1..Len(net') - 1 : Succeeding(g, c, net'[i], net'[i + 1])
<1>1. /\ net' \in Seq(Message) /\ Len(net') = Len(net) - 1
      /\ \A i \in 1..Len(net') : net'[i] = net[i + 1]
  BY HeadTailProperties
<1>2. Len(net) \in Nat \ {0} /\ (net' = <<>> <=> Len(net') = 0)
  BY <1>1, EmptySeq
<1>3. CASE net' = <<>>
  BY <1>1, <1>2, <1>3
<1>4. CASE net' # <<>>
  <2>1. 1 \in 1..Len(net') /\ 1 \in 1..Len(net) - 1 /\ Len(net') \in 1..Len(net')
        /\ Len(net') + 1 = Len(net)
    BY <1>1, <1>2, <1>4
  <2>2. net'[1] = net[2] /\ Succeeding(g, c, net[1], net[2]) /\ net'[Len(net')] = net[Len(net)]
    BY <1>1, <2>1
  <2>3. ASSUME NEW i \in 1..Len(net') - 1
        PROVE  Succeeding(g, c, net'[i], net'[i + 1])
    <3>1. /\ i \in 1..Len(net') /\ i + 1 \in 1..Len(net') /\ i + 1 \in 1..Len(net) - 1
      BY <1>1, <1>2
    <3> QED
      BY <1>1, <3>1
  <2> QED
    BY <1>4, <2>2, <2>3
<1> QED
  BY <1>3, <1>4

\* What is excused stays so while more sends fail.
LEMMA MoreMissing ==
    ASSUME NEW g, NEW c, NEW g2, NEW c2, g \subseteq g2, c \subseteq c2
    PROVE  /\ \A s, a, b : Reaches(g, c, s, a, b) => Reaches(g2, c2, s, a, b)
           /\ \A x, y : Succeeding(g, c, x, y) => Succeeding(g2, c2, x, y)
<1>1. ASSUME NEW s, NEW a, NEW b, Reaches(g, c, s, a, b) PROVE Reaches(g2, c2, s, a, b)
  BY <1>1, Zenon DEF Reaches, Lacks
<1>2. ASSUME NEW x, NEW y, Succeeding(g, c, x, y) PROVE Succeeding(g2, c2, x, y)
  BY <1>1, <1>2, Zenon DEF Succeeding
<1> QED
  BY <1>1, <1>2

\* A packet that is excused itself extends what is missing before it.
LEMMA OneMore ==
    ASSUME NEW g, NEW c, NEW s, NEW a \in Int, NEW b \in Int,
           Reaches(g, c, s, a, b),
           s \in c \/ [kind |-> "audio", session |-> s, n |-> b] \in g
    PROVE  Reaches(g, c, s, a, b + 1)
<1>1. a <= b + 1
  BY DEF Reaches
<1>2. ASSUME s \notin c, NEW n \in a..(b + 1) - 1
      PROVE  [kind |-> "audio", session |-> s, n |-> n] \in g
  <2>1. n = b \/ n \in a..b - 1
    OBVIOUS
  <2> QED
    BY <1>2, <2>1 DEF Reaches, Lacks
<1> QED
  BY <1>1, <1>2 DEF Reaches, Lacks

----------------------------------------------------------------------------

\* What was sent stays sent, and what joins the messages and the histories must
\* have been.
SentBy(se, n, m) == m.session < se \/ (m.session = se /\ (m.kind = "audio" => m.n < n))

LEMMA SentSoFar ==
    ASSUME LinkTypeOK, session' \in Nat, sent' \in Nat,
           session' > session \/ (session' = session /\ sent' >= sent),
           \A j \in 1..Len(net') :
               (\E k \in 1..Len(net) : net'[j] = net[k]) \/ SentBy(session', sent', net'[j]),
           \A s \in Session : taken'[s] = -1 \/ taken'[s] = taken[s]
               \/ SentBy(session', sent', [kind |-> "audio", session |-> s, n |-> taken'[s]]),
           dropped' \in {dropped, NoMessage} \/ SentBy(session', sent', dropped'),
           \A m \in unsent' : m \in unsent \/ SentBy(session', sent', m),
           \A s \in cut' : s \in cut \/ s <= session'
    PROVE  OnlySent'
<1>1. /\ session \in Nat /\ sent \in Nat /\ net \in Seq(Message) /\ cut \subseteq Session
      /\ unsent \subseteq Audio /\ dropped \in Audio \cup {NoMessage}
      /\ taken \in [Session -> -1..MaxSent - 1]
  BY LinkConstants DEF LinkTypeOK, Message
<1>2. ASSUME NEW m, m.session \in Int, m.kind = "audio" => m.n \in Int, SentBy(session, sent, m)
      PROVE  SentBy(session', sent', m)
  BY <1>1, <1>2 DEF SentBy
<1>3. \A m \in Message : SentBy(session, sent, m) => SentBy(session', sent', m)
  <2>1. \A m \in Message : m.session \in Int /\ (m.kind = "audio" => m.n \in Int)
    BY LinkConstants DEF Session, Message, Audio, Format
  <2> QED
    BY <1>2, <2>1
<1>4. /\ \A i \in 1..Len(net) : SentBy(session, sent, net[i])
      /\ \A s \in Session : taken[s] # -1 =>
            SentBy(session, sent, [kind |-> "audio", session |-> s, n |-> taken[s]])
      /\ dropped # NoMessage => SentBy(session, sent, dropped)
      /\ \A m \in unsent : SentBy(session, sent, m)
      /\ \A s \in cut : s <= session
  BY DEF LinkTypeOK, OnlySent, WasSent, SentBy
<1>5. ASSUME NEW j \in 1..Len(net') PROVE SentBy(session', sent', net'[j])
  <2>1. CASE \E k \in 1..Len(net) : net'[j] = net[k]
    <3>1. PICK k \in 1..Len(net) : net'[j] = net[k]
      BY <2>1
    <3>2. net[k] \in Message /\ SentBy(session, sent, net[k])
      BY <1>1, <1>4, ElementOfSeq
    <3>3. SentBy(session', sent', net[k])
      BY <1>3, <3>2
    <3> QED
      BY <3>1, <3>3
  <2> QED
    BY <2>1
<1>6. ASSUME NEW s \in Session, taken'[s] # -1
      PROVE  SentBy(session', sent', [kind |-> "audio", session |-> s, n |-> taken'[s]])
  <2>1. CASE taken'[s] = taken[s]
    <3>1. taken[s] \in Int
      BY <1>1, LinkConstants
    <3> DEFINE m == [kind |-> "audio", session |-> s, n |-> taken[s]]
    <3>2. m.session \in Int /\ m.n \in Int /\ SentBy(session, sent, m)
      BY <1>4, <1>6, <2>1, <3>1, LinkConstants DEF Session
    <3> HIDE DEF m
    <3>3. SentBy(session', sent', m)
      BY <1>2, <3>2
    <3> QED
      BY <2>1, <3>3 DEF m
  <2> QED
    BY <1>6, <2>1
<1>7. ASSUME dropped' # NoMessage PROVE SentBy(session', sent', dropped')
  <2>1. CASE dropped' \in {dropped, NoMessage}
    <3>1. dropped' = dropped /\ dropped \in Message /\ SentBy(session, sent, dropped)
      BY <1>1, <1>4, <1>7, <2>1 DEF Message
    <3>2. SentBy(session', sent', dropped)
      BY <1>3, <3>1
    <3> QED
      BY <3>1, <3>2
  <2> QED
    BY <2>1
<1>8. ASSUME NEW m \in unsent' PROVE SentBy(session', sent', m)
  <2>1. m \in unsent => m \in Message /\ SentBy(session, sent, m)
    BY <1>1, <1>4 DEF Message
  <2> QED
    BY <1>3, <2>1
<1>9. \A s \in cut' : s <= session'
  <2>1. ASSUME NEW s \in cut PROVE s <= session'
    <3>1. s \in Int /\ s <= session
      BY <1>1, <1>4, LinkConstants DEF Session
    <3> QED
      BY <1>1, <3>1
  <2> QED
    BY <2>1
<1> QED
  BY <1>5, <1>6, <1>7, <1>8, <1>9 DEF OnlySent, WasSent, SentBy

----------------------------------------------------------------------------

\* What the daemon holds is kept by whatever leaves its variables alone.
LEMMA DaemonKept ==
    ASSUME Inv, Placed, TcpHidesOnlyUnsent, UNCHANGED <<vars, transport, initialized, history>>,
           unsent \subseteq unsent', cut \subseteq cut'
    PROVE  Inv' /\ Placed' /\ TcpHidesOnlyUnsent'
<1>1. /\ ring' = ring /\ have_seq' = have_seq /\ next_seq' = next_seq /\ packet' = packet
      /\ gap' = gap /\ taken' = taken /\ current' = current /\ dropped' = dropped
  BY DEF vars, sequencing, adaptation, history
<1>2. TcpHidesOnlyUnsent'
  <2> SUFFICES ASSUME transport = "tcp"
               PROVE  /\ dropped' = NoMessage
                      /\ Excused(current, next_seq, next_seq + gap)'
                      /\ \A i \in 1..Len(ring') : ring'[i].made = "concealed" =>
                             cut' # {} \/ \E m \in unsent' : m.n % SeqSize = ring'[i].seq
    BY DEF TcpHidesOnlyUnsent
  <2>1. Excused(current, next_seq, next_seq + gap)'
    BY <1>1 DEF TcpHidesOnlyUnsent, Excused
  <2>2. ASSUME NEW i \in 1..Len(ring), ring[i].made = "concealed"
        PROVE  cut' # {} \/ \E m \in unsent' : m.n % SeqSize = ring[i].seq
    BY <2>2 DEF TcpHidesOnlyUnsent
  <2> QED
    BY <1>1, <2>1, <2>2 DEF TcpHidesOnlyUnsent
<1> QED
  BY <1>1, <1>2, InvStutter DEF Placed, Position

\* The invariant holds before the first stream.
LEMMA LinkInvInit == LinkInit => LinkInv
<1> SUFFICES ASSUME LinkInit PROVE LinkInv
  OBVIOUS
<1>1. Inv
  BY InvInit DEF LinkInit
<1>2. /\ have_seq = FALSE /\ next_seq = 0 /\ packet = NoPacket /\ gap = 0 /\ ring = <<>>
      /\ net = <<>> /\ Len(net) = 0 /\ Len(ring) = 0
  BY EmptySeq DEF LinkInit, Init
<1>3. LinkTypeOK
  <2>1. NoneTaken \in [Session -> -1..MaxSent - 1] /\ <<>> \in Seq(Audio \cup Format)
    BY LinkConstants, EmptySeq DEF NoneTaken
  <2>2. 0 \in 0..MaxSessions /\ 0 \in 0..MaxSent /\ 0 \in 0..MaxCrashes /\ 0 <= NetSize
    BY LinkConstants
  <2>3. OnlySent
    BY <1>2 DEF LinkInit, OnlySent, NoneTaken
  <2> QED
    BY <1>2, <2>1, <2>2, <2>3 DEF LinkInit, LinkTypeOK
<1>4. Placed
  BY <1>2, LinkConstants DEF LinkInit, Placed, Position, NoneTaken, NoPacket
<1>5. Unbroken /\ TcpHidesOnlyUnsent
  BY <1>2 DEF LinkInit, Unbroken, TcpHidesOnlyUnsent, Excused
<1> QED
  BY <1>1, <1>3, <1>4, <1>5 DEF LinkInv

\* A new stream is announced behind everything under way.
LEMMA InvStart == ASSUME LinkInv, Start PROVE LinkInv'
<1> DEFINE m == [kind |-> "format", session |-> session + 1]
<1>1. /\ session \in 0..MaxSessions /\ session + 1 \in Session /\ m \in Format /\ m \in Message
      /\ net' = Append(net, m) /\ session' = session + 1 /\ sent' = 0 /\ connected' = TRUE
      /\ transport' = transport /\ initialized' = initialized /\ crashes' = crashes
      /\ taken' = taken /\ current' = current /\ dropped' = dropped
      /\ unsent' = unsent /\ cut' = cut
      /\ net \in Seq(Message) /\ Len(net) < NetSize
  BY LinkConstants
     DEF LinkInv, LinkTypeOK, Start, daemon, history, failures, Session, Format, Message
<1>2. m.kind = "format" /\ m.session = session + 1
  OBVIOUS
<1> HIDE DEF m
<1>3. /\ net' # <<>> /\ net'[Len(net')] = m
      /\ net'[1] = IF net = <<>> THEN m ELSE net[1]
      /\ Len(net') = Len(net) + 1 /\ net' \in Seq(Message)
      /\ \A j \in 1..Len(net') : net'[j] = m \/ \E k \in 1..Len(net) : net'[j] = net[k]
      /\ (\A i \in 1..Len(net) - 1 : Succeeding(unsent, cut, net[i], net[i + 1]))
         /\ (net # <<>> => Succeeding(unsent, cut, net[Len(net)], m))
            => \A i \in 1..Len(net') - 1 : Succeeding(unsent, cut, net'[i], net'[i + 1])
  BY <1>1, Sent
<1>4. Inv' /\ Placed' /\ TcpHidesOnlyUnsent'
  BY <1>1, DaemonKept DEF LinkInv, Start, daemon
<1>5. LinkTypeOK'
  <2>1. Len(net') <= NetSize /\ session' \in 0..MaxSessions /\ sent' \in 0..MaxSent
    BY <1>1, <1>3, LinkConstants, LenProperties DEF Session
  <2>2. OnlySent'
    <3>1. SentBy(session', sent', m)
      BY <1>1, <1>2 DEF SentBy
    <3>2. session' \in Nat /\ sent' \in Nat /\ session' > session
      BY <1>1
    <3>3. \A s \in cut' : s \in cut
      BY <1>1
    <3> QED
      BY <1>1, <1>3, <3>1, <3>2, <3>3, SentSoFar DEF LinkInv
  <2> QED
    BY <1>1, <1>3, <2>1, <2>2 DEF LinkInv, LinkTypeOK, Message
<1>6. Unbroken'
  <2> SUFFICES ASSUME transport = "tcp"
               PROVE  /\ Expected'
                      /\ \A i \in 1..Len(net') - 1 : Succeeding(unsent, cut, net'[i], net'[i + 1])
                      /\ Succeeding(unsent, cut, net'[Len(net')], Upcoming')
    BY <1>1, <1>3, <1>4 DEF Unbroken
  <2>1. /\ net # <<>> => Expected
        /\ \A i \in 1..Len(net) - 1 : Succeeding(unsent, cut, net[i], net[i + 1])
    BY DEF LinkInv, Unbroken
  <2>2. Expected'
    <3>1. NextIn' = IF net = <<>> THEN m ELSE NextIn
      BY <1>3 DEF NextIn
    <3>2. LastTaken' = LastTaken
      BY <1>1 DEF LastTaken
    <3> QED
      BY <1>1, <1>2, <2>1, <3>1, <3>2 DEF Expected
  <2>3. \A g, c, x : Succeeding(g, c, x, m)
    BY <1>2 DEF Succeeding
  <2>4. Succeeding(unsent, cut, m, Upcoming')
    <3>1. Upcoming'.kind = "audio" /\ Upcoming'.session = session + 1 /\ Upcoming'.n = 0
      BY <1>1 DEF Upcoming
    <3>2. \A s : Reaches(unsent, cut, s, 0, 0)
      BY DEF Reaches, Lacks
    <3> QED
      BY <1>2, <3>1, <3>2 DEF Succeeding
  <2> QED
    BY <1>3, <2>1, <2>2, <2>3, <2>4
<1> QED
  BY <1>4, <1>5, <1>6 DEF LinkInv

\* The next packet of the stream follows what was sent before it, or joins what
\* may be missing.
LEMMA InvSend == ASSUME LinkInv, Send PROVE LinkInv'
<1>1. /\ session \in Session /\ session \in Nat /\ sent \in 0..MaxSent - 1 /\ sent' = sent + 1
      /\ session' = session /\ connected' = connected
      /\ transport' = transport /\ initialized' = initialized /\ crashes' = crashes
      /\ taken' = taken /\ current' = current /\ dropped' = dropped
      /\ net \in Seq(Message) /\ Len(net) <= NetSize /\ sent \in Nat
  BY LinkConstants DEF LinkInv, LinkTypeOK, Send, daemon, history, Session, Message
<1>2. Upcoming \in Audio /\ Upcoming \in Message
  BY <1>1 DEF Upcoming, Audio, Message
<1>3. /\ Upcoming = [kind |-> "audio", session |-> session, n |-> sent]
      /\ Upcoming.kind = "audio" /\ Upcoming.session = session /\ Upcoming.n = sent
      /\ Upcoming'.kind = "audio" /\ Upcoming'.session = session /\ Upcoming'.n = sent + 1
  BY <1>1 DEF Upcoming
<1>4. /\ unsent \subseteq unsent' /\ cut \subseteq cut'
      /\ \A m \in unsent' : m \in unsent \/ m = Upcoming
      /\ \A s \in cut' : s \in cut \/ s = session
  BY DEF Send, Deliver, Fail, CutShort, failures
<1>5. \/ net' = Append(net, Upcoming) /\ Len(net) < NetSize /\ connected
      \/ net' = net /\ transport = "tcp" /\ Upcoming \in unsent'
  <2>1. CASE Deliver
    BY <1>1, <1>2, <2>1, AppendIsConcat DEF Deliver, Datagram
  <2>2. CASE Fail
    BY <2>2 DEF Fail
  <2>3. CASE CutShort
    BY <1>1, <1>2, <2>3, AppendIsConcat DEF CutShort, Datagram
  <2> QED
    BY <2>1, <2>2, <2>3 DEF Send
<1> HIDE DEF Upcoming
<1>6. Inv' /\ Placed' /\ TcpHidesOnlyUnsent'
  BY <1>1, <1>4, DaemonKept DEF LinkInv, Send, daemon
<1>7. /\ net' \in Seq(Message) /\ Len(net') <= NetSize
      /\ \A j \in 1..Len(net') : net'[j] = Upcoming \/ \E k \in 1..Len(net) : net'[j] = net[k]
  <2>1. CASE net' = Append(net, Upcoming) /\ Len(net) < NetSize
    <3>1. /\ Len(net') = Len(net) + 1 /\ net' \in Seq(Message)
          /\ \A j \in 1..Len(net') : net'[j] = Upcoming \/ \E k \in 1..Len(net) : net'[j] = net[k]
      BY <1>1, <1>2, <2>1, Sent
    <3> QED
      BY <2>1, <3>1, LinkConstants, LenProperties, <1>1
  <2>2. CASE net' = net
    BY <1>1, <2>2
  <2> QED
    BY <1>5, <2>1, <2>2
<1>8. LinkTypeOK'
  <2>1. sent' \in 0..MaxSent /\ unsent' \subseteq Audio /\ cut' \subseteq Session
    BY <1>1, <1>2, <1>4, LinkConstants DEF LinkInv, LinkTypeOK
  <2>2. OnlySent'
    <3>1. SentBy(session', sent', Upcoming)
      BY <1>1, <1>3 DEF SentBy
    <3>2. session' \in Nat /\ sent' \in Nat /\ session' = session /\ sent' >= sent
      BY <1>1
    <3>3. \A s \in cut' : s \in cut \/ s <= session'
      BY <1>1, <1>4
    <3> QED
      BY <1>1, <1>4, <1>7, <3>1, <3>2, <3>3, SentSoFar DEF LinkInv
  <2> QED
    BY <1>1, <1>7, <2>1, <2>2 DEF LinkInv, LinkTypeOK, Message
<1>9. Unbroken'
  <2> SUFFICES ASSUME transport = "tcp" PROVE Unbroken'
    BY <1>1 DEF Unbroken
  <2>1. /\ \A s, a, b : Reaches(unsent, cut, s, a, b) => Reaches(unsent', cut', s, a, b)
        /\ \A x, y : Succeeding(unsent, cut, x, y) => Succeeding(unsent', cut', x, y)
    BY <1>4, MoreMissing
  <2>2. /\ net # <<>> \/ connected => Expected
        /\ \A i \in 1..Len(net) - 1 : Succeeding(unsent', cut', net[i], net[i + 1])
        /\ connected => (net # <<>> => Succeeding(unsent', cut', net[Len(net)], Upcoming))
    BY <2>1 DEF LinkInv, Unbroken
  <2>3. LastTaken' = LastTaken /\ LastTaken \in Int
    BY <1>1, LinkConstants DEF LastTaken, LinkInv, LinkTypeOK, Session
  <2>4. CASE net' = Append(net, Upcoming) /\ connected
    <3>1. /\ net' # <<>> /\ net'[Len(net')] = Upcoming
          /\ net'[1] = IF net = <<>> THEN Upcoming ELSE net[1]
          /\ \A i \in 1..Len(net') - 1 : Succeeding(unsent', cut', net'[i], net'[i + 1])
      BY <1>1, <1>2, <2>2, <2>4, Sent
    <3>2. NextIn' = NextIn
      BY <3>1 DEF NextIn
    <3>3. Expected'
      BY <1>1, <2>1, <2>2, <2>3, <2>4, <3>2 DEF Expected
    <3>4. Succeeding(unsent', cut', Upcoming, Upcoming')
      <4>1. sent + 1 \in Int /\ Reaches(unsent', cut', session, sent + 1, sent + 1)
        BY <1>1 DEF Reaches, Lacks
      <4> QED
        BY <1>3, <4>1 DEF Succeeding
    <3> QED
      BY <1>1, <3>1, <3>3, <3>4 DEF Unbroken
  <2>5. CASE net' = net /\ Upcoming \in unsent'
    <3>1. net # <<>> \/ connected => Expected'
      <4>1. CASE net # <<>>
        <5>1. NextIn' = NextIn
          BY <2>5, <4>1 DEF NextIn
        <5> QED
          BY <1>1, <2>1, <2>2, <2>3, <4>1, <5>1 DEF Expected
      <4>2. CASE net = <<>> /\ connected
        <5>1. NextIn = Upcoming /\ NextIn' = Upcoming'
          BY <2>5, <4>2 DEF NextIn
        <5>2. Reaches(unsent', cut', session, LastTaken + 1, sent)
          BY <1>3, <2>1, <2>2, <4>2, <5>1 DEF Expected
        <5>3. Reaches(unsent', cut', session, LastTaken + 1, sent + 1)
          <6>1. LastTaken + 1 \in Int /\ sent \in Int
            BY <1>1, <2>3
          <6> QED
            BY <1>3, <2>5, <5>2, <6>1, OneMore
        <5> QED
          BY <1>1, <1>3, <2>2, <2>3, <4>2, <5>1, <5>3 DEF Expected
      <4> QED
        BY <4>1, <4>2
    <3>2. connected /\ net # <<>> => Succeeding(unsent', cut', net[Len(net)], Upcoming')
      <4> SUFFICES ASSUME connected, net # <<>>
                   PROVE  Succeeding(unsent', cut', net[Len(net)], Upcoming')
        OBVIOUS
      <4> DEFINE x == net[Len(net)]
                 a == IF x.kind = "format" THEN 0 ELSE x.n + 1
      <4>1. x \in Message
        <5>1. Len(net) \in 1..Len(net)
          BY <1>1, LenProperties, EmptySeq
        <5> QED
          BY <1>1, <5>1, ElementOfSeq
      <4>2. a \in Int
        BY <4>1, Kinds, LinkConstants
      <4>3. session = x.session /\ Reaches(unsent', cut', session, a, sent)
        BY <1>3, <2>2 DEF Succeeding
      <4> HIDE DEF x, a
      <4>4. Reaches(unsent', cut', session, a, sent + 1)
        BY <1>1, <1>3, <2>5, <4>2, <4>3, OneMore
      <4> QED
        BY <1>3, <4>3, <4>4 DEF Succeeding, x, a
    <3> QED
      BY <1>1, <2>2, <2>5, <3>1, <3>2 DEF Unbroken
  <2> QED
    BY <1>5, <2>4, <2>5
<1> QED
  BY <1>6, <1>8, <1>9 DEF LinkInv

\* What the network does with the message the daemon reads.
LEMMA ReceivedKept ==
    ASSUME LinkInv, NEW i \in 1..Len(net), Received(i)
    PROVE  /\ net' \in Seq(Message) /\ Len(net') <= NetSize /\ net[i] \in Message
           /\ \A j \in 1..Len(net') : \E k \in 1..Len(net) : net'[j] = net[k]
           /\ packet = NoPacket /\ transport' = transport /\ transport \in {"udp", "tcp"}
           /\ session' = session /\ sent' = sent /\ connected' = connected
           /\ unsent' = unsent /\ cut' = cut
           /\ transport = "tcp" => i = 1 /\ net # <<>> /\ net' = Tail(net)
<1>1. net \in Seq(Message) /\ Len(net) <= NetSize /\ transport \in {"udp", "tcp"}
  BY DEF LinkInv, LinkTypeOK, Message
<1>2. net' \in {net, Without(i), Tail(net)}
  BY DEF Received
<1>3. transport = "tcp" => i = 1 /\ net # <<>> /\ net' = Tail(net)
  BY <1>1, EmptySeq DEF Received
<1> QED
  BY <1>1, <1>2, <1>3, Removed DEF Received, phone, failures

\* Whatever was sent is sent when nothing else joins the messages.
LEMMA OnlySentKept ==
    ASSUME LinkTypeOK, session' = session, sent' = sent, unsent' = unsent, cut' = cut,
           \A j \in 1..Len(net') : \E k \in 1..Len(net) : net'[j] = net[k],
           \A s \in Session : taken'[s] = -1 \/ taken'[s] = taken[s]
               \/ SentBy(session, sent, [kind |-> "audio", session |-> s, n |-> taken'[s]]),
           dropped' \in {dropped, NoMessage} \/ SentBy(session, sent, dropped')
    PROVE  OnlySent'
<1>1. session \in Nat /\ sent \in Nat
  BY LinkConstants DEF LinkTypeOK
<1>2. sent' >= sent /\ session' \in Nat /\ sent' \in Nat
  BY <1>1
<1> QED
  BY <1>2, SentSoFar

\* When the daemon has taken the oldest message, the next one follows it.
LEMMA UnbrokenTaken ==
    ASSUME LinkInv, transport = "tcp", net # <<>>, net' = Tail(net),
           transport' = transport, session' = session, sent' = sent, connected' = connected,
           unsent' = unsent, cut' = cut, net[1] \in Message, initialized',
           net[1].kind = "format" => current' = 0,
           net[1].kind = "audio" =>
               /\ current' # 0 => net[1].session = current'
               /\ \/ LastTaken' = net[1].n
                  \/ net[1].session \in cut /\ LastTaken' \in Int /\ LastTaken' <= net[1].n
    PROVE  Unbroken'
<1>1. /\ net \in Seq(Message) /\ Upcoming' = Upcoming
      /\ \A i \in 1..Len(net) - 1 : Succeeding(unsent, cut, net[i], net[i + 1])
      /\ connected => session \in Session /\ Succeeding(unsent, cut, net[Len(net)], Upcoming)
  BY DEF LinkInv, LinkTypeOK, Unbroken, Message, Upcoming
<1>2. /\ net' # <<>> => Succeeding(unsent, cut, net[1], net'[1]) /\ net'[Len(net')] = net[Len(net)]
      /\ net' = <<>> => net[Len(net)] = net[1]
      /\ \A i \in 1..Len(net') - 1 : Succeeding(unsent, cut, net'[i], net'[i + 1])
  BY <1>1, Taken
<1>3. net' # <<>> \/ connected => Succeeding(unsent, cut, net[1], NextIn')
  BY <1>1, <1>2 DEF NextIn
<1>4. ASSUME Succeeding(unsent, cut, net[1], NextIn') PROVE Expected'
  <2>1. CASE NextIn'.kind = "format"
    BY <2>1 DEF Expected
  <2>2. CASE /\ NextIn'.kind = "audio" /\ NextIn'.session = net[1].session
             /\ net[1].kind = "format" /\ Reaches(unsent, cut, NextIn'.session, 0, NextIn'.n)
    <3>1. current' = 0 /\ LastTaken' + 1 = 0
      BY <2>2 DEF LastTaken
    <3> QED
      BY <2>2, <3>1 DEF Expected
  <2>3. CASE /\ NextIn'.kind = "audio" /\ NextIn'.session = net[1].session
             /\ net[1].kind = "audio"
             /\ Reaches(unsent, cut, NextIn'.session, net[1].n + 1, NextIn'.n)
    <3>1. Reaches(unsent, cut, NextIn'.session, LastTaken' + 1, NextIn'.n)
      <4>1. CASE LastTaken' = net[1].n
        BY <2>3, <4>1
      <4>2. CASE net[1].session \in cut /\ LastTaken' \in Int /\ LastTaken' <= net[1].n
        <5>1. net[1].n \in Int /\ NextIn'.n \in Int
          <6>1. CASE net' = <<>>
            <7>1. NextIn' = Upcoming /\ Upcoming.n = sent /\ sent \in Int
              BY <1>1, <6>1, LinkConstants DEF NextIn, Upcoming, LinkInv, LinkTypeOK
            <7> QED
              BY <2>3, <7>1, Kinds, LinkConstants
          <6>2. CASE net' # <<>>
            <7>1. net' \in Seq(Message) /\ 1 \in 1..Len(net') /\ NextIn' = net'[1]
              BY <1>1, <6>2, HeadTailProperties, EmptySeq DEF NextIn
            <7>2. NextIn' \in Message
              BY <7>1, ElementOfSeq
            <7> QED
              BY <2>3, <7>2, Kinds, LinkConstants
          <6> QED
            BY <6>1, <6>2
        <5> QED
          BY <2>3, <4>2, <5>1 DEF Reaches, Lacks
      <4> QED
        BY <2>3, <4>1, <4>2
    <3> QED
      BY <2>3, <3>1 DEF Expected
  <2> QED
    BY <1>4, <2>1, <2>2, <2>3, Kinds DEF Succeeding
<1> QED
  BY <1>1, <1>2, <1>3, <1>4 DEF Unbroken

\* Only datagrams are lost.
LEMMA InvLose == ASSUME LinkInv, NEW i \in 1..Len(net), Lose(i) PROVE LinkInv'
<1>1. /\ transport' = transport /\ transport = "udp" /\ session' = session /\ sent' = sent
      /\ connected' = connected /\ crashes' = crashes /\ initialized' = initialized
      /\ taken' = taken /\ current' = current /\ dropped' = dropped
      /\ unsent' = unsent /\ cut' = cut
  BY DEF Lose, phone, daemon, history, failures
<1>2. Inv' /\ Placed' /\ TcpHidesOnlyUnsent'
  BY <1>1, DaemonKept DEF LinkInv, Lose, daemon
<1>3. /\ net' \in Seq(Message) /\ Len(net') <= NetSize
      /\ \A j \in 1..Len(net') : \E k \in 1..Len(net) : net'[j] = net[k]
  <2>1. net \in Seq(Message) /\ Len(net) <= NetSize /\ net' = Without(i)
    BY DEF LinkInv, LinkTypeOK, Message, Lose
  <2> QED
    BY <2>1, Removed
<1>4. LinkTypeOK'
  <2>1. OnlySent'
    BY <1>1, <1>3, OnlySentKept DEF LinkInv
  <2> QED
    BY <1>1, <1>3, <2>1 DEF LinkInv, LinkTypeOK, Message
<1>5. Unbroken'
  BY <1>1 DEF Unbroken
<1> QED
  BY <1>2, <1>4, <1>5 DEF LinkInv

\* What is swallowed is out of step, so the next message may follow anything.
LEMMA InvSwallow == ASSUME LinkInv, Swallow PROVE LinkInv'
<1>1. /\ transport' = transport /\ transport = "tcp" /\ session' = session /\ sent' = sent
      /\ connected' = connected /\ crashes' = crashes /\ initialized' = initialized
      /\ taken' = taken /\ current' = current /\ dropped' = dropped
      /\ unsent' = unsent /\ cut' = cut /\ net # <<>> /\ net' = Tail(net)
      /\ Head(net) = net[1] /\ net[1].kind = "audio" /\ net[1].session \in cut
      /\ net \in Seq(Message) /\ Len(net) <= NetSize
  BY DEF Swallow, phone, daemon, history, failures, LinkInv, LinkTypeOK, Message
<1>2. Inv' /\ Placed' /\ TcpHidesOnlyUnsent'
  BY <1>1, DaemonKept DEF LinkInv, Swallow, daemon
<1>3. /\ net' \in Seq(Message) /\ Len(net') <= NetSize /\ net[1] \in Message
      /\ \A j \in 1..Len(net') : \E k \in 1..Len(net) : net'[j] = net[k]
  <2>1. 1 \in 1..Len(net)
    BY <1>1, EmptySeq, LenProperties
  <2> QED
    BY <1>1, <2>1, Removed
<1>4. LinkTypeOK'
  <2>1. OnlySent'
    BY <1>1, <1>3, OnlySentKept DEF LinkInv
  <2> QED
    BY <1>1, <1>3, <2>1 DEF LinkInv, LinkTypeOK, Message
<1>5. Unbroken'
  <2>1. Expected /\ NextIn = net[1]
    BY <1>1 DEF LinkInv, Unbroken, NextIn
  <2>2. LastTaken \in Int /\ LastTaken' = LastTaken
    BY <1>1, LinkConstants DEF LastTaken, LinkInv, LinkTypeOK, Session
  <2>3. net[1].n \in Int /\ LastTaken + 1 <= net[1].n /\ initialized
        /\ (current # 0 => net[1].session = current)
    BY <1>1, <1>3, <2>1, Kinds, LinkConstants DEF Expected, Reaches
  <2>4. LastTaken <= net[1].n
    BY <2>2, <2>3
  <2> QED
    BY <1>1, <1>3, <2>2, <2>3, <2>4, UnbrokenTaken
<1> QED
  BY <1>2, <1>4, <1>5 DEF LinkInv

\* A connection that breaks loses the end of what is under way.
LEMMA InvBreak == ASSUME LinkInv, Break PROVE LinkInv'
<1>1. /\ transport' = transport /\ session' = session /\ sent' = sent
      /\ connected' = FALSE /\ crashes' = crashes /\ initialized' = initialized
      /\ taken' = taken /\ current' = current /\ dropped' = dropped
      /\ unsent' = unsent /\ cut' = cut
      /\ net \in Seq(Message) /\ Len(net) <= NetSize
  BY DEF Break, daemon, history, failures, LinkInv, LinkTypeOK, Message
<1>2. Inv' /\ Placed' /\ TcpHidesOnlyUnsent'
  BY <1>1, DaemonKept DEF LinkInv, Break, daemon
<1>3. PICK k \in 0..Len(net) : net' = SubSeq(net, 1, k)
  BY DEF Break
<1>4. /\ Len(net) \in Nat /\ k \in Nat /\ k <= Len(net)
      /\ net' \in Seq(Message) /\ Len(net') = k /\ \A j \in 1..k : net'[j] = net[j]
  <2>1. Len(net) \in Nat /\ \A j \in 1..k : net[j] \in Message
    BY <1>1, LenProperties, ElementOfSeq
  <2>2. 1 \in Int /\ k \in Int
    OBVIOUS
  <2>3. /\ net' \in Seq(Message) /\ Len(net') = (IF 1 <= k THEN k - 1 + 1 ELSE 0)
        /\ \A j \in 1..k - 1 + 1 : net'[j] = net[1 + j - 1]
    BY <1>3, <2>1, <2>2, SubSeqProperties
  <2>4. k - 1 + 1 = k /\ \A j \in 1..k : 1 + j - 1 = j
    OBVIOUS
  <2> QED
    BY <2>1, <2>3, <2>4
<1>5. LinkTypeOK'
  <2>1. \A j \in 1..Len(net') : \E i \in 1..Len(net) : net'[j] = net[i]
    BY <1>4
  <2>2. OnlySent'
    BY <1>1, <2>1, OnlySentKept DEF LinkInv
  <2>3. Len(net') <= NetSize
    BY <1>1, <1>4, LinkConstants
  <2> QED
    BY <1>1, <1>4, <2>2, <2>3 DEF LinkInv, LinkTypeOK, Message
<1>6. Unbroken'
  <2> SUFFICES ASSUME transport = "tcp"
               PROVE  /\ net' # <<>> => Expected'
                      /\ \A i \in 1..Len(net') - 1 :
                             Succeeding(unsent, cut, net'[i], net'[i + 1])
    BY <1>1 DEF Unbroken
  <2>1. ASSUME net' # <<>> PROVE Expected'
    <3>1. k >= 1
      BY <1>4, <2>1, EmptySeq
    <3>2. net # <<>> /\ net'[1] = net[1]
      BY <1>4, <3>1, EmptySeq
    <3>3. NextIn' = NextIn /\ LastTaken' = LastTaken /\ Expected
      BY <1>1, <2>1, <3>2 DEF NextIn, LastTaken, LinkInv, Unbroken
    <3> QED
      BY <1>1, <3>3 DEF Expected
  <2>2. ASSUME NEW i \in 1..Len(net') - 1
        PROVE  Succeeding(unsent, cut, net'[i], net'[i + 1])
    <3>1. i \in 1..Len(net) - 1 /\ i \in 1..k /\ i + 1 \in 1..k
      BY <1>4
    <3> QED
      BY <1>4, <3>1 DEF LinkInv, Unbroken
  <2> QED
    BY <2>1, <2>2
<1> QED
  BY <1>2, <1>5, <1>6 DEF LinkInv

\* on_format: nothing is left of what the daemon knew.
LEMMA InvOnFormat == ASSUME LinkInv, NEW i \in 1..Len(net), OnFormat(i) PROVE LinkInv'
<1>1. /\ net' \in Seq(Message) /\ Len(net') <= NetSize /\ net[i] \in Message
      /\ \A j \in 1..Len(net') : \E k \in 1..Len(net) : net'[j] = net[k]
      /\ packet = NoPacket /\ transport' = transport
      /\ session' = session /\ sent' = sent /\ connected' = connected
      /\ unsent' = unsent /\ cut' = cut
      /\ transport = "tcp" => i = 1 /\ net # <<>> /\ net' = Tail(net)
  BY ReceivedKept DEF OnFormat
<1>2. /\ net[i].kind = "format" /\ Restart /\ initialized' = TRUE /\ crashes' = crashes
      /\ taken' = NoneTaken /\ current' = 0 /\ dropped' = NoMessage
  BY DEF OnFormat, ResetJitter, Forget
<1>3. /\ have_seq' = FALSE /\ next_seq' = 0 /\ packet' = NoPacket /\ gap' = gap
      /\ ring' = ring /\ packet' = packet
  BY <1>1, <1>2 DEF Restart
<1>4. Inv'
  BY <1>2, InvRestart DEF LinkInv
<1>5. LinkTypeOK'
  <2>1. NoneTaken \in [Session -> -1..MaxSent - 1] /\ 0 \in 0..MaxSessions
    BY LinkConstants DEF NoneTaken
  <2>2. \A s \in Session : taken'[s] = -1
    BY <1>2 DEF NoneTaken
  <2>3. OnlySent'
    BY <1>1, <1>2, <2>2, OnlySentKept DEF LinkInv
  <2> QED
    BY <1>1, <1>2, <2>1, <2>3 DEF LinkInv, LinkTypeOK, Message
<1>6. Placed'
  BY <1>2, <1>3, LinkConstants DEF Placed, Position, NoneTaken, NoPacket
<1>7. Unbroken'
  <2>1. CASE transport = "tcp"
    BY <1>1, <1>2, <2>1, UnbrokenTaken
  <2>2. CASE transport # "tcp"
    BY <1>1, <2>2 DEF Unbroken
  <2> QED
    BY <2>1, <2>2
<1>8. TcpHidesOnlyUnsent'
  <2>1. gap = 0
    BY <1>1 DEF LinkInv, Inv, Sequenced
  <2>2. Excused(current, next_seq, next_seq + gap)'
    BY <1>2, <1>3, <2>1 DEF Excused
  <2> QED
    BY <1>1, <1>2, <1>3, <2>2 DEF LinkInv, TcpHidesOnlyUnsent
<1> QED
  BY <1>4, <1>5, <1>6, <1>7, <1>8 DEF LinkInv

\* Audio is ignored over UDP only: over TCP the announcement is in front of it.
LEMMA InvIgnore == ASSUME LinkInv, NEW i \in 1..Len(net), Ignore(i) PROVE LinkInv'
<1>1. /\ net' \in Seq(Message) /\ Len(net') <= NetSize /\ net[i] \in Message
      /\ \A j \in 1..Len(net') : \E k \in 1..Len(net) : net'[j] = net[k]
      /\ packet = NoPacket /\ transport' = transport
      /\ session' = session /\ sent' = sent /\ connected' = connected
      /\ unsent' = unsent /\ cut' = cut
      /\ transport = "tcp" => i = 1 /\ net # <<>> /\ net' = Tail(net)
  BY ReceivedKept DEF Ignore
<1>2. /\ net[i].kind = "audio" /\ ~initialized /\ crashes' = crashes
      /\ taken' = taken /\ current' = current /\ dropped' = dropped
      /\ UNCHANGED <<vars, transport, initialized, history>>
  BY <1>1 DEF Ignore, daemon, history
<1>3. transport # "tcp"
  <2>1. SUFFICES ASSUME transport = "tcp" PROVE FALSE
    OBVIOUS
  <2>2. Expected /\ NextIn = net[1] /\ i = 1
    BY <1>1, <2>1 DEF LinkInv, Unbroken, NextIn
  <2> QED
    BY <1>2, <2>2 DEF Expected
<1>4. Inv' /\ Placed' /\ TcpHidesOnlyUnsent'
  BY <1>1, <1>2, DaemonKept DEF LinkInv
<1>5. LinkTypeOK'
  <2>1. OnlySent'
    BY <1>1, <1>2, OnlySentKept DEF LinkInv
  <2> QED
    BY <1>1, <1>2, <2>1 DEF LinkInv, LinkTypeOK, history, Message
<1>6. Unbroken'
  BY <1>1, <1>3 DEF Unbroken
<1> QED
  BY <1>4, <1>5, <1>6 DEF LinkInv
----------------------------------------------------------------------------

\* Where the buffer is when a packet comes, and how far ahead that is.
LEMMA Comes ==
    ASSUME LinkInv, NEW m \in Audio, packet = NoPacket
    PROVE  /\ m.n \in 0..MaxSent - 1 /\ m.n % SeqSize = m.n /\ m.n \in Seq32
           /\ m.session \in Session
           /\ next_seq \in 0..MaxSent /\ Position = next_seq
           /\ Ahead(m.n) = IF have_seq THEN m.n - next_seq ELSE 0
<1>1. m.n \in 0..MaxSent - 1 /\ m.session \in Session /\ next_seq \in 0..MaxSent
  BY DEF Audio, LinkInv, Placed
<1>2. m.n % SeqSize = m.n /\ m.n \in Seq32 /\ m.n \in 0..MaxSent
  BY <1>1, WireNumber
<1>3. Signed(m.n - next_seq) = m.n - next_seq
  BY <1>1, <1>2, SignedPlain
<1> QED
  BY <1>1, <1>2, <1>3 DEF Ahead, Position

\* The buffer takes a packet that lies at its position or beyond.
LEMMA Takes ==
    ASSUME LinkInv, NEW m \in Audio, packet = NoPacket, Accept(m.n) \/ Resync(m.n)
    PROVE  /\ have_seq' = TRUE /\ packet' = m.n /\ m.n \in 0..MaxSent - 1
           /\ next_seq' \in 0..m.n /\ gap' = m.n - next_seq'
           /\ next_seq \in 0..MaxSent
           /\ have_seq => next_seq <= m.n
           /\ ~have_seq => next_seq' = m.n
           /\ next_seq' = next_seq \/ gap' = 0
           /\ Position' = m.n + 1
<1>1. /\ m.n \in 0..MaxSent - 1 /\ next_seq \in 0..MaxSent
      /\ Ahead(m.n) = IF have_seq THEN m.n - next_seq ELSE 0
  BY Comes
<1>2. have_seq' = TRUE /\ packet' = m.n
  BY DEF Accept, Resync, Receive
<1>3. /\ next_seq' \in 0..m.n /\ gap' = m.n - next_seq'
      /\ have_seq => next_seq <= m.n
      /\ ~have_seq => next_seq' = m.n
      /\ next_seq' = next_seq \/ gap' = 0
  <2>1. CASE Accept(m.n)
    <3>1. /\ Ahead(m.n) \in 0..MaxConcealed /\ gap' = Ahead(m.n)
          /\ next_seq' = IF have_seq THEN next_seq ELSE m.n
      BY <2>1 DEF Accept, Missing
    <3> QED
      BY <1>1, <3>1, LinkConstants
  <2>2. CASE Resync(m.n)
    <3>1. Ahead(m.n) > MaxConcealed /\ gap' = 0 /\ next_seq' = m.n
      BY <2>2 DEF Resync
    <3> QED
      BY <1>1, <3>1, LinkConstants
  <2> QED
    BY <2>1, <2>2
<1>4. Position' = m.n + 1
  BY <1>1, <1>2, LinkConstants DEF Position, NoPacket
<1> QED
  BY <1>1, <1>2, <1>3, <1>4

\* Over TCP a packet is never late, and what is missing before it was not sent.
LEMMA OnTime ==
    ASSUME LinkInv, NEW i \in 1..Len(net), OnAudio(i), transport = "tcp"
    PROVE  /\ Ahead(net[i].n) >= 0
           /\ Excused(net[i].session, taken[net[i].session] + 1, net[i].n)
           /\ have_seq => taken[net[i].session] + 1 = next_seq
<1>1. packet = NoPacket /\ i = 1 /\ net # <<>> /\ net[i] \in Message
  BY ReceivedKept DEF OnAudio
<1>2. net[i].kind = "audio" /\ net[i] \in Audio
  BY <1>1, Kinds DEF OnAudio
<1>3. Expected /\ NextIn = net[i] /\ NextIn.kind # "format"
  BY <1>1, <1>2 DEF LinkInv, Unbroken, NextIn
<1>4. /\ Ahead(net[i].n) = IF have_seq THEN net[i].n - next_seq ELSE 0
      /\ Position = next_seq /\ net[i].n \in 0..MaxSent - 1 /\ next_seq \in 0..MaxSent
      /\ net[i].session \in Session
  BY <1>1, <1>2, Comes
<1>5. /\ current # 0 => net[i].session = current
      /\ Reaches(unsent, cut, net[i].session, LastTaken + 1, net[i].n)
  BY <1>3 DEF Expected
<1>6. CASE have_seq
  <2>1. current \in Session /\ taken[current] = next_seq - 1 /\ current # 0
    BY <1>4, <1>6, LinkConstants DEF LinkInv, Placed, Session
  <2>2. net[i].session = current /\ LastTaken = next_seq - 1
    BY <1>5, <2>1 DEF LastTaken
  <2>3. LastTaken + 1 = next_seq /\ taken[current] + 1 = next_seq
    BY <1>4, <2>1, <2>2, LinkConstants
  <2>4. next_seq <= net[i].n
    BY <1>5, <2>3 DEF Reaches
  <2>5. net[i].n - next_seq >= 0
    BY <1>4, <2>4, LinkConstants
  <2> QED
    BY <1>4, <1>5, <1>6, <2>2, <2>3, <2>5 DEF Reaches, Lacks, Excused
<1>7. CASE ~have_seq
  <2>1. current = 0 /\ taken = NoneTaken
    BY <1>7 DEF LinkInv, Placed
  <2>2. LastTaken = -1 /\ taken[net[i].session] = -1
    BY <1>4, <2>1 DEF LastTaken, NoneTaken
  <2> QED
    BY <1>4, <1>5, <1>7, <2>2 DEF Reaches, Lacks, Excused
<1> QED
  BY <1>6, <1>7

\* on_packet: the packet is taken at or beyond the position, or dropped behind it.
LEMMA InvOnAudio == ASSUME LinkInv, NEW i \in 1..Len(net), OnAudio(i) PROVE LinkInv'
<1> DEFINE m == net[i]
<1>0. MaxSent \in Nat /\ MaxSessions \in Nat
  BY LinkConstants
<1>1. /\ net' \in Seq(Message) /\ Len(net') <= NetSize /\ m \in Message
      /\ packet = NoPacket /\ transport' = transport
      /\ session' = session /\ sent' = sent /\ connected' = connected
      /\ unsent' = unsent /\ cut' = cut
      /\ \A j \in 1..Len(net') : \E k \in 1..Len(net) : net'[j] = net[k]
      /\ transport = "tcp" => i = 1 /\ net # <<>> /\ net' = Tail(net)
  BY ReceivedKept DEF OnAudio
<1>2. m.kind = "audio" /\ m \in Audio /\ m # NoMessage /\ initialized
      /\ initialized' = initialized /\ crashes' = crashes
  BY <1>1, Kinds DEF OnAudio, daemon
<1>3. /\ m.n \in 0..MaxSent - 1 /\ m.n % SeqSize = m.n /\ m.n \in Seq32
      /\ m.session \in Session
      /\ next_seq \in 0..MaxSent /\ Position = next_seq
      /\ Ahead(m.n) = IF have_seq THEN m.n - next_seq ELSE 0
  BY <1>1, <1>2, Comes
<1>4. \/ /\ Accept(m.n) \/ Resync(m.n)
         /\ taken' = [taken EXCEPT ![m.session] = m.n]
         /\ current' = m.session
         /\ dropped' = dropped
      \/ /\ DropLate(m.n)
         /\ dropped' = m /\ taken' = taken /\ current' = current
  BY <1>3 DEF OnAudio
<1>5. transport = "tcp" => /\ Ahead(m.n) >= 0
                           /\ Excused(m.session, taken[m.session] + 1, m.n)
                           /\ have_seq => taken[m.session] + 1 = next_seq
  BY OnTime
<1>11. SentBy(session, sent, m)
  BY <1>2 DEF LinkInv, LinkTypeOK, OnlySent, WasSent, SentBy
<1>12. m = [kind |-> "audio", session |-> m.session, n |-> m.n]
  BY <1>2 DEF Audio
<1> HIDE DEF m
<1>6. OnPacket(m.n) /\ ring' = ring
  BY <1>4 DEF OnPacket, Accept, Resync, DropLate, Receive
<1>7. Inv'
  BY <1>3, <1>6, InvOnPacket DEF LinkInv
<1>8. taken \in [Session -> -1..MaxSent - 1] /\ dropped \in Audio \cup {NoMessage}
      /\ current \in 0..MaxSessions
  BY DEF LinkInv, LinkTypeOK
<1>9. CASE /\ Accept(m.n) \/ Resync(m.n)
           /\ taken' = [taken EXCEPT ![m.session] = m.n]
           /\ current' = m.session
           /\ dropped' = dropped
  <2>1. /\ have_seq' = TRUE /\ packet' = m.n
        /\ next_seq' \in 0..m.n /\ gap' = m.n - next_seq'
        /\ have_seq => next_seq <= m.n
        /\ ~have_seq => next_seq' = m.n
        /\ next_seq' = next_seq \/ gap' = 0
        /\ Position' = m.n + 1
    BY <1>1, <1>2, <1>9, Takes
  <2>2. /\ taken'[m.session] = m.n /\ taken' \in [Session -> -1..MaxSent - 1]
        /\ \A s \in Session : s # m.session => taken'[s] = taken[s]
    <3>1. m.n \in -1..MaxSent - 1
      BY <1>3, LinkConstants
    <3> QED
      BY <1>3, <1>8, <1>9, <3>1
  <2>3. LinkTypeOK'
    <3>1. current' \in 0..MaxSessions
      BY <1>3, <1>9, LinkConstants DEF Session
    <3>2. OnlySent'
      <4>1. \A s \in Session : taken'[s] = taken[s]
               \/ SentBy(session, sent, [kind |-> "audio", session |-> s, n |-> taken'[s]])
        BY <1>11, <1>12, <2>2
      <4> QED
        BY <1>1, <1>9, <4>1, OnlySentKept DEF LinkInv
    <3> QED
      BY <1>1, <1>2, <1>9, <2>2, <3>1, <3>2 DEF LinkInv, LinkTypeOK, Message
  <2>4. Placed'
    <3>1. \A s \in Session : taken'[s] < m.n + 1
      <4>1. ASSUME NEW s \in Session, s # m.session PROVE taken'[s] < m.n + 1
        <5>1. taken[s] \in -1..MaxSent - 1 /\ taken[s] < next_seq /\ taken'[s] = taken[s]
          BY <1>3, <1>8, <2>2, <4>1 DEF LinkInv, Placed
        <5>2. CASE have_seq
          <6>1. next_seq <= m.n /\ taken[s] \in Int /\ next_seq \in Int /\ m.n \in Int
            BY <1>0, <1>3, <2>1, <5>1, <5>2
          <6> QED
            BY <5>1, <6>1
        <5>3. CASE ~have_seq
          <6>1. taken[s] = -1
            BY <4>1, <5>3 DEF LinkInv, Placed, NoneTaken
          <6> QED
            BY <1>0, <1>3, <5>1, <6>1
        <5> QED
          BY <5>2, <5>3
      <4> QED
        BY <1>0, <1>3, <2>2, <4>1
    <3>2. dropped' # NoMessage => dropped'.n < m.n + 1
      <4> SUFFICES ASSUME dropped # NoMessage PROVE dropped.n < m.n + 1
        BY <1>9
      <4>1. have_seq /\ dropped.n < next_seq
        BY <1>3 DEF LinkInv, Placed
      <4>2. dropped.n \in Int
        BY <1>0, <1>8 DEF Audio
      <4>3. next_seq <= m.n /\ next_seq \in Int /\ m.n \in Int
        BY <1>0, <1>3, <2>1, <4>1
      <4> QED
        BY <4>1, <4>2, <4>3
    <3>3. /\ next_seq' \in 0..MaxSent /\ packet' < MaxSent
          /\ packet' = next_seq' + gap' /\ (m.n + 1) - 1 = m.n
      <4>1. m.n \in Int /\ m.n < MaxSent /\ (m.n + 1) - 1 = m.n
        BY <1>0, <1>3
      <4>2. next_seq' \in Int /\ 0 <= next_seq' /\ next_seq' <= m.n
        BY <2>1, <4>1
      <4>3. next_seq' + (m.n - next_seq') = m.n
        BY <4>1, <4>2
      <4> QED
        BY <1>0, <2>1, <4>1, <4>2, <4>3
    <3>4. initialized' /\ current' \in Session /\ taken'[current'] = (m.n + 1) - 1
      BY <1>2, <1>3, <1>9, <2>2, <3>3
    <3> QED
      BY <2>1, <3>1, <3>2, <3>3, <3>4 DEF Placed
  <2>6. Unbroken'
    <3>1. CASE transport = "tcp"
      <4>1. m = net[1]
        BY <1>1, <3>1 DEF m
      <4>2. m.session # 0
        BY <1>0, <1>3 DEF Session
      <4>3. LastTaken' = m.n
        BY <1>9, <2>2, <4>2 DEF LastTaken
      <4> QED
        BY <1>1, <1>2, <1>9, <3>1, <4>1, <4>2, <4>3, UnbrokenTaken
    <3>2. CASE transport # "tcp"
      BY <1>1, <3>2 DEF Unbroken
    <3> QED
      BY <3>1, <3>2
  <2>7. TcpHidesOnlyUnsent'
    <3> SUFFICES ASSUME transport = "tcp"
                 PROVE  Excused(m.session, next_seq', next_seq' + gap')
      BY <1>1, <1>6, <1>9 DEF LinkInv, TcpHidesOnlyUnsent, Excused
    <3>1. next_seq' + gap' = m.n
      BY <1>0, <1>3, <2>1
    <3>2. CASE gap' = 0
      <4>1. next_seq' + gap' - 1 < next_seq'
        BY <1>0, <1>3, <2>1, <3>2
      <4> QED
        BY <1>0, <1>3, <2>1, <3>1, <3>2, <4>1 DEF Excused
    <3>3. CASE gap' # 0
      <4>1. next_seq' = next_seq
        BY <2>1, <3>3
      <4>2. have_seq
        <5>1. SUFFICES ASSUME ~have_seq PROVE FALSE
          OBVIOUS
        <5> QED
          BY <1>0, <1>3, <2>1, <3>3, <5>1
      <4> QED
        BY <1>5, <3>1, <4>1, <4>2
    <3> QED
      BY <3>2, <3>3
  <2> QED
    BY <1>7, <2>3, <2>4, <2>6, <2>7 DEF LinkInv
<1>10. CASE /\ DropLate(m.n)
            /\ dropped' = m /\ taken' = taken /\ current' = current
  <2>1. /\ Ahead(m.n) < 0 /\ have_seq' = TRUE /\ next_seq' = next_seq
        /\ packet' = packet /\ gap' = gap
    BY <1>10 DEF DropLate, Receive
  <2>2. transport # "tcp"
    <3>1. Ahead(m.n) \in Int
      BY <1>0, <1>3
    <3> QED
      BY <1>5, <2>1, <3>1
  <2>5. have_seq /\ m.n < next_seq /\ m.n \in Int /\ next_seq \in Int
    <3>1. m.n \in Int /\ next_seq \in Int
      BY <1>0, <1>3
    <3> QED
      BY <1>3, <2>1, <3>1
  <2>3. LinkTypeOK'
    <3>1. OnlySent'
      BY <1>1, <1>10, <1>11, OnlySentKept DEF LinkInv
    <3> QED
      BY <1>1, <1>2, <1>8, <1>10, <3>1 DEF LinkInv, LinkTypeOK, Message
  <2>4. Placed'
    BY <1>1, <1>2, <1>3, <1>10, <2>1, <2>5 DEF LinkInv, Placed, Position
  <2> QED
    BY <1>1, <1>7, <2>2, <2>3, <2>4 DEF LinkInv, Unbroken, TcpHidesOnlyUnsent
<1> QED
  BY <1>4, <1>9, <1>10

----------------------------------------------------------------------------

\* The invariant holds after a step that leaves the network, the histories and
\* the taken packet's place alone.
LEMMA ProcessKept ==
    ASSUME LinkInv, UNCHANGED <<transport, net, phone, daemon, history, failures>>,
           Inv', have_seq' = have_seq,
           Position' = Position, next_seq' \in 0..MaxSent, packet' < MaxSent,
           packet' # NoPacket => packet' = next_seq' + gap', TcpHidesOnlyUnsent'
    PROVE  LinkInv'
<1>1. /\ transport' = transport /\ net' = net /\ session' = session /\ sent' = sent
      /\ connected' = connected /\ crashes' = crashes /\ initialized' = initialized
      /\ taken' = taken /\ current' = current /\ dropped' = dropped
      /\ unsent' = unsent /\ cut' = cut
  BY DEF phone, daemon, history, failures
<1>2. LinkTypeOK'
  BY <1>1 DEF LinkInv, LinkTypeOK, OnlySent, WasSent
<1>3. Placed'
  BY <1>1 DEF LinkInv, Placed
<1>4. Unbroken'
  <2>1. NextIn' = NextIn /\ Upcoming' = Upcoming /\ LastTaken' = LastTaken
    BY <1>1 DEF NextIn, Upcoming, LastTaken
  <2>2. Expected' = Expected
    BY <1>1, <2>1 DEF Expected
  <2> QED
    BY <1>1, <2>1, <2>2 DEF LinkInv, Unbroken
<1> QED
  BY <1>2, <1>3, <1>4 DEF LinkInv

\* Below the end of a stream the position is a plain number.
LEMMA Advances ==
    ASSUME NEW n \in 0..MaxSent - 1
    PROVE  After(n) = n + 1
<1>1. /\ n + 1 \in 0..SeqSize - 1 /\ SeqSize \in Nat \ {0}
  BY LinkConstants
<1> QED
  BY <1>1, ModSmall DEF After

\* The frames over TCP that stand for a packet received or for one not sent.
Genuine == {f \in Frame : f.made = "concealed" =>
                              cut # {} \/ \E m \in unsent : m.n % SeqSize = f.seq}

\* A frame pushed joins the others, which come from the ring.
LEMMA PushedGenuine ==
    ASSUME Inv, NEW seq \in Seq32, NEW made \in {"decoded", "concealed"},
           PushFrame(seq, made), \A i \in 1..Len(ring) : ring[i] \in Genuine,
           made = "concealed" => cut # {} \/ \E m \in unsent : m.n % SeqSize = seq
    PROVE  \A j \in 1..Len(ring') : ring'[j] \in Genuine
<1> DEFINE f == [seq |-> seq, made |-> made, follows |-> ~broken]
<1>1. ring \in Seq(Frame) /\ target_depth_frames \in 1..MaxDepth /\ (~broken) \in BOOLEAN
  BY DEF Inv, TypeOK
<1>2. f \in Frame /\ f.made = made /\ f.seq = seq
  BY <1>1 DEF Frame
<1>3. f \in Genuine
  BY <1>2 DEF Genuine
<1>4. ring' = Queue!Pushed(ring, <<f>>, target_depth_frames)
  BY DEF PushFrame, DepthPassed
<1> HIDE DEF f
<1>5. PICK k \in 1..target_depth_frames :
             /\ k <= Len(ring) + 1 /\ Len(ring') = k /\ ring'[k] = f
             /\ \A i \in 1..k - 1 : ring'[i] = ring[Len(ring) + 1 - k + i]
  BY <1>1, <1>2, <1>4, PushedFrame
<1> SUFFICES ASSUME NEW j \in 1..Len(ring') PROVE ring'[j] \in Genuine
  OBVIOUS
<1>6. CASE j = k
  BY <1>3, <1>5, <1>6
<1>7. CASE j # k
  <2>1. Len(ring) \in Nat /\ k \in Nat
    BY <1>1, LenProperties
  <2>2. j \in 1..k - 1 /\ Len(ring) + 1 - k + j \in 1..Len(ring)
    BY <1>5, <1>7, <2>1
  <2> QED
    BY <1>5, <2>2
<1> QED
  BY <1>6, <1>7

\* The third part of TcpHidesOnlyUnsent in these terms.
LEMMA RingGenuine ==
    ASSUME Inv
    PROVE  (\A i \in 1..Len(ring) : ring[i].made = "concealed" =>
                cut # {} \/ \E m \in unsent : m.n % SeqSize = ring[i].seq)
           <=> \A i \in 1..Len(ring) : ring[i] \in Genuine
<1>1. \A i \in 1..Len(ring) : ring[i] \in Frame
  BY ElementOfSeq DEF Inv, TypeOK
<1> QED
  BY <1>1 DEF Genuine

\* What a step of the buffer does to TcpHidesOnlyUnsent.
LEMMA StillHides ==
    ASSUME LinkInv, Inv', UNCHANGED <<transport, history, failures>>,
           transport = "tcp" =>
               /\ Excused(current, next_seq', next_seq' + gap')
               /\ (\A i \in 1..Len(ring) : ring[i] \in Genuine)
                      => \A i \in 1..Len(ring') : ring'[i] \in Genuine
    PROVE  TcpHidesOnlyUnsent'
<1>1. /\ current' = current /\ dropped' = dropped /\ transport' = transport
      /\ unsent' = unsent /\ cut' = cut
  BY DEF history, failures
<1> SUFFICES ASSUME transport = "tcp" PROVE TcpHidesOnlyUnsent'
  BY <1>1 DEF TcpHidesOnlyUnsent
<1>2. \A i \in 1..Len(ring) : ring[i] \in Genuine
  BY RingGenuine DEF LinkInv, TcpHidesOnlyUnsent
<1>3. \A i \in 1..Len(ring') : ring'[i] \in Genuine
  BY <1>2
<1>4. \A i \in 1..Len(ring') : ring'[i].made = "concealed" =>
          cut # {} \/ \E m \in unsent : m.n % SeqSize = ring'[i].seq
  BY <1>3 DEF Genuine
<1>5. dropped = NoMessage
  BY DEF LinkInv, TcpHidesOnlyUnsent
<1> QED
  BY <1>1, <1>4, <1>5 DEF TcpHidesOnlyUnsent, Excused

\* What is excused is so slot by slot.
LEMMA NothingMissing == ASSUME NEW s, NEW a \in Int PROVE Excused(s, a, a + 0)
BY DEF Excused

LEMMA FewerMissing ==
    ASSUME NEW s, NEW a \in Int, NEW b \in Int, Excused(s, a, b)
    PROVE  /\ \A k \in Int : a <= k => Excused(s, k, b)
           /\ a < b => s \in cut \/ [kind |-> "audio", session |-> s, n |-> a] \in unsent
BY DEF Excused

\* A concealed frame brings the buffer one closer to where it will be.
LEMMA LinkInvConceal ==
    ASSUME LinkInv, Conceal, UNCHANGED <<transport, net, phone, daemon, history, failures>>
    PROVE  LinkInv'
<1>0. MaxSent \in Nat
  BY LinkConstants
<1>1. /\ packet # NoPacket /\ gap > 0 /\ packet' = packet /\ have_seq' = have_seq
      /\ next_seq' = After(next_seq) /\ gap' = gap - 1
  BY DEF Conceal
<1>2. /\ next_seq \in 0..MaxSent /\ packet < MaxSent /\ packet = next_seq + gap
      /\ gap \in Nat /\ have_seq
  BY <1>1, LinkConstants DEF LinkInv, Placed, Inv, TypeOK, Sequenced
<1>3. next_seq \in 0..MaxSent - 1
  BY <1>0, <1>1, <1>2
<1>4. next_seq' = next_seq + 1
  BY <1>1, <1>3, Advances
<1>5. next_seq' \in 0..MaxSent /\ packet' = next_seq' + gap'
  BY <1>0, <1>1, <1>2, <1>3, <1>4
<1>6. Inv'
  BY InvConceal DEF LinkInv
<1>7. TcpHidesOnlyUnsent'
  <2> SUFFICES ASSUME transport = "tcp"
               PROVE  /\ Excused(current, next_seq', next_seq' + gap')
                      /\ (\A i \in 1..Len(ring) : ring[i] \in Genuine)
                             => \A i \in 1..Len(ring') : ring'[i] \in Genuine
    BY <1>6, StillHides
  <2>1. Excused(current, next_seq, next_seq + gap)
    BY DEF LinkInv, TcpHidesOnlyUnsent
  <2>2. /\ next_seq \in Int /\ next_seq + gap \in Int /\ next_seq < next_seq + gap
        /\ next_seq' \in Int /\ next_seq' + gap' = next_seq + gap /\ next_seq <= next_seq'
    BY <1>0, <1>1, <1>2, <1>3, <1>4
  <2>3. Excused(current, next_seq', next_seq' + gap')
    BY <1>0, <2>1, <2>2, FewerMissing
  <2>4. cut # {} \/ \E m \in unsent : m.n % SeqSize = next_seq
    <3>1. CASE current \in cut
      BY <3>1
    <3>2. CASE current \notin cut
      <4>1. [kind |-> "audio", session |-> current, n |-> next_seq] \in unsent
        BY <2>1, <2>2, <3>2, FewerMissing
      <4>2. next_seq % SeqSize = next_seq
        BY <1>3, WireNumber
      <4> QED
        BY <4>1, <4>2
    <3> QED
      BY <3>1, <3>2
  <2>5. CASE UNCHANGED ring
    BY <2>3, <2>5
  <2>6. CASE PushFrame(next_seq, "concealed")
    <3>1. next_seq \in Seq32
      BY DEF LinkInv, Inv, TypeOK
    <3> QED
      BY <2>3, <2>4, <2>6, <3>1, PushedGenuine DEF LinkInv
  <2> QED
    BY <2>5, <2>6 DEF Conceal
<1>8. Position' = Position /\ packet' < MaxSent
  BY <1>1, <1>2 DEF Position
<1> QED
  BY <1>1, <1>5, <1>6, <1>7, <1>8, ProcessKept

\* The packet itself moves the buffer to where it was said to be.
LEMMA LinkInvDecode ==
    ASSUME LinkInv, Decode, UNCHANGED <<transport, net, phone, daemon, history, failures>>
    PROVE  LinkInv'
<1>0. MaxSent \in Nat
  BY LinkConstants
<1>1. /\ packet # NoPacket /\ gap = 0 /\ packet' = NoPacket /\ have_seq' = have_seq
      /\ next_seq' = After(packet) /\ gap' = gap
  BY DEF Decode
<1>2. packet = next_seq /\ packet \in 0..MaxSent - 1
  BY <1>0, <1>1, Level DEF LinkInv, Placed
<1>3. next_seq' = packet + 1 /\ next_seq' \in 0..MaxSent /\ packet' < MaxSent
  BY <1>0, <1>1, <1>2, Advances DEF NoPacket
<1>4. Inv'
  BY InvDecode DEF LinkInv
<1>5. TcpHidesOnlyUnsent'
  <2>1. Excused(current, next_seq', next_seq' + gap')
    BY <1>0, <1>1, <1>2, <1>3, NothingMissing
  <2>2. ASSUME \A i \in 1..Len(ring) : ring[i] \in Genuine
        PROVE  \A i \in 1..Len(ring') : ring'[i] \in Genuine
    <3>1. CASE UNCHANGED ring
      BY <2>2, <3>1
    <3>2. CASE PushFrame(packet, "decoded")
      <4>1. packet \in Seq32
        BY <1>1 DEF LinkInv, Inv, TypeOK
      <4> QED
        BY <2>2, <3>2, <4>1, PushedGenuine DEF LinkInv
    <3> QED
      BY <3>1, <3>2 DEF Decode
  <2> QED
    BY <1>4, <2>1, <2>2, StillHides
<1>6. Position' = Position
  BY <1>1, <1>3 DEF Position
<1> QED
  BY <1>1, <1>3, <1>4, <1>5, <1>6, ProcessKept

\* The realtime callback only takes frames out of the ring.
LEMMA LinkInvPlay ==
    ASSUME LinkInv, NEW n \in 1..MaxRead, Play(n),
           UNCHANGED <<transport, net, phone, daemon, history, failures>>
    PROVE  LinkInv'
<1>1. /\ have_seq' = have_seq /\ next_seq' = next_seq /\ packet' = packet /\ gap' = gap
  BY DEF Play, sequencing
<1>2. Inv'
  BY InvPlay DEF LinkInv
<1>3. TcpHidesOnlyUnsent'
  <2>1. transport = "tcp" => Excused(current, next_seq', next_seq' + gap')
    BY <1>1 DEF LinkInv, TcpHidesOnlyUnsent
  <2>2. ASSUME \A i \in 1..Len(ring) : ring[i] \in Genuine, NEW j \in 1..Len(ring')
        PROVE  ring'[j] \in Genuine
    <3>1. ring \in Seq(Frame) /\ ring' = Queue!Popped(ring, n)
      BY DEF Play, LinkInv, Inv, TypeOK
    <3>2. PICK k \in 0..Len(ring) : /\ Len(ring') = Len(ring) - k
                                    /\ \A i \in 1..Len(ring) - k : ring'[i] = ring[k + i]
      BY <3>1, PoppedFrames
    <3>3. Len(ring) \in Nat
      BY <3>1, LenProperties
    <3>4. j \in 1..Len(ring) - k /\ k + j \in 1..Len(ring)
      BY <3>2, <3>3
    <3> QED
      BY <2>2, <3>2, <3>4
  <2> QED
    BY <1>2, <2>1, <2>2, StillHides
<1>4. /\ next_seq' \in 0..MaxSent /\ packet' < MaxSent
      /\ packet' # NoPacket => packet' = next_seq' + gap'
  BY <1>1 DEF LinkInv, Placed
<1>5. Position' = Position
  BY <1>1 DEF Position
<1> QED
  BY <1>1, <1>2, <1>3, <1>4, <1>5, ProcessKept

\* A restart of the daemon: it knows nothing, and TCP carries nothing to it.
LEMMA InvCrash == ASSUME LinkInv, Crash PROVE LinkInv'
<1>1. /\ initialized' = FALSE /\ have_seq' = FALSE /\ next_seq' = 0 /\ packet' = NoPacket
      /\ gap' = 0 /\ broken' = TRUE /\ have_arrival' = FALSE
      /\ target_depth_frames' = FirstDepth /\ packets_since_recalc' = 0 /\ ring' = <<>>
      /\ taken' = NoneTaken /\ current' = 0 /\ dropped' = NoMessage
      /\ transport' = transport /\ session' = session /\ sent' = sent
      /\ unsent' = unsent /\ cut' = cut
  BY DEF Crash, Forget, failures
<1>2. Inv'
  <2>1. Len(ring') = 0
    BY <1>1, Fresh
  <2>2. TypeOK'
    BY <1>1, <2>1, Fresh DEF TypeOK
  <2>3. RingGapless' /\ LatencyBounded' /\ Sequenced'
    BY <1>1, <2>1, Fresh DEF RingGapless, LatencyBounded, Sequenced
  <2> QED
    BY <2>2, <2>3 DEF Inv
<1>3. LinkTypeOK'
  <2>1. NoneTaken \in [Session -> -1..MaxSent - 1] /\ 0 \in 0..MaxSessions
    BY LinkConstants DEF NoneTaken
  <2>2. crashes' \in 0..MaxCrashes
    BY LinkConstants DEF LinkInv, LinkTypeOK, Crash
  <2>3. net' \in Seq(Audio \cup Format) /\ Len(net') <= NetSize
    <3>1. <<>> \in Seq(Audio \cup Format) /\ Len(<<>>) = 0 /\ 0 <= NetSize
      BY LinkConstants, EmptySeq
    <3>2. net' = net \/ net' = <<>>
      BY DEF Crash
    <3> QED
      BY <3>1, <3>2 DEF LinkInv, LinkTypeOK
  <2>4. connected' \in BOOLEAN
    BY Zenon DEF LinkInv, LinkTypeOK, Crash
  <2>5. OnlySent'
    <3>1. \A j \in 1..Len(net') : \E k \in 1..Len(net) : net'[j] = net[k]
      <4>1. CASE net' = <<>>
        BY <4>1, EmptySeq
      <4>2. CASE net' = net
        BY <4>2
      <4> QED
        BY <4>1, <4>2 DEF Crash
    <3>2. \A s \in Session : taken'[s] = -1
      BY <1>1 DEF NoneTaken
    <3> QED
      BY <1>1, <3>1, <3>2, OnlySentKept DEF LinkInv
  <2> QED
    BY <1>1, <2>1, <2>2, <2>3, <2>4, <2>5 DEF LinkInv, LinkTypeOK
<1>4. Placed'
  BY <1>1, LinkConstants DEF Placed, Position, NoneTaken, NoPacket
<1>5. Unbroken' /\ TcpHidesOnlyUnsent'
  <2>1. Len(ring') = 0
    BY <1>1, Fresh
  <2>2. transport = "tcp" => net' = <<>> /\ connected' = FALSE
    BY DEF Crash
  <2>3. Excused(current, next_seq, next_seq + gap)'
    BY <1>1 DEF Excused
  <2>4. Len(<<>>) = 0
    BY EmptySeq
  <2> QED
    BY <1>1, <2>1, <2>2, <2>3, <2>4 DEF Unbroken, TcpHidesOnlyUnsent
<1> QED
  BY <1>2, <1>3, <1>4, <1>5 DEF LinkInv

\* A step of anything else changes nothing.
LEMMA LinkInvStutter == ASSUME LinkInv, UNCHANGED linkVars PROVE LinkInv'
<1>1. /\ transport' = transport /\ net' = net /\ session' = session /\ sent' = sent
      /\ connected' = connected /\ crashes' = crashes /\ initialized' = initialized
      /\ taken' = taken /\ current' = current /\ dropped' = dropped
      /\ unsent' = unsent /\ cut' = cut
  BY DEF linkVars, phone, daemon, history, failures
<1>2. /\ Inv' /\ Placed' /\ TcpHidesOnlyUnsent'
  BY <1>1, DaemonKept DEF LinkInv, linkVars
<1>3. LinkTypeOK'
  BY <1>1 DEF LinkInv, LinkTypeOK, OnlySent, WasSent
<1>4. Unbroken'
  BY <1>1 DEF LinkInv, Unbroken, Expected, NextIn, Upcoming, LastTaken
<1> QED
  BY <1>2, <1>3, <1>4 DEF LinkInv

----------------------------------------------------------------------------

\* The invariant holds in every reachable state.
THEOREM LinkInvariance == LinkSpec => []LinkInv
<1>1. ASSUME LinkInv, [LinkNext]_linkVars PROVE LinkInv'
  <2>1. CASE Process
    BY <1>1, <2>1, LinkInvConceal, LinkInvDecode, LinkInvPlay DEF Process
  <2> QED
    BY <1>1, <2>1, InvStart, InvSend, InvLose, InvOnFormat, InvIgnore, InvOnAudio,
       InvSwallow, InvBreak, InvCrash, LinkInvStutter DEF LinkNext
<1> QED
  BY LinkInvInit, <1>1, PTL DEF LinkSpec

\* Every variable keeps its type, and whatever is under way, taken, dropped or
\* given up is a packet the phone sent, under the number it sent it with.
THEOREM LinkTypeCorrect == LinkSpec => []LinkTypeOK
<1>1. LinkInv => LinkTypeOK
  BY DEF LinkInv
<1> QED
  BY <1>1, LinkInvariance, PTL

\* Over TCP nothing is dropped as late, and only what the phone failed to send,
\* or cut, is ever concealed, whatever breaks or restarts.
THEOREM TcpAlwaysHidesOnlyUnsent == LinkSpec => []TcpHidesOnlyUnsent
<1>1. LinkInv => TcpHidesOnlyUnsent
  BY DEF LinkInv
<1> QED
  BY <1>1, LinkInvariance, PTL

\* A packet of the stream being heard is dropped as late only behind a newer
\* packet of that stream.
THEOREM AlwaysLateWithinStream == LinkSpec => []LateWithinStream
<1>1. ASSUME LinkInv PROVE LateWithinStream
  <2> SUFFICES ASSUME dropped # NoMessage
               PROVE  dropped.n <= taken[current]
    BY DEF LateWithinStream
  <2>1. have_seq /\ taken[current] = Position - 1 /\ dropped.n < Position
    BY <1>1 DEF LinkInv, Placed
  <2>2. dropped.n \in Int
    BY <1>1, LinkConstants DEF LinkInv, LinkTypeOK, Audio
  <2>3. Position \in Int
    BY <1>1, LinkConstants DEF LinkInv, Placed, Position, Inv, TypeOK, Seq32, NoPacket
  <2> QED
    BY <2>1, <2>2, <2>3
<1> QED
  BY <1>1, LinkInvariance, PTL

\* What a packet taken does to the histories.
LEMMA InOrder ==
    ASSUME LinkInv, NEW i \in 1..Len(net), OnAudio(i), NEW s \in Session, taken'[s] # taken[s]
    PROVE  /\ taken'[s] > taken[s]
           /\ transport = "tcp" => Excused(s, taken[s] + 1, taken'[s])
<1> DEFINE m == net[i]
<1>0. MaxSent \in Nat
  BY LinkConstants
<1>1. packet = NoPacket /\ m \in Message
  BY ReceivedKept DEF OnAudio
<1>2. m.kind = "audio" /\ m \in Audio
  BY <1>1, Kinds DEF OnAudio
<1>3. m.n \in 0..MaxSent - 1 /\ m.n % SeqSize = m.n /\ m.session \in Session
      /\ Position = next_seq
  BY <1>1, <1>2, Comes
<1>4. transport = "tcp" => Excused(m.session, taken[m.session] + 1, m.n)
  BY OnTime
<1>5. /\ Accept(m.n) \/ Resync(m.n)
      /\ taken' = [taken EXCEPT ![m.session] = m.n]
  BY <1>3 DEF OnAudio
<1> HIDE DEF m
<1>6. taken \in [Session -> -1..MaxSent - 1]
  BY DEF LinkInv, LinkTypeOK
<1>7. s = m.session /\ taken'[s] = m.n
  BY <1>3, <1>5, <1>6
<1>8. taken[s] < m.n
  <2>1. next_seq \in 0..MaxSent /\ (have_seq => next_seq <= m.n)
    BY <1>1, <1>2, <1>5, Takes
  <2>2. taken[s] \in Int /\ taken[s] < next_seq /\ (~have_seq => taken[s] = -1)
    BY <1>0, <1>3, <1>6 DEF LinkInv, Placed, NoneTaken
  <2> QED
    BY <1>0, <1>3, <2>1, <2>2
<1>9. taken[s] \in Int /\ m.n \in Int
  BY <1>0, <1>3, <1>6
<1> QED
  BY <1>4, <1>7, <1>8, <1>9

\* Every other step leaves the histories alone or forgets them.
LEMMA OthersKeep ==
    ASSUME [LinkNext]_linkVars, \A i \in 1..Len(net) : ~OnAudio(i)
    PROVE  taken' = taken \/ taken' = NoneTaken
BY DEF LinkNext, linkVars, history, Start, Send, Lose, Swallow, Break, OnFormat, Ignore,
       Process, Crash, Forget

\* The decoder is given the packets of a stream in the order they were captured
\* and none twice, and over TCP every one that was sent, up to a cut.
THEOREM AlwaysDecodedInOrder == LinkSpec => DecodedInOrder
<1>1. LinkInv /\ [LinkNext]_linkVars =>
        [taken' # NoneTaken =>
           \A s \in Session : taken'[s] # taken[s] =>
               /\ taken'[s] > taken[s]
               /\ transport = "tcp" => Excused(s, taken[s] + 1, taken'[s])]_linkVars
  BY InOrder, OthersKeep
<1> QED
  BY <1>1, LinkInvariance, PTL DEF LinkSpec, DecodedInOrder
=============================================================================
