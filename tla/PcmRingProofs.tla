--------------------------- MODULE PcmRingProofs ---------------------------
(***************************************************************************)
(* Theorems about the PCM ring, for every capacity, word size, block size, *)
(* depth and sample set that RingAssumption allows.                        *)
(***************************************************************************)
EXTENDS PcmRing, SequenceTheorems, TLAPS

\* Euclidean division, for the quotient and remainder of any integer.
LEMMA DivMod ==
    ASSUME NEW m \in Nat \ {0}, NEW a \in Int
    PROVE  /\ a \div m \in Int
           /\ a % m \in 0..m - 1
           /\ a = m * (a \div m) + (a % m)
OBVIOUS

\* A remainder in range is the remainder.
LEMMA ModUnique ==
    ASSUME NEW m \in Nat \ {0}, NEW q \in Int, NEW r \in 0..m - 1
    PROVE  (m * q + r) % m = r
<1> DEFINE a == m * q + r
           p == a \div m
           s == a % m
<1>1. a \in Int
  OBVIOUS
<1>2. p \in Int /\ s \in 0..m - 1 /\ a = m * p + s
  BY <1>1, DivMod
<1>3. m * (q - p) = s - r
  BY <1>2
<1>4. q - p >= 1 => m * (q - p) >= m
  BY <1>2
<1>5. q - p <= -1 => m * (q - p) <= -m
  BY <1>2
<1>6. q - p = 0
  BY <1>2, <1>3, <1>4, <1>5
<1> QED
  BY <1>2, <1>3, <1>6

\* Numbers already in range are their own remainder.
LEMMA ModSmall ==
    ASSUME NEW m \in Nat \ {0}, NEW r \in 0..m - 1
    PROVE  r % m = r
OBVIOUS

\* Adding a multiple of the modulus changes nothing.
LEMMA ModAddMul ==
    ASSUME NEW m \in Nat \ {0}, NEW a \in Int, NEW k \in Int
    PROVE  (a + m * k) % m = a % m
<1> PICK q \in Int, r \in 0..m - 1 : a = m * q + r
  BY DivMod
<1>1. a % m = r
  BY ModUnique
<1>2. q + k \in Int
  OBVIOUS
<1>3. (m * (q + k) + r) % m = r
  BY <1>2, ModUnique
<1>4. m * (q + k) + r = a + m * k
  OBVIOUS
<1> QED
  BY <1>1, <1>3, <1>4

\* Reducing a summand first makes no difference.
LEMMA ModPlus ==
    ASSUME NEW m \in Nat \ {0}, NEW a \in Int, NEW b \in Int
    PROVE  ((a % m) + b) % m = (a + b) % m
<1> PICK q \in Int, r \in 0..m - 1 : a = m * q + r
  BY DivMod
<1>1. a % m = r
  BY ModUnique
<1> DEFINE t == r + b
<1> t \in Int
  OBVIOUS
<1>2. (t + m * q) % m = t % m
  <2> HIDE DEF t
  <2> QED BY ModAddMul
<1>3. t + m * q = a + b
  OBVIOUS
<1> QED
  BY <1>1, <1>2, <1>3

\* Reducing the subtrahend first makes no difference.
LEMMA ModMinus ==
    ASSUME NEW m \in Nat \ {0}, NEW a \in Int, NEW b \in Int
    PROVE  (a - (b % m)) % m = (a - b) % m
<1> PICK q \in Int, r \in 0..m - 1 : b = m * q + r
  BY DivMod
<1>1. b % m = r
  BY ModUnique
<1> DEFINE t == a - b
<1> t \in Int
  OBVIOUS
<1>2. (t + m * q) % m = t % m
  <2> HIDE DEF t
  <2> QED BY ModAddMul
<1>3. t + m * q = a - r
  OBVIOUS
<1> QED
  BY <1>1, <1>2, <1>3

\* The distance of two wrapped counters is the distance of the counters.
LEMMA ModDistance ==
    ASSUME NEW m \in Nat \ {0}, NEW a \in Int, NEW b \in Int, a - b \in 0..m - 1
    PROVE  ((a % m) - (b % m)) % m = a - b
<1> DEFINE am == a % m
<1>1. am \in Int
  BY DivMod
<1>2. (am - (b % m)) % m = (am - b) % m
  BY <1>1, ModMinus
<1>3. ((a % m) + (-b)) % m = (a + (-b)) % m
  BY ModPlus, -b \in Int
<1>4. (a - b) % m = a - b
  BY ModSmall
<1>5. (a % m) + (-b) = am - b /\ a + (-b) = a - b
  BY <1>1
<1> QED
  BY <1>2, <1>3, <1>4, <1>5

\* A counter that wraps at a multiple of c keeps its remainder by c.
LEMMA ModMod ==
    ASSUME NEW c \in Nat \ {0}, NEW w \in Nat \ {0}, w % c = 0, NEW a \in Int
    PROVE  (a % w) % c = a % c
<1> PICK k \in Int : w = c * k
  <2>1. w = c * (w \div c) + (w % c) /\ w \div c \in Int
    BY DivMod
  <2> QED BY <2>1
<1> PICK q \in Int, r \in 0..w - 1 : a = w * q + r
  <2>1. a = w * (a \div w) + (a % w) /\ a \div w \in Int /\ a % w \in 0..w - 1
    BY DivMod
  <2> QED BY <2>1
<1>1. a % w = r
  BY ModUnique
<1> DEFINE j == k * q
<1>2. j \in Int /\ r \in Int
  OBVIOUS
<1>3. (r + c * j) % c = r % c
  <2> HIDE DEF j
  <2> QED BY <1>2, ModAddMul
<1>4. r + c * j = a
  OBVIOUS
<1> QED
  BY <1>1, <1>3, <1>4

----------------------------------------------------------------------------

\* The constants in the form the arithmetic lemmas need.
LEMMA Constants ==
    /\ Capacity \in Nat \ {0}
    /\ WordSize \in Nat \ {0}
    /\ WordSize % Capacity = 0
    /\ MaxBlock \in 0..Capacity
    /\ Capacity + MaxBlock < WordSize
BY RingAssumption

\* The distance of two wrapped counters is the distance of the counters.
LEMMA Distance ==
    ASSUME NEW a \in Int, NEW b \in Int, a - b \in 0..WordSize - 1
    PROVE  ((a % WordSize) - (b % WordSize)) % WordSize = a - b
BY Constants, ModDistance

\* Masking a wrapped counter gives the slot of the counter.
LEMMA SlotOf ==
    ASSUME NEW a \in Int, NEW j \in Int
    PROVE  ((a % WordSize) + j) % Capacity = (a + j) % Capacity
<1>1. a % WordSize \in Int
  BY Constants, DivMod
<1>2. (((a % WordSize) % Capacity) + j) % Capacity = ((a % WordSize) + j) % Capacity
  BY <1>1, Constants, ModPlus
<1>3. (a % WordSize) % Capacity = a % Capacity
  BY Constants, ModMod
<1>4. ((a % Capacity) + j) % Capacity = (a + j) % Capacity
  BY Constants, ModPlus
<1> QED
  BY <1>2, <1>3, <1>4

\* read_pos trails write_pos by the number of samples in use.
LEMMA ReadPosition ==
    ASSUME TypeOK
    PROVE  /\ used \in Nat
           /\ read_pos = (write_pos - used) % WordSize
<1>1. write_pos \in 0..WordSize - 1 /\ read_pos \in 0..WordSize - 1
  BY DEF TypeOK, Word
<1>2. used \in Nat
  BY <1>1, Constants, DivMod DEF used
<1>3. (write_pos - ((write_pos - read_pos) % WordSize)) % WordSize
        = (write_pos - (write_pos - read_pos)) % WordSize
  BY <1>1, Constants, ModMinus, write_pos - read_pos \in Int
<1>4. write_pos - (write_pos - read_pos) = read_pos
  BY <1>1
<1>5. read_pos % WordSize = read_pos
  BY <1>1, Constants, ModSmall
<1> QED
  BY <1>2, <1>3, <1>4, <1>5 DEF used

\* Where a write leaves the two positions: the window is the shorter of the
\* adaptive depth and everything written, and it ends at the new write_pos.
LEMMA WriteWindow ==
    ASSUME TypeOK, WindowBounded, NEW s \in Block, NEW depth \in Depth, Write(s, depth)
    PROVE  LET keep == Lesser(used + Len(s), Lesser(depth, Capacity))
           IN  /\ Len(s) \in 0..MaxBlock
               /\ keep \in 0..Capacity
               /\ keep <= used + Len(s)
               /\ write_pos' = (write_pos + Len(s)) % WordSize
               /\ read_pos' = (write_pos + Len(s) - keep) % WordSize
               /\ used' = keep
<1> DEFINE n == Len(s)
           max == Lesser(depth, Capacity)
           keep == Lesser(used + n, max)
<1>1. n \in 0..MaxBlock
  BY Constants DEF Block
<1>2. max \in 0..Capacity
  BY Constants, RingAssumption DEF Lesser
<1>3. used \in Nat /\ read_pos = (write_pos - used) % WordSize
  BY ReadPosition
<1>4. write_pos \in 0..WordSize - 1
  BY DEF TypeOK, Word
<1>5. keep \in 0..Capacity /\ keep <= used + n /\ n + Capacity < WordSize
  BY <1>1, <1>2, <1>3, Constants DEF Lesser
<1>6. read_pos' = (write_pos + n - keep) % WordSize
  <2>1. CASE used + n > max
    BY <2>1, <1>1, <1>2, <1>3 DEF Write, OldestKept, Lesser
  <2>2. CASE ~(used + n > max)
    <3>1. write_pos + n - keep = write_pos - used
      BY <2>2, <1>1, <1>2, <1>3, <1>4 DEF Lesser
    <3> QED
      BY <3>1, <2>2, <1>3 DEF Write, OldestKept
  <2> QED
    BY <2>1, <2>2
<1>7. write_pos' = (write_pos + n) % WordSize
  BY DEF Write
<1>8. used' = keep
  <2> DEFINE a == write_pos + n
             b == write_pos + n - keep
  <2>1. a \in Int /\ b \in Int /\ a - b = keep /\ keep \in 0..WordSize - 1
    BY <1>1, <1>4, <1>5, Constants
  <2>2. ((a % WordSize) - (b % WordSize)) % WordSize = a - b
    <3> HIDE DEF a, b, keep
    <3> QED
      BY <2>1, Distance
  <2> QED
    BY <1>6, <1>7, <2>1, <2>2 DEF used
<1> QED
  BY <1>1, <1>5, <1>6, <1>7, <1>8

\* A block of a read is filled to its end and no further.
LEMMA Filling ==
    ASSUME NEW size \in Nat, NEW n \in Nat
    PROVE  Lesser(size, n) + Padding(n, Lesser(size, n)) = n
BY DEF Lesser, Padding

\* Where a read leaves them: it consumes what it copied and nothing else.
LEMMA ReadWindow ==
    ASSUME TypeOK, WindowBounded, NEW n \in 0..MaxBlock, Read(n)
    PROVE  LET copied == Lesser(used, n)
           IN  /\ copied \in 0..MaxBlock
               /\ copied <= used
               /\ read_pos' = (write_pos - used + copied) % WordSize
               /\ used' = used - copied
<1> DEFINE copied == Lesser(used, n)
<1>1. used \in Nat /\ read_pos = (write_pos - used) % WordSize
  BY ReadPosition
<1>2. write_pos \in 0..WordSize - 1
  BY DEF TypeOK, Word
<1>3. copied \in 0..MaxBlock /\ copied <= used
  BY <1>1, Constants DEF Lesser
<1>4. read_pos' = (write_pos - used + copied) % WordSize
  <2> DEFINE a == write_pos - used
  <2>1. a \in Int /\ copied \in Int
    BY <1>1, <1>2, <1>3
  <2>2. ((a % WordSize) + copied) % WordSize = (a + copied) % WordSize
    <3> HIDE DEF a, copied
    <3> QED
      BY <2>1, Constants, ModPlus
  <2> QED
    BY <2>2, <1>1 DEF Read
<1>5. used' = used - copied
  <2> DEFINE b == write_pos - used + copied
  <2>1. b \in Int /\ write_pos - b = used - copied /\ write_pos - b \in 0..WordSize - 1
    BY <1>1, <1>2, <1>3, Constants DEF WindowBounded
  <2>2. ((write_pos % WordSize) - (b % WordSize)) % WordSize = write_pos - b
    <3> HIDE DEF b
    <3> QED
      BY <2>1, <1>2, Distance
  <2>3. write_pos % WordSize = write_pos
    BY <1>2, Constants, ModSmall
  <2>4. write_pos' = write_pos
    BY DEF Read
  <2> QED
    BY <1>4, <2>1, <2>2, <2>3, <2>4 DEF used
<1> QED
  BY <1>3, <1>4, <1>5
----------------------------------------------------------------------------

\* The slot a position masks to, and the position a sum wraps to, exist.
LEMMA InRange ==
    /\ \A a \in Int : a % WordSize \in Word
    /\ \A a \in Int : a % Capacity \in Slot
BY Constants, DivMod DEF Word, Slot

LEMMA InitType ==
    ASSUME Init
    PROVE  TypeOK /\ WindowBounded
<1>1. TypeOK
  BY Constants, RingAssumption DEF Init, TypeOK, Slot, Word, Holder, Block
<1>2. used = 0
  BY Constants, ModSmall DEF Init, used
<1> QED
  BY <1>1, <1>2, Constants DEF WindowBounded

LEMMA StepType ==
    ASSUME TypeOK, WindowBounded, [Next]_vars
    PROVE  (TypeOK /\ WindowBounded)'
<1> USE DEF Holder
<1>1. CASE WriteLock \/ ReadLock
  BY <1>1 DEF WriteLock, ReadLock, TypeOK, WindowBounded, used
<1>2. ASSUME NEW s \in Block, NEW depth \in Depth, Write(s, depth)
      PROVE  (TypeOK /\ WindowBounded)'
  <2>1. Len(s) \in 0..MaxBlock /\ used' \in 0..Capacity
    BY <1>2, WriteWindow
  <2>2. write_pos' \in Word /\ read_pos' \in Word
    <3>1. write_pos \in Int /\ used \in Int
      BY ReadPosition DEF TypeOK, Word
    <3>2. Lesser(used + Len(s), Lesser(depth, Capacity)) \in Int
      BY <1>2, WriteWindow
    <3> QED
      BY <1>2, <2>1, <3>1, <3>2, WriteWindow, InRange
  <2>3. samples' \in [Slot -> Sample]
    <3>1. \A k \in Slot : (k - write_pos) % Capacity \in Nat
      <4> TAKE k \in Slot
      <4>1. k - write_pos \in Int
        BY DEF Slot, TypeOK, Word
      <4> QED
        BY <4>1, Constants, DivMod
    <3>2. \A i \in Nat : i < Len(s) => s[i + 1] \in Sample
      BY <2>1 DEF Block
    <3> QED
      BY <1>2, <3>1, <3>2 DEF Write, Stored, TypeOK
  <2> QED
    BY <1>2, <2>1, <2>2, <2>3 DEF TypeOK, Write, WindowBounded
<1>3. ASSUME NEW n \in 0..MaxBlock, ReadContended(n)
      PROVE  (TypeOK /\ WindowBounded)'
  <2>1. out' \in Block
    BY <1>3, RingAssumption DEF ReadContended, Block
  <2> QED
    BY <1>3, <2>1 DEF ReadContended, TypeOK, WindowBounded, used
<1>4. ASSUME NEW n \in 0..MaxBlock, Read(n)
      PROVE  (TypeOK /\ WindowBounded)'
  <2>1. used \in Nat /\ write_pos \in Int /\ read_pos \in Int
    BY ReadPosition DEF TypeOK, Word
  <2>2. \A i \in 1..n : samples[(read_pos + i - 1) % Capacity] \in Sample
    BY <2>1, InRange DEF TypeOK
  <2>3. out' \in [1..n -> Sample]
    <3>1. n \in Nat /\ Lesser(used, n) + Padding(n, Lesser(used, n)) = n
      BY <2>1, Filling
    <3> QED
      BY <1>4, <2>2, <3>1, RingAssumption DEF Read
  <2>4. read_pos' \in Word
    BY <1>4, <2>1, InRange, Lesser(used, n) \in Int DEF Read, Lesser
  <2>5. used' \in Nat /\ used' <= used
    BY <1>4, <2>1, ReadWindow
  <2>6. TypeOK'
    BY <1>4, <2>3, <2>4 DEF TypeOK, Read, Block
  <2>7. WindowBounded'
    BY <2>1, <2>5, Constants DEF WindowBounded
  <2> QED
    BY <2>6, <2>7
<1>5. CASE UNCHANGED vars
  BY <1>5 DEF vars, TypeOK, WindowBounded, used
<1> QED
  BY <1>1, <1>2, <1>3, <1>4, <1>5 DEF Next, Producer, Consumer

\* Type correctness of the ring, for pcm_ring_write and
\* pcm_ring_read_nonblock in any interleaving: whatever is available, the
\* copied samples and the padding never exceed the callback's block.
THEOREM TypeCorrect == Spec => []TypeOK
<1>1. Init => TypeOK /\ WindowBounded
  BY InitType
<1>2. TypeOK /\ WindowBounded /\ [Next]_vars => (TypeOK /\ WindowBounded)'
  BY StepType
<1> QED
  BY <1>1, <1>2, PTL DEF Spec

\* The window of unread samples fits in the array, for every capacity, word
\* size and depth: the wrapping subtraction of pcm_ring.c never goes astray.
THEOREM WindowAlwaysBounded == Spec => []WindowBounded
<1>1. Init => TypeOK /\ WindowBounded
  BY InitType
<1>2. TypeOK /\ WindowBounded /\ [Next]_vars => (TypeOK /\ WindowBounded)'
  BY StepType
<1> QED
  BY <1>1, <1>2, PTL DEF Spec
----------------------------------------------------------------------------

\* How far each end of the window moves in a write and in a read, measured
\* from the old read_pos.
LEMMA StepForward ==
    ASSUME TypeOK, WindowBounded, [Next]_vars
    PROVE  (read_pos' - read_pos) % WordSize <= (write_pos' - read_pos) % WordSize
<1> DEFINE r == write_pos - used
<1>1. used \in 0..Capacity /\ write_pos \in Int /\ r \in Int /\ read_pos = r % WordSize
  BY ReadPosition, Constants DEF WindowBounded, TypeOK, Word
<1>2. CASE write_pos' = write_pos /\ read_pos' = read_pos
  <2>1. read_pos \in Int /\ read_pos' - read_pos = 0 /\ 0 % WordSize = 0
    BY <1>2, Constants, ModSmall DEF TypeOK, Word
  <2> QED
    BY <1>1, <1>2, <2>1 DEF used
<1>3. ASSUME NEW s \in Block, NEW depth \in Depth, Write(s, depth)
      PROVE  (read_pos' - read_pos) % WordSize <= (write_pos' - read_pos) % WordSize
  <2> DEFINE n == Len(s)
             keep == Lesser(used + n, Lesser(depth, Capacity))
             a == write_pos + n
             b == write_pos + n - keep
  <2>1. /\ n \in 0..MaxBlock
        /\ keep \in 0..Capacity
        /\ keep <= used + n
        /\ write_pos' = a % WordSize
        /\ read_pos' = b % WordSize
    BY <1>3, WriteWindow
  <2>2. /\ a \in Int
        /\ b \in Int
        /\ a - r \in 0..WordSize - 1
        /\ b - r \in 0..WordSize - 1
        /\ b - r <= a - r
    <3> HIDE DEF n, keep
    <3>1. a - r = used + n /\ b - r = used + n - keep
      BY <1>1, <2>1
    <3> QED
      BY <1>1, <2>1, <3>1, Constants
  <2> HIDE DEF a, b, r
  <2>3. ((a % WordSize) - (r % WordSize)) % WordSize = a - r
    BY <1>1, <2>2, Distance
  <2>4. ((b % WordSize) - (r % WordSize)) % WordSize = b - r
    BY <1>1, <2>2, Distance
  <2> QED
    BY <1>1, <2>1, <2>2, <2>3, <2>4
<1>4. ASSUME NEW n \in 0..MaxBlock, Read(n)
      PROVE  (read_pos' - read_pos) % WordSize <= (write_pos' - read_pos) % WordSize
  <2> DEFINE copied == Lesser(used, n)
             b == write_pos - used + copied
  <2>1. copied \in 0..MaxBlock /\ copied <= used /\ read_pos' = b % WordSize
    BY <1>4, ReadWindow
  <2>2. b \in Int /\ b - r \in 0..WordSize - 1 /\ b - r <= used
    BY <1>1, <2>1, Constants
  <2>3. write_pos' = write_pos
    BY <1>4 DEF Read
  <2> HIDE DEF b, r
  <2>4. ((b % WordSize) - (r % WordSize)) % WordSize = b - r
    BY <1>1, <2>2, Distance
  <2> QED
    BY <1>1, <2>1, <2>2, <2>3, <2>4 DEF used
<1> QED
  BY <1>2, <1>3, <1>4
  DEF Next, Producer, Consumer, WriteLock, ReadLock, ReadContended, vars

\* No step of either thread moves read_pos back or past write_pos.
THEOREM NeverRewinds == Spec => ReadNeverRewinds
<1>1. Init => TypeOK /\ WindowBounded
  BY InitType
<1>2. TypeOK /\ WindowBounded /\ [Next]_vars => (TypeOK /\ WindowBounded)'
  BY StepType
<1>3. TypeOK /\ WindowBounded /\ [Next]_vars
      => [(read_pos' - read_pos) % WordSize <= (write_pos' - read_pos) % WordSize]_vars
  BY StepForward
<1> QED
  BY <1>1, <1>2, <1>3, PTL DEF Spec, ReadNeverRewinds

----------------------------------------------------------------------------

\* The unread samples, indexed from the end of the window.
LEMMA UnreadWindow ==
    ASSUME TypeOK
    PROVE  /\ unread \in Seq(Sample)
           /\ Len(unread) = used
           /\ \A i \in 1..used :
                unread[i] = samples[(write_pos - used + i - 1) % Capacity]
<1>1. used \in Nat /\ read_pos = (write_pos - used) % WordSize
      /\ write_pos \in Int /\ read_pos \in Int
  BY ReadPosition DEF TypeOK, Word
<1>2. ASSUME NEW i \in 1..used
      PROVE  (read_pos + i - 1) % Capacity = (write_pos - used + i - 1) % Capacity
  <2> DEFINE a == write_pos - used
             j == i - 1
  <2>1. a \in Int /\ j \in Int
    BY <1>1
  <2>2. ((a % WordSize) + j) % Capacity = (a + j) % Capacity
    <3> HIDE DEF a, j
    <3> QED
      BY <2>1, SlotOf
  <2>3. read_pos + i - 1 = (a % WordSize) + j /\ write_pos - used + i - 1 = a + j
    BY <1>1
  <2> QED
    BY <2>2, <2>3
<1>3. ASSUME NEW i \in 1..used
      PROVE  samples[(read_pos + i - 1) % Capacity] \in Sample
  BY <1>1, InRange, read_pos + i - 1 \in Int DEF TypeOK
<1>4. unread \in [1..used -> Sample]
  BY <1>3 DEF unread
<1>5. unread \in Seq(Sample) /\ Len(unread) = used
  BY <1>1, <1>4
<1> QED
  BY <1>2, <1>5 DEF unread

\* The slot distance of an offset at most one array length before the slot.
LEMMA OffsetBehind ==
    ASSUME NEW e \in Int, -Capacity <= e, e < 0
    PROVE  e % Capacity = e + Capacity
<1>1. (e + Capacity * 1) % Capacity = e % Capacity
  BY Constants, ModAddMul, 1 \in Int
<1>2. e + Capacity \in 0..Capacity - 1
  BY Constants
<1>3. (e + Capacity) % Capacity = e + Capacity
  BY <1>2, Constants, ModSmall
<1> QED
  BY <1>1, <1>3, Constants

\* What the last d elements of a sequence are.
LEMMA LastElements ==
    ASSUME NEW q \in Seq(Sample), NEW d \in Nat
    PROVE  LET k == Lesser(Len(q), d)
           IN  /\ Queue!LastN(q, d) \in Seq(Sample)
               /\ Len(Queue!LastN(q, d)) = k
               /\ \A i \in 1..k : Queue!LastN(q, d)[i] = q[Len(q) - k + i]
<1>1. Len(q) \in Nat
  BY LenProperties
<1>2. CASE Len(q) <= d
  <2>1. Queue!LastN(q, d) = q /\ Lesser(Len(q), d) = Len(q)
    BY <1>1, <1>2 DEF Queue!LastN, Lesser
  <2>2. \A i \in 1..Len(q) : Len(q) - Len(q) + i = i
    BY <1>1
  <2> QED
    BY <2>1, <2>2
<1>3. CASE ~(Len(q) <= d)
  <2> DEFINE m == Len(q) - d + 1
  <2>1. m \in 1..Len(q) + 1 /\ Len(q) - m + 1 = d
    BY <1>1, <1>3
  <2>2. \A i \in m..Len(q) : q[i] \in Sample
    BY <1>1, <2>1, ElementOfSeq
  <2> HIDE DEF m
  <2>3. /\ SubSeq(q, m, Len(q)) \in Seq(Sample)
        /\ Len(SubSeq(q, m, Len(q))) = IF m <= Len(q) THEN Len(q) - m + 1 ELSE 0
        /\ \A i \in 1..Len(q) - m + 1 : SubSeq(q, m, Len(q))[i] = q[m + i - 1]
    BY <1>1, <2>1, <2>2, SubSeqProperties
  <2>4. \A i \in 1..d : m + i - 1 = Len(q) - d + i
    BY <1>1, <2>1 DEF m
  <2>5. Queue!LastN(q, d) = SubSeq(q, m, Len(q)) /\ Lesser(Len(q), d) = d
    BY <1>1, <1>3 DEF Queue!LastN, Lesser, m
  <2> QED
    BY <1>1, <2>1, <2>3, <2>4, <2>5
<1> QED
  BY <1>2, <1>3

\* A write refines a push: what was retained, then the new block, oldest
\* samples dropped, although the retained ones stay in their slots.
LEMMA WriteRefines ==
    ASSUME TypeOK, TypeOK', WindowBounded,
           NEW s \in Block, NEW depth \in Depth, Write(s, depth)
    PROVE  unread' = Queue!LastN(unread \o s, Lesser(depth, Capacity))
<1> DEFINE n == Len(s)
           max == Lesser(depth, Capacity)
           keep == Lesser(used + n, max)
           both == unread \o s
<1>1. /\ n \in 0..MaxBlock
      /\ keep \in 0..Capacity
      /\ keep <= used + n
      /\ write_pos' = (write_pos + n) % WordSize
      /\ used' = keep
  BY WriteWindow
<1>2. /\ s \in Seq(Sample)
      /\ used \in 0..Capacity
      /\ write_pos \in Int
      /\ max \in Nat
  BY ReadPosition, Constants, RingAssumption DEF Block, WindowBounded, TypeOK, Word, Lesser
<1>3. /\ both \in Seq(Sample)
      /\ Len(both) = used + n
      /\ \A i \in 1..used + n : both[i] = IF i <= used THEN unread[i] ELSE s[i - used]
  <2>1. unread \in Seq(Sample) /\ Len(unread) = used
    BY UnreadWindow
  <2> QED
    BY <1>2, <2>1, ConcatProperties
<1>4. /\ Queue!LastN(both, max) \in Seq(Sample)
      /\ Len(Queue!LastN(both, max)) = keep
      /\ \A i \in 1..keep : Queue!LastN(both, max)[i] = both[used + n - keep + i]
  <2> HIDE DEF both, max, n
  <2>1. LET k == Lesser(Len(both), max)
        IN  /\ Queue!LastN(both, max) \in Seq(Sample)
            /\ Len(Queue!LastN(both, max)) = k
            /\ \A i \in 1..k : Queue!LastN(both, max)[i] = both[Len(both) - k + i]
    BY <1>2, <1>3, LastElements
  <2>2. Lesser(Len(both), max) = keep /\ Len(both) = used + n
    BY <1>3
  <2> HIDE DEF keep
  <2>3. \A i \in 1..keep : Queue!LastN(both, max)[i] = both[Len(both) - keep + i]
    BY <2>1, <2>2, Zenon
  <2>4. \A i \in 1..keep : Queue!LastN(both, max)[i] = both[used + n - keep + i]
    <3> TAKE i \in 1..keep
    <3>1. Len(both) - keep + i = used + n - keep + i
      BY <1>1, <1>2, <2>2
    <3> QED
      BY <2>3, <3>1, Zenon
  <2>5. Queue!LastN(both, max) \in Seq(Sample) /\ Len(Queue!LastN(both, max)) = keep
    BY <2>1, <2>2, Zenon
  <2> QED
    BY <2>4, <2>5, Zenon
<1>5. /\ unread' \in Seq(Sample)
      /\ Len(unread') = keep
      /\ \A i \in 1..keep :
           unread'[i] = samples'[(read_pos' + i - 1) % Capacity]
  <2>1. unread' = [i \in 1..keep |-> samples'[(read_pos' + i - 1) % Capacity]]
    BY <1>1 DEF unread
  <2>2. \A i \in 1..keep : samples'[(read_pos' + i - 1) % Capacity] \in Sample
    <3> TAKE i \in 1..keep
    <3>1. read_pos' + i - 1 \in Int
      BY <1>1 DEF TypeOK, Word
    <3> QED
      BY <3>1, InRange DEF TypeOK
  <2>3. unread' \in [1..keep -> Sample]
    BY <2>1, <2>2
  <2> HIDE DEF keep
  <2> QED
    BY <1>1, <2>1, <2>3
<1>6. ASSUME NEW i \in 1..keep
      PROVE  unread'[i] = both[used + n - keep + i]
  <2> DEFINE e == n - keep + i - 1
             k == (write_pos + e) % Capacity
  <2>1. /\ e \in Int
        /\ n - Capacity <= e
        /\ e < n
        /\ n <= Capacity
        /\ used + e + 1 \in 1..used + n
        /\ used + n - keep + i = used + e + 1
    <3> HIDE DEF n, keep
    <3> QED
      BY <1>1, <1>2, Constants
  <2>2. (read_pos' + i - 1) % Capacity = k
    <3> DEFINE a == write_pos + n - keep
               j == i - 1
    <3>1. a \in Int /\ j \in Int /\ read_pos' = a % WordSize
      BY <1>1, <1>2, WriteWindow
    <3>2. a + j = write_pos + e
      BY <1>1, <1>2
    <3> HIDE DEF a
    <3>3. ((a % WordSize) + j) % Capacity = (a + j) % Capacity
      <4> HIDE DEF j
      <4> QED
        BY <3>1, SlotOf
    <3>4. read_pos' + i - 1 = (a % WordSize) + j
      BY <3>1, TypeOK' DEF TypeOK, Word
    <3> QED
      BY <3>2, <3>3, <3>4
  <2> HIDE DEF e
  <2>3. (k - write_pos) % Capacity = e % Capacity
    <3>1. (((write_pos + e) % Capacity) + (-write_pos)) % Capacity
            = (write_pos + e + (-write_pos)) % Capacity
      BY <1>2, <2>1, Constants, ModPlus, write_pos + e \in Int, -write_pos \in Int
    <3>2. (write_pos + e) % Capacity \in Int
      BY <1>2, <2>1, Constants, DivMod, write_pos + e \in Int
    <3>3. write_pos + e + (-write_pos) = e /\ k + (-write_pos) = k - write_pos
      BY <1>2, <2>1, <3>2
    <3> QED
      BY <3>1, <3>3
  <2>4. k \in Slot
    BY <1>2, <2>1, InRange, write_pos + e \in Int
  <2>5. unread'[i] = IF e % Capacity < n THEN s[(e % Capacity) + 1] ELSE samples[k]
    <3>1. unread'[i] = samples'[k]
      BY <1>5, <2>2
    <3>2. samples' = Stored(s)
      BY DEF Write
    <3> QED
      BY <2>3, <2>4, <3>1, <3>2 DEF Stored
  <2>6. CASE e >= 0
    <3>1. e % Capacity = e
      BY <2>1, <2>6, Constants, ModSmall
    <3>2. both[used + e + 1] = s[e + 1]
      BY <1>2, <1>3, <2>1, <2>6
    <3> QED
      BY <2>1, <2>5, <3>1, <3>2
  <2>7. CASE e < 0
    <3>1. e % Capacity = e + Capacity
      BY <2>1, <2>7, <1>1, Constants, OffsetBehind, -Capacity <= e
    <3>2. both[used + e + 1] = unread[used + e + 1] /\ used + e + 1 \in 1..used
      BY <1>2, <1>3, <2>1, <2>7
    <3>3. unread[used + e + 1] = samples[(write_pos - used + (used + e + 1) - 1) % Capacity]
      BY <3>2, UnreadWindow
    <3>4. write_pos - used + (used + e + 1) - 1 = write_pos + e
      BY <1>2, <2>1
    <3>5. ~(e % Capacity < n)
      BY <1>1, <2>1, <3>1, Constants
    <3> HIDE DEF both, keep, n
    <3> QED
      BY <2>1, <2>5, <3>2, <3>3, <3>4, <3>5
  <2>8. e >= 0 \/ e < 0
    BY <2>1
  <2> QED
    BY <2>6, <2>7, <2>8
<1> QED
  <2> HIDE DEF both, max, keep, n
  <2>1. Len(unread') = Len(Queue!LastN(both, max))
    BY <1>4, <1>5
  <2>2. \A i \in 1..Len(unread') : unread'[i] = Queue!LastN(both, max)[i]
    BY <1>4, <1>5, <1>6
  <2>3. unread' = Queue!LastN(both, max)
    BY <1>4, <1>5, <2>1, <2>2, SeqEqual
  <2> QED
    BY <2>3 DEF both, max

\* A read refines a pop: it delivers the oldest samples in order, silence
\* after them, and leaves the rest.
LEMMA ReadRefines ==
    ASSUME TypeOK, TypeOK', WindowBounded, NEW n \in 0..MaxBlock, Read(n)
    PROVE  Queue!Pop(n)
<1> DEFINE copied == Lesser(used, n)
           rest == SubSeq(unread, copied + 1, used)
<1>1. /\ copied \in 0..MaxBlock
      /\ copied <= used
      /\ read_pos' = (write_pos - used + copied) % WordSize
      /\ used' = used - copied
  BY ReadWindow
<1>2. /\ used \in Nat
      /\ write_pos \in Int
      /\ unread \in Seq(Sample)
      /\ Len(unread) = used
  BY ReadPosition, UnreadWindow DEF TypeOK, Word
<1>3. out' = Queue!Padded(unread, copied, n)
  <2>1. \A i \in 1..n : i <= copied => unread[i] = samples[(read_pos + i - 1) % Capacity]
    BY <1>1, <1>2 DEF unread
  <2>2. out' = [i \in 1..n |-> IF i <= copied
                               THEN samples[(read_pos + i - 1) % Capacity]
                               ELSE Silence]
    <3>1. n \in Nat /\ copied + Padding(n, copied) = n
      BY <1>2, Filling
    <3> QED
      BY <3>1 DEF Read
  <2> HIDE DEF copied
  <2> QED
    BY <2>1, <2>2 DEF Queue!Padded
<1>4. /\ rest \in Seq(Sample)
      /\ Len(rest) = used - copied
      /\ \A i \in 1..used - copied : rest[i] = unread[copied + i]
  <2>1. \A i \in copied + 1..used : unread[i] \in Sample
    BY <1>1, <1>2, ElementOfSeq
  <2> HIDE DEF copied
  <2>2. /\ rest \in Seq(Sample)
        /\ Len(rest) = IF copied + 1 <= used THEN used - (copied + 1) + 1 ELSE 0
        /\ \A i \in 1..used - (copied + 1) + 1 : rest[i] = unread[copied + 1 + i - 1]
    BY <1>1, <1>2, <2>1, SubSeqProperties
  <2> HIDE DEF rest
  <2>3. \A i \in 1..used - copied : copied + 1 + i - 1 = copied + i
    BY <1>1, <1>2
  <2> QED
    BY <1>1, <1>2, <2>2, <2>3
<1>5. /\ unread' \in Seq(Sample)
      /\ Len(unread') = used - copied
      /\ \A i \in 1..used - copied :
           unread'[i] = samples[(read_pos' + i - 1) % Capacity]
  <2>1. unread' = [i \in 1..used - copied |-> samples[(read_pos' + i - 1) % Capacity]]
    BY <1>1 DEF unread, Read
  <2>2. \A i \in 1..used - copied : samples[(read_pos' + i - 1) % Capacity] \in Sample
    <3> TAKE i \in 1..used - copied
    <3>1. read_pos' + i - 1 \in Int
      BY <1>1, <1>2 DEF TypeOK, Word
    <3> QED
      BY <3>1, InRange DEF TypeOK
  <2>3. unread' \in [1..used - copied -> Sample]
    BY <2>1, <2>2
  <2> HIDE DEF copied
  <2> QED
    BY <1>1, <1>2, <2>1, <2>3
<1>6. ASSUME NEW i \in 1..used - copied
      PROVE  unread'[i] = rest[i]
  <2> DEFINE a == write_pos - used + copied
             j == i - 1
  <2>1. a \in Int /\ j \in Int /\ copied + i \in 1..used
    <3> HIDE DEF copied
    <3> QED
      BY <1>1, <1>2
  <2>2. (read_pos' + i - 1) % Capacity = (a + j) % Capacity
    <3>1. ((a % WordSize) + j) % Capacity = (a + j) % Capacity
      <4> HIDE DEF a, j
      <4> QED
        BY <2>1, SlotOf
    <3>2. read_pos' + i - 1 = (a % WordSize) + j
      BY <1>1, TypeOK' DEF TypeOK, Word
    <3> QED
      BY <3>1, <3>2
  <2>3. unread[copied + i] = samples[(write_pos - used + (copied + i) - 1) % Capacity]
    <3> HIDE DEF copied
    <3> QED
      BY <2>1, UnreadWindow
  <2>4. write_pos - used + (copied + i) - 1 = a + j
    <3> HIDE DEF copied
    <3> QED
      BY <1>1, <1>2
  <2> HIDE DEF copied, rest
  <2> QED
    BY <1>4, <1>5, <2>2, <2>3, <2>4
<1>7. unread' = rest
  <2> HIDE DEF copied, rest
  <2>1. Len(unread') = Len(rest) /\ \A i \in 1..Len(unread') : unread'[i] = rest[i]
    BY <1>4, <1>5, <1>6
  <2> QED
    BY <1>4, <1>5, <2>1, SeqEqual
<1>8. Queue!Lesser(n, Len(unread)) = copied
  BY <1>1, <1>2 DEF Queue!Lesser, Lesser
<1> HIDE DEF copied
<1> QED
  BY <1>2, <1>3, <1>7, <1>8 DEF Queue!Pop, Queue!Popped

\* Every step of the two threads is a step of the queue or leaves it alone.
LEMMA StepRefines ==
    ASSUME TypeOK, TypeOK', WindowBounded, [Next]_vars
    PROVE  [Queue!Next]_Queue!qvars
<1>1. CASE WriteLock \/ ReadLock \/ UNCHANGED vars
  BY <1>1 DEF WriteLock, ReadLock, vars, Queue!qvars, unread, used
<1>2. ASSUME NEW s \in Block, NEW depth \in Depth, Write(s, depth)
      PROVE  Queue!Next
  <2>1. Queue!Push(s, depth)
    BY <1>2, WriteRefines DEF Write, Queue!Push, Queue!Pushed, Queue!Lesser, Lesser
  <2> QED
    BY <2>1 DEF Queue!Next, Queue!Block, Block
<1>3. ASSUME NEW n \in 0..MaxBlock, ReadContended(n)
      PROVE  Queue!Next
  <2>1. out' = Queue!Padded(unread, 0, n)
    BY <1>3 DEF ReadContended, Queue!Padded
  <2>2. unread' = unread
    BY <1>3 DEF ReadContended, unread, used
  <2> QED
    BY <2>1, <2>2 DEF Queue!Next, Queue!PopContended
<1>4. ASSUME NEW n \in 0..MaxBlock, Read(n)
      PROVE  Queue!Next
  BY <1>4, ReadRefines DEF Queue!Next
<1> QED
  BY <1>1, <1>2, <1>3, <1>4 DEF Next, Producer, Consumer

\* The ring implements the drop-oldest queue of pcm_ring.h: whatever the two
\* threads do, and however often the positions wrap, the reader hears a FIFO.
THEOREM RingImplementsQueue == Spec => ImplementsQueue
<1>1. Init => TypeOK /\ WindowBounded /\ Queue!Init
  <2>1. ASSUME Init PROVE Queue!Init
    <3>1. used = 0
      BY <2>1, Constants, ModSmall DEF Init, used
    <3>2. unread = << >>
      BY <3>1 DEF unread
    <3> QED
      BY <2>1, <3>2 DEF Init, Queue!Init
  <2> QED
    BY <2>1, InitType
<1>2. TypeOK /\ WindowBounded /\ [Next]_vars => (TypeOK /\ WindowBounded)'
  BY StepType
<1>3. TypeOK /\ TypeOK' /\ WindowBounded /\ [Next]_vars => [Queue!Next]_Queue!qvars
  BY StepRefines
<1> QED
  BY <1>1, <1>2, <1>3, PTL DEF Spec, ImplementsQueue, Queue!Spec
=============================================================================
