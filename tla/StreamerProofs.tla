--------------------------- MODULE StreamerProofs ---------------------------
(***************************************************************************)
(* Theorems about the capture side of the phone, for every frame size,     *)
(* ring, burst and word size that StreamerAssumption allows.               *)
(***************************************************************************)
EXTENDS Streamer, TLAPS

\* The constants in the form the arithmetic lemmas need.
LEMMA Constants ==
    /\ WordSize \in Nat \ {0}
    /\ FrameSize \in Nat \ {0}
    /\ Capacity \in Nat
    /\ \A n \in Burst : n \in 1..Capacity /\ Capacity + n < WordSize
BY StreamerAssumption

\* Division by WordSize leaves a remainder in range.
LEMMA ModSplit ==
    ASSUME NEW a \in Int
    PROVE  a % WordSize \in 0..WordSize - 1 /\ \E k \in Int : a = (a % WordSize) + WordSize * k
<1>1. \A m \in Nat \ {0} : \A b \in Int :
        b % m \in 0..m - 1 /\ b \div m \in Int /\ b = (b % m) + m * (b \div m)
  OBVIOUS
<1> QED
  BY <1>1, Constants

\* A number in range is its own remainder.
LEMMA ModSmall == ASSUME NEW r \in 0..WordSize - 1 PROVE r % WordSize = r
BY Constants

\* Numbers a multiple of WordSize apart leave the same remainder.
LEMMA ModEqual ==
    ASSUME NEW a \in Int, NEW b \in Int, NEW k \in Int, a = b + WordSize * k
    PROVE  a % WordSize = b % WordSize
<1> PICK p \in Int : a = (a % WordSize) + WordSize * p
  BY ModSplit
<1> PICK q \in Int : b = (b % WordSize) + WordSize * q
  BY ModSplit
<1> DEFINE r == a % WordSize
           s == b % WordSize
           kk == WordSize * k
           pp == WordSize * p
           qq == WordSize * q
           j == k + q - p
           jj == WordSize * j
<1>1. r \in 0..WordSize - 1 /\ s \in 0..WordSize - 1
  BY ModSplit
<1>2. WordSize \in Nat \ {0} /\ j \in Int
  BY Constants
<1>3. kk \in Int /\ pp \in Int /\ qq \in Int
  BY <1>2
<1>4. jj = kk + qq - pp
  BY <1>2
<1>5. /\ j >= 1 => jj >= WordSize
      /\ j <= -1 => jj <= -WordSize
      /\ j = 0 => jj = 0
  <2> HIDE DEF j
  <2> QED
    BY <1>2
<1>6. a = r + pp /\ b = s + qq /\ a = b + kk
  OBVIOUS
<1> HIDE DEF r, s, kk, pp, qq, j, jj
<1>7. jj = r - s
  BY <1>1, <1>3, <1>4, <1>6
<1>8. r = s
  BY <1>1, <1>2, <1>5, <1>7
<1> QED
  BY <1>8 DEF r, s

\* Reducing a summand first makes no difference.
LEMMA ModPlus ==
    ASSUME NEW a \in Int, NEW b \in Int
    PROVE  ((a % WordSize) + b) % WordSize = (a + b) % WordSize
<1> PICK k \in Int : a = (a % WordSize) + WordSize * k
  BY ModSplit
<1> DEFINE r == a % WordSize
           kk == WordSize * k
<1>1. r \in Int /\ kk \in Int /\ a = r + kk
  BY ModSplit, Constants
<1> HIDE DEF r, kk
<1>2. r + b \in Int /\ a + b \in Int /\ a + b = (r + b) + kk
  BY <1>1
<1>3. (a + b) % WordSize = (r + b) % WordSize
  BY <1>2, ModEqual DEF kk
<1> QED
  BY <1>3 DEF r

\* Reducing the subtrahend first makes no difference.
LEMMA ModMinus ==
    ASSUME NEW a \in Int, NEW b \in Int
    PROVE  (a - (b % WordSize)) % WordSize = (a - b) % WordSize
<1> PICK k \in Int : b = (b % WordSize) + WordSize * k
  BY ModSplit
<1> DEFINE r == b % WordSize
           kk == WordSize * k
<1>1. r \in Int /\ kk \in Int /\ b = r + kk
  BY ModSplit, Constants
<1> HIDE DEF r, kk
<1>2. a - r \in Int /\ a - b \in Int /\ a - r = (a - b) + kk
  BY <1>1
<1>3. (a - r) % WordSize = (a - b) % WordSize
  BY <1>2, ModEqual DEF kk
<1> QED
  BY <1>3 DEF r

\* The distance of two wrapped numbers is the distance of the numbers.
LEMMA ModDistance ==
    ASSUME NEW a \in Int, NEW b \in Int, a - b \in 0..WordSize - 1
    PROVE  ((a % WordSize) - (b % WordSize)) % WordSize = a - b
<1> PICK p \in Int : a = (a % WordSize) + WordSize * p
  BY ModSplit
<1> PICK q \in Int : b = (b % WordSize) + WordSize * q
  BY ModSplit
<1> DEFINE r == a % WordSize
           s == b % WordSize
           pp == WordSize * p
           qq == WordSize * q
           kk == WordSize * (q - p)
<1>1. r \in Int /\ s \in Int /\ WordSize \in Int
  BY ModSplit, Constants
<1>2. pp \in Int /\ qq \in Int /\ q - p \in Int /\ kk = qq - pp
  BY <1>1
<1>3. a = r + pp /\ b = s + qq
  OBVIOUS
<1> HIDE DEF r, s, pp, qq, kk
<1>4. r - s \in Int /\ a - b \in Int /\ r - s = (a - b) + kk
  BY <1>1, <1>2, <1>3
<1>5. (r - s) % WordSize = (a - b) % WordSize
  BY <1>2, <1>4, ModEqual DEF kk
<1>6. (a - b) % WordSize = a - b
  BY ModSmall
<1> QED
  BY <1>5, <1>6 DEF r, s

\* A remainder is a position.
LEMMA InRange == \A a \in Int : a % WordSize \in 0..WordSize - 1
BY ModSplit

\* The parts of TypeOK: the first three are preserved one by one.
FlagsOK ==
    /\ useTcp \in BOOLEAN /\ mRunning \in BOOLEAN /\ mEncoder \in BOOLEAN
    /\ mSocketFd \in BOOLEAN /\ failed \in BOOLEAN /\ raced \in BOOLEAN

PlacesOK ==
    /\ control \in {"ready", "resetting", "rewinding", "restamping", "opening",
                    "launching", "requesting", "stopping", "notifying", "joining",
                    "releasing", "terminated"}
    /\ mStream \in {"none", "open", "started", "halted", "closed"}
    /\ sender \in {"none", "top", "locked", "falling", "asleep", "copying",
                   "encode", "send", "done"}
    /\ callback \in {"out", "notify", "return"}
    /\ erring \in {"no", "clear", "notify"}

CountersOK ==
    /\ mWritePos \in 0..WordSize - 1 /\ mReadPos \in 0..WordSize - 1
    /\ mTimestamp \in 0..WordSize - 1 /\ lost \in 0..WordSize - 1

PhasesOK ==
    /\ control \in {"notifying", "joining", "releasing"} => ~mRunning
    /\ control = "releasing" => sender = "none"
    /\ raced /\ mRunning => control = "terminated"

\* TypeOK is its four parts.
LEMMA TypeParts == TypeOK <=> FlagsOK /\ PlacesOK /\ CountersOK /\ PhasesOK
BY DEF TypeOK, FlagsOK, PlacesOK, CountersOK, PhasesOK

\* Between its first check of mRunning and its assignment start has not set it.
Preparing == {"resetting", "rewinding", "restamping", "opening", "launching"}

\* What keeps the last part: a stream runs, and a ring is reset beside another
\* thread, only while mSenderThread is joinable, which ends the process when
\* start assigns to it; and with the flag down no sender comes back to the ring.
Phased ==
    /\ PhasesOK
    /\ control \in Preparing => ~mRunning
    /\ control = "requesting" => sender # "none"
    /\ mStream = "started" /\ control # "releasing" => sender # "none"
    /\ raced /\ control \in Preparing \ {"resetting"} => sender # "none"
    /\ ~raced /\ control = "rewinding" => ~Beside

----------------------------------------------------------------------------

\* Every action leaves the flags Boolean.
LEMMA StepFlags == FlagsOK /\ [Next]_vars => FlagsOK'
<1> SUFFICES ASSUME FlagsOK, [Next]_vars
             PROVE  FlagsOK'
  OBVIOUS
<1> USE DEF FlagsOK, resources, ring, history
<1>1. CASE Prepare \/ Reset
  <2>1. Beside \in BOOLEAN
    BY DEF Beside
  <2> QED
    BY Zenon, <1>1, <2>1 DEF Prepare, Reset
<1>2. CASE Stop
  BY Zenon, <1>2 DEF Stop
<1>3. CASE OpenStream \/ Launch \/ RequestStart
  BY Zenon, <1>3 DEF OpenStream, Launch, RequestStart
<1>4. CASE Clear \/ NotifyStop \/ Join \/ Release
  BY Zenon, <1>4 DEF Clear, NotifyStop, Join, Release
<1>5. CASE \E n \in Burst : Capture(n)
  BY Zenon, <1>5 DEF Capture
<1>6. CASE NotifyData \/ CallbackReturn
  BY Zenon, <1>6 DEF NotifyData, CallbackReturn
<1>7. CASE StreamError \/ OnErrorAfterClose
  BY Zenon, <1>7 DEF StreamError, OnErrorAfterClose
<1>8. CASE Wait \/ SpuriousWakeup
  BY Zenon, <1>8 DEF Wait, SpuriousWakeup
<1>9. CASE Encode \/ SendPacket
  BY Zenon, <1>9 DEF Encode, SendPacket
<1>10. CASE UNCHANGED vars
  BY Zenon, <1>10 DEF vars
<1> QED
  BY <1>1, <1>2, <1>3, <1>4, <1>5, <1>6, <1>7, <1>8, <1>9, <1>10 DEF Next, Control, Callback

\* Every action leaves each thread at a place it has.
LEMMA StepPlaces == PlacesOK /\ [Next]_vars => PlacesOK'
<1> SUFFICES ASSUME PlacesOK, [Next]_vars
             PROVE  PlacesOK'
  OBVIOUS
<1> USE DEF PlacesOK, resources, ring, history, Notified, ControlGoes, CallbackGoes, SenderGoes, Undo
<1>1. CASE Prepare \/ Reset
  BY <1>1 DEF Prepare, Reset
<1>2. CASE Stop
  BY <1>2 DEF Stop
<1>3. CASE OpenStream \/ Launch \/ RequestStart
  BY <1>3 DEF OpenStream, Launch, RequestStart
<1>4. CASE Clear \/ NotifyStop \/ Join \/ Release
  BY <1>4 DEF Clear, NotifyStop, Join, Release
<1>5. CASE \E n \in Burst : Capture(n)
  BY <1>5 DEF Capture
<1>6. CASE NotifyData \/ CallbackReturn
  BY <1>6 DEF NotifyData, CallbackReturn
<1>7. CASE StreamError \/ OnErrorAfterClose
  BY <1>7 DEF StreamError, OnErrorAfterClose
<1>8. CASE Wait \/ SpuriousWakeup
  BY <1>8 DEF Wait, SpuriousWakeup
<1>9. CASE Encode \/ SendPacket
  BY <1>9 DEF Encode, SendPacket
<1>10. CASE UNCHANGED vars
  BY <1>10 DEF vars
<1> QED
  BY <1>1, <1>2, <1>3, <1>4, <1>5, <1>6, <1>7, <1>8, <1>9, <1>10 DEF Next, Control, Callback

\* Every action reduces the counters it adds to.
LEMMA StepCounters == CountersOK /\ [Next]_vars => CountersOK'
<1> SUFFICES ASSUME CountersOK, [Next]_vars
             PROVE  CountersOK'
  OBVIOUS
<1> USE DEF CountersOK, ring, history
<1>1. CASE Prepare \/ Reset
  <2>1. /\ mWritePos' \in {0, mWritePos} /\ mReadPos' \in {0, mReadPos}
        /\ mTimestamp' \in {0, mTimestamp} /\ lost' \in {0, lost}
    BY <1>1 DEF Prepare, Reset, Zeroed
  <2> QED
    BY <2>1, Constants
<1>2. CASE Stop
  BY <1>2 DEF Stop
<1>3. CASE OpenStream \/ Launch \/ RequestStart
  BY <1>3 DEF OpenStream, Launch, RequestStart
<1>4. CASE Clear \/ NotifyStop \/ Join \/ Release
  BY <1>4 DEF Clear, NotifyStop, Join, Release
<1>5. ASSUME NEW n \in Burst, Capture(n)
      PROVE  CountersOK'
  <2>1. n \in Int /\ Capacity \in Int
    BY Constants
  <2>2. OldestKept(n) \in 0..WordSize - 1
    BY <2>1, InRange DEF OldestKept
  <2> QED
    BY <1>5, <2>1, <2>2, InRange DEF Capture
<1>6. CASE NotifyData \/ CallbackReturn
  BY <1>6 DEF NotifyData, CallbackReturn
<1>7. CASE StreamError \/ OnErrorAfterClose
  BY <1>7 DEF StreamError, OnErrorAfterClose
<1>8. CASE Wait \/ SpuriousWakeup
  <2>1. mReadPos' \in {mReadPos, (mReadPos + FrameSize) % WordSize}
    BY <1>8 DEF Wait, SpuriousWakeup
  <2>2. mReadPos + FrameSize \in Int
    BY Constants
  <2>3. (mReadPos + FrameSize) % WordSize \in 0..WordSize - 1
    BY <2>2, InRange
  <2> QED
    BY <1>8, <2>1, <2>3 DEF Wait, SpuriousWakeup
<1>9. CASE Encode \/ SendPacket
  <2>1. /\ (lost + FrameSize) % WordSize \in 0..WordSize - 1
        /\ (mTimestamp + FrameSize) % WordSize \in 0..WordSize - 1
    <3>1. lost + FrameSize \in Int /\ mTimestamp + FrameSize \in Int
      BY Constants
    <3> QED
      BY <3>1, InRange
  <2> QED
    BY <1>9, <2>1 DEF Encode, SendPacket, CountSamples
<1>10. CASE UNCHANGED vars
  BY <1>10 DEF vars
<1> QED
  BY <1>1, <1>2, <1>3, <1>4, <1>5, <1>6, <1>7, <1>8, <1>9, <1>10 DEF Next, Control, Callback

\* Every action keeps the phases.
LEMMA StepPhases == FlagsOK /\ PlacesOK /\ Phased /\ [Next]_vars => Phased'
<1> SUFFICES ASSUME FlagsOK, PlacesOK, Phased, [Next]_vars
             PROVE  Phased'
  OBVIOUS
<1> USE DEF FlagsOK, PlacesOK, PhasesOK, Phased, Preparing, Beside, resources, history,
            ControlGoes, CallbackGoes, SenderGoes
<1>1. CASE Prepare
  <2>1. control = "ready" /\ control' \in {"ready", "resetting"} /\ ~mRunning
    BY <1>1 DEF Prepare
  <2>2. UNCHANGED <<mRunning, mStream, sender, raced>>
    BY Zenon, <1>1 DEF Prepare
  <2> QED
    BY <2>1, <2>2
<1>2. CASE Reset
  BY <1>2 DEF Reset
<1>3. CASE OpenStream
  BY <1>3 DEF OpenStream
<1>4. CASE Launch
  BY <1>4 DEF Launch
<1>5. CASE RequestStart
  BY <1>5 DEF RequestStart, Undo
<1>6. CASE Stop \/ Clear
  BY <1>6 DEF Stop, Clear
<1>7. CASE NotifyStop
  BY <1>7 DEF NotifyStop, Notified
<1>8. CASE Join \/ Release
  BY <1>8 DEF Join, Release
<1>9. CASE \E n \in Burst : Capture(n)
  BY <1>9 DEF Capture
<1>10. CASE NotifyData
  BY <1>10 DEF NotifyData, Notified
<1>11. CASE CallbackReturn \/ StreamError
  BY <1>11 DEF CallbackReturn, StreamError
<1>12. CASE OnErrorAfterClose
  BY <1>12 DEF OnErrorAfterClose, Notified
<1>13. CASE Wait
  BY <1>13 DEF Wait
<1>14. CASE SpuriousWakeup \/ Encode \/ SendPacket
  BY <1>14 DEF SpuriousWakeup, Encode, SendPacket
<1>15. CASE UNCHANGED vars
  BY <1>15 DEF vars
<1> QED
  BY <1>1, <1>2, <1>3, <1>4, <1>5, <1>6, <1>7, <1>8, <1>9, <1>10, <1>11, <1>12, <1>13,
     <1>14, <1>15 DEF Next, Control, Callback

\* A new streamer has its types and is in no phase of a call.
LEMMA InitType == Init => TypeOK /\ Phased
<1> SUFFICES ASSUME Init
             PROVE  TypeOK /\ Phased
  OBVIOUS
<1>1. FlagsOK
  BY Zenon DEF Init, FlagsOK
<1>2. PlacesOK /\ CountersOK /\ Phased
  BY Constants DEF Init, PlacesOK, CountersOK, PhasesOK, Phased, Preparing, Beside
<1> QED
  BY <1>1, <1>2, TypeParts DEF Phased

\* Every action keeps all four parts.
LEMMA StepType == TypeOK /\ Phased /\ [Next]_vars => (TypeOK /\ Phased)'
<1>1. (FlagsOK /\ PlacesOK /\ CountersOK /\ PhasesOK)' => TypeOK'
  BY TypeParts, PTL
<1>2. Phased' => PhasesOK'
  BY DEF Phased
<1> QED
  BY <1>1, <1>2, TypeParts, StepFlags, StepPlaces, StepCounters, StepPhases

\* Every variable of the streamer keeps its type; stop releases the stream only
\* after the join of a sender whose flag is down, and no stream runs on a ring
\* whose reset another thread may have overwritten.
THEOREM TypeCorrect == Spec => []TypeOK
  BY InitType, StepType, PTL DEF Spec
----------------------------------------------------------------------------

\* Where everything is while no error closed the stream by itself: the error
\* callback runs only after an error, mRunning is cleared before the join and
\* set again by the next start only, and each step of start and stop finds
\* what the ones before it left.  None of the three invariants below is
\* inductive without it.
Whole ==
    /\ control = "ready" /\ mRunning => mStream = "started" /\ sender # "none" /\ mEncoder /\ mSocketFd
    /\ control = "ready" /\ ~mRunning => mStream = "none" /\ sender = "none" /\ ~mEncoder /\ ~mSocketFd
    /\ control \in Preparing => mEncoder /\ mSocketFd /\ sender = "none"
    /\ control \in Preparing \ {"launching"} => mStream = "none"
    /\ control = "requesting" => mRunning
    /\ sender # "none" => mEncoder /\ mSocketFd

Ordered ==
    /\ erring # "no" => failed
    /\ control = "terminated" => failed
    /\ ~failed => Whole

\* A new streamer is in order.
LEMMA InitOrdered == Init => Ordered
  BY DEF Init, Ordered, Whole, Preparing

\* Every action keeps the order of the steps of start and stop.
LEMMA StepOrdered == FlagsOK /\ PlacesOK /\ Phased /\ Ordered /\ [Next]_vars => Ordered'
<1> SUFFICES ASSUME FlagsOK, PlacesOK, Phased, Ordered, [Next]_vars
             PROVE  Ordered'
  OBVIOUS
<1> USE DEF FlagsOK, PlacesOK, PhasesOK, Phased, Preparing, Ordered, Whole, resources,
            history, Alive, ControlGoes, CallbackGoes, SenderGoes
<1>1. CASE Prepare
  <2>1. \/ control' = "resetting" /\ mEncoder' /\ mSocketFd'
        \/ control' = "ready" /\ ~mSocketFd' /\ (mEncoder' => mEncoder)
    BY Zenon, <1>1 DEF Prepare
  <2>2. control = "ready" /\ ~mRunning
    BY <1>1 DEF Prepare
  <2>3. UNCHANGED <<mRunning, mStream, sender, erring, failed>>
    BY Zenon, <1>1 DEF Prepare
  <2> QED
    BY <2>1, <2>2, <2>3
<1>2. CASE Reset \/ OpenStream
  BY <1>2 DEF Reset, OpenStream
<1>3. CASE Launch
  BY <1>3 DEF Launch
<1>4. CASE RequestStart
  BY <1>4 DEF RequestStart, Undo
<1>5. CASE Stop \/ Clear
  BY <1>5 DEF Stop, Clear
<1>6. CASE NotifyStop
  BY <1>6 DEF NotifyStop, Notified
<1>7. CASE Join
  BY <1>7 DEF Join
<1>8. CASE Release
  BY <1>8 DEF Release
<1>9. CASE \E n \in Burst : Capture(n)
  BY <1>9 DEF Capture
<1>10. CASE NotifyData
  BY <1>10 DEF NotifyData, Notified
<1>11. CASE CallbackReturn
  BY <1>11 DEF CallbackReturn
<1>12. CASE StreamError
  BY <1>12 DEF StreamError
<1>13. CASE OnErrorAfterClose
  BY <1>13 DEF OnErrorAfterClose, Notified
<1>14. CASE Wait \/ SpuriousWakeup \/ Encode \/ SendPacket
  <2>1. sender # "none" /\ sender' # "none"
    BY <1>14 DEF Wait, SpuriousWakeup, Encode, SendPacket
  <2>2. UNCHANGED <<control, mRunning, resources, erring, failed>>
    BY Zenon, <1>14 DEF Wait, SpuriousWakeup, Encode, SendPacket
  <2> QED
    BY <2>1, <2>2
<1>15. CASE UNCHANGED vars
  BY <1>15 DEF vars
<1> QED
  BY <1>1, <1>2, <1>3, <1>4, <1>5, <1>6, <1>7, <1>8, <1>9, <1>10, <1>11, <1>12, <1>13,
     <1>14, <1>15 DEF Next, Control, Callback

\* The order holds in every reachable state.
LEMMA AlwaysOrdered == Spec => [](FlagsOK /\ PlacesOK /\ Phased /\ Ordered)
<1>1. Init => FlagsOK /\ PlacesOK /\ Phased
  BY InitType, TypeParts
<1> QED
  BY <1>1, StepFlags, StepPlaces, StepPhases, InitOrdered, StepOrdered, PTL DEF Spec

\* Nobody encodes with a destroyed encoder or sends on a closed socket: the
\* join protects both, as long as no error closed the stream.
THEOREM NeverUsedAfterFree == Spec => []NoUseAfterFree
<1>1. Ordered => NoUseAfterFree
  BY DEF Ordered, Whole, NoUseAfterFree
<1> QED
  BY <1>1, AlwaysOrdered, PTL

\* Whichever step of start fails, and whenever stop is called, a call leaves
\* everything running or nothing behind.
THEOREM AlwaysAllOrNothing == Spec => []AllOrNothing
<1>1. FlagsOK /\ PlacesOK /\ Ordered => AllOrNothing
  BY DEF FlagsOK, PlacesOK, Ordered, Whole, AllOrNothing
<1> QED
  BY <1>1, AlwaysOrdered, PTL

\* The assignment to a joinable thread, which ends the process, needs an error.
THEOREM NeverTerminatesAlone == Spec => []TerminatesOnlyAfterError
<1>1. Ordered => TerminatesOnlyAfterError
  BY DEF Ordered, TerminatesOnlyAfterError
<1> QED
  BY <1>1, AlwaysOrdered, PTL
----------------------------------------------------------------------------

\* mReadPos trails mWritePos by the samples in use.
LEMMA ReadPosition ==
    ASSUME CountersOK
    PROVE  Used \in Nat /\ mReadPos = (mWritePos - Used) % WordSize
<1> DEFINE d == mWritePos - mReadPos
<1>1. d \in Int /\ mWritePos \in Int /\ mReadPos \in 0..WordSize - 1
  BY Constants DEF CountersOK
<1>2. d % WordSize \in 0..WordSize - 1
  BY <1>1, InRange
<1>3. (mWritePos - (d % WordSize)) % WordSize = (mWritePos - d) % WordSize
  <2> HIDE DEF d
  <2> QED
    BY <1>1, Constants, ModMinus
<1>4. mWritePos - d = mReadPos
  BY <1>1
<1>5. mReadPos % WordSize = mReadPos
  BY <1>1, Constants, ModSmall
<1> QED
  BY <1>2, <1>3, <1>4, <1>5, Constants DEF Used

\* What a callback leaves in the ring, and how far it moves each end, measured
\* from the old mReadPos.
LEMMA CaptureWindow ==
    ASSUME CountersOK, Used <= Capacity, NEW n \in Burst, Capture(n)
    PROVE  LET keep == IF Used + n > Capacity THEN Capacity ELSE Used + n
           IN  /\ Used' = keep
               /\ (mReadPos' - mReadPos) % WordSize = Used + n - keep
               /\ (mWritePos' - mReadPos) % WordSize = Used + n
<1> DEFINE keep == IF Used + n > Capacity THEN Capacity ELSE Used + n
           end == mWritePos + n
           first == mWritePos + n - keep
           old == mWritePos - Used
<1>1. n \in 1..Capacity /\ Capacity \in Nat /\ Capacity + n < WordSize
  BY Constants
<1>2. Used \in 0..Capacity /\ mWritePos \in Int /\ mReadPos = old % WordSize
  BY ReadPosition DEF CountersOK
<1>3. keep \in 0..Capacity /\ Used + n - keep \in 0..Capacity
  BY <1>1, <1>2
<1>4. mWritePos' = end % WordSize
  BY DEF Capture
<1>5. mReadPos' = first % WordSize
  <2>1. CASE Used + n > Capacity
    BY <2>1 DEF Capture, OldestKept
  <2>2. CASE ~(Used + n > Capacity)
    <3>1. first = old
      BY <2>2, <1>1, <1>2
    <3> QED
      BY <3>1, <2>2, <1>2 DEF Capture, OldestKept
  <2> QED
    BY <2>1, <2>2
<1>6. /\ end \in Int /\ first \in Int /\ old \in Int
      /\ end - first = keep /\ end - first \in 0..WordSize - 1
      /\ first - old = Used + n - keep /\ first - old \in 0..WordSize - 1
      /\ end - old = Used + n /\ end - old \in 0..WordSize - 1
  BY <1>1, <1>2, <1>3, Constants
<1> HIDE DEF end, first, old, keep
<1>7. /\ ((end % WordSize) - (first % WordSize)) % WordSize = end - first
      /\ ((first % WordSize) - (old % WordSize)) % WordSize = first - old
      /\ ((end % WordSize) - (old % WordSize)) % WordSize = end - old
  BY <1>6, Constants, ModDistance
<1>8. Used' = (mWritePos' - mReadPos') % WordSize
  BY DEF Used
<1>9. /\ Used' = keep
      /\ (mReadPos' - mReadPos) % WordSize = Used + n - keep
      /\ (mWritePos' - mReadPos) % WordSize = Used + n
  BY <1>2, <1>4, <1>5, <1>6, <1>7, <1>8
<1> QED
  BY <1>9 DEF keep

\* The sender takes a chunk out of what is in use.
LEMMA ChunkWindow ==
    ASSUME CountersOK, Used >= FrameSize,
           mReadPos' = (mReadPos + FrameSize) % WordSize, mWritePos' = mWritePos
    PROVE  /\ Used' = Used - FrameSize
           /\ (mReadPos' - mReadPos) % WordSize = FrameSize
           /\ (mWritePos' - mReadPos) % WordSize = Used
<1> DEFINE old == mWritePos - Used
           first == mWritePos - Used + FrameSize
<1>1. /\ Used \in Nat /\ mReadPos = old % WordSize
      /\ mWritePos \in 0..WordSize - 1 /\ FrameSize \in Nat
  BY ReadPosition, Constants DEF CountersOK
<1>2. Used < WordSize
  <2>1. mWritePos - mReadPos \in Int
    BY Constants DEF CountersOK
  <2> QED
    BY <2>1, InRange, Constants DEF Used
<1>3. /\ old \in Int /\ first \in Int /\ mWritePos \in Int
      /\ mWritePos - first = Used - FrameSize /\ mWritePos - first \in 0..WordSize - 1
      /\ first - old = FrameSize /\ first - old \in 0..WordSize - 1
  BY <1>1, <1>2, Constants
<1>4. mReadPos' = first % WordSize
  <2>1. old \in Int /\ FrameSize \in Int
    BY <1>1, <1>3
  <2>2. ((old % WordSize) + FrameSize) % WordSize = (old + FrameSize) % WordSize
    <3> HIDE DEF old
    <3> QED
      BY <2>1, Constants, ModPlus
  <2> QED
    BY <2>2, <1>1
<1>5. mWritePos % WordSize = mWritePos
  BY <1>1, Constants, ModSmall
<1> HIDE DEF old, first
<1>6. /\ ((mWritePos % WordSize) - (first % WordSize)) % WordSize = mWritePos - first
      /\ ((first % WordSize) - (old % WordSize)) % WordSize = first - old
  BY <1>3, Constants, ModDistance
<1> QED
  BY <1>1, <1>3, <1>4, <1>5, <1>6 DEF Used

\* The ring as long as no reset raced with another thread: RingBounded, with the
\* chunk the sender decided to copy and the half of a reset that nobody sees.
Filled ==
    /\ RingBounded
    /\ sender = "copying" /\ ~raced => Used >= FrameSize
    /\ control = "rewinding" /\ ~raced => mWritePos = 0

\* What any step but a reset does to the two positions.
LEMMA RingStep ==
    ASSUME FlagsOK, PlacesOK, CountersOK, [Next]_vars, ~Reset
    PROVE  /\ raced' = raced /\ (control' = "rewinding" <=> control = "rewinding")
           /\ \/ /\ UNCHANGED ring
                 /\ sender' = "copying" => sender = "copying" \/ Used >= FrameSize \/ raced
              \/ \E n \in Burst : Capture(n)
              \/ /\ sender = "copying" /\ sender' = "encode"
                 /\ mReadPos' = (mReadPos + FrameSize) % WordSize
                 /\ mWritePos' = mWritePos
<1> USE DEF ring, history, ControlGoes, CallbackGoes, SenderGoes
<1>1. CASE Prepare
  <2>1. control = "ready" /\ control' \in {"ready", "resetting"}
    BY <1>1 DEF Prepare
  <2>2. UNCHANGED <<ring, sender, raced>>
    BY Zenon, <1>1 DEF Prepare
  <2> QED
    BY <2>1, <2>2
<1>2. CASE Stop
  BY <1>2 DEF Stop
<1>3. CASE OpenStream \/ Launch \/ RequestStart
  BY <1>3 DEF OpenStream, Launch, RequestStart, Undo
<1>4. CASE Clear \/ NotifyStop \/ Join \/ Release
  BY <1>4 DEF Clear, NotifyStop, Notified, Join, Release
<1>5. CASE NotifyData \/ CallbackReturn \/ StreamError \/ OnErrorAfterClose
  BY <1>5 DEF NotifyData, Notified, CallbackReturn, StreamError, OnErrorAfterClose
<1>6. CASE Wait
  BY <1>6 DEF Wait
<1>7. CASE SpuriousWakeup \/ Encode \/ SendPacket
  BY <1>7 DEF SpuriousWakeup, Encode, SendPacket
<1>8. CASE \E n \in Burst : Capture(n)
  BY <1>8 DEF Capture
<1>9. CASE UNCHANGED vars
  BY <1>9 DEF vars
<1> QED
  BY <1>1, <1>2, <1>3, <1>4, <1>5, <1>6, <1>7, <1>8, <1>9 DEF Next, Control, Callback

\* A reset empties the ring, or is marked as raced.
LEMMA ResetRing ==
    ASSUME FlagsOK, PlacesOK, CountersOK, Phased, Filled, Reset
    PROVE  /\ Filled'
           /\ ~raced => (mReadPos' - mReadPos) % WordSize <= (mWritePos' - mReadPos) % WordSize
<1> USE DEF FlagsOK, ring, ControlGoes
<1>0. /\ mReadPos - mReadPos = 0 /\ 0 % WordSize = 0 /\ Capacity \in Nat
      /\ \A p \in 0..WordSize - 1 :
           (p - mReadPos) % WordSize \in Nat /\ p - mReadPos \in Int
  <2>1. \A p \in 0..WordSize - 1 : p - mReadPos \in Int
    BY Constants DEF CountersOK
  <2> QED
    BY <2>1, InRange, Constants, ModSmall DEF CountersOK
<1>1. CASE control = "resetting"
  <2>1. /\ control' = "rewinding" /\ raced' = Beside /\ mReadPos' = mReadPos
        /\ mWritePos' \in Zeroed(mWritePos, mStream = "started") /\ sender' = sender
    BY <1>1 DEF Reset
  <2>2. mWritePos' \in 0..WordSize - 1 /\ (~Beside => mWritePos' = 0)
    BY <2>1, Constants DEF Zeroed, Beside, CountersOK
  <2>3. sender = "copying" => Beside
    BY DEF Beside
  <2> QED
    BY <1>0, <2>1, <2>2, <2>3 DEF Filled, RingBounded
<1>2. CASE control = "rewinding"
  <2>1. /\ control' = "restamping" /\ raced' = (raced \/ Beside) /\ mWritePos' = mWritePos
        /\ mReadPos' \in Zeroed(mReadPos, sender = "copying" \/ mStream = "started")
        /\ sender' = sender
    BY <1>2 DEF Reset
  <2>2. CASE raced
    BY <2>1, <2>2 DEF Filled, RingBounded
  <2>3. CASE ~raced
    <3>1. ~Beside /\ mWritePos' = 0
      BY <1>2, <2>1, <2>3 DEF Phased, Filled
    <3>2. mReadPos' = 0 /\ sender' # "copying"
      BY <2>1, <3>1 DEF Zeroed, Beside
    <3>3. mWritePos' - mReadPos' = 0
      BY <3>1, <3>2
    <3>4. Used' = 0
      BY <1>0, <3>3 DEF Used
    <3>5. (mReadPos' - mReadPos) % WordSize \in Nat
      BY <1>0, <3>2, Constants
    <3> QED
      BY <1>0, <2>1, <3>1, <3>2, <3>4, <3>5 DEF Filled, RingBounded
  <2> QED
    BY <2>2, <2>3
<1>3. CASE control = "restamping"
  <2>1. /\ control' = "opening" /\ UNCHANGED <<mWritePos, mReadPos, raced>>
        /\ sender' = sender
    BY <1>3 DEF Reset
  <2>2. mWritePos \in 0..WordSize - 1
    BY DEF CountersOK
  <2> QED
    BY <1>0, <1>3, <2>1, <2>2 DEF Filled, RingBounded, Used
<1> QED
  BY <1>1, <1>2, <1>3 DEF Reset

\* The unread samples fit in the ring and its ends only move forward, measured
\* around the wrap.
LEMMA StepRing ==
    ASSUME FlagsOK, PlacesOK, CountersOK, Phased, Filled, [Next]_vars
    PROVE  /\ Filled'
           /\ ~raced => (mReadPos' - mReadPos) % WordSize <= (mWritePos' - mReadPos) % WordSize
<1>0. /\ mWritePos - mReadPos \in Int /\ mReadPos - mReadPos = 0
      /\ 0 % WordSize = 0 /\ Capacity \in Nat /\ FrameSize \in Nat
  BY Constants, ModSmall DEF CountersOK
<1>1. CASE Reset
  BY <1>1, ResetRing
<1> SUFFICES ASSUME ~Reset, ~raced
             PROVE  /\ Filled'
                    /\ (mReadPos' - mReadPos) % WordSize <= (mWritePos' - mReadPos) % WordSize
  <2>1. CASE ~Reset /\ raced
    <3>1. raced'
      BY <2>1, RingStep
    <3> QED
      BY <2>1, <3>1 DEF Filled, RingBounded
  <2> QED
    BY <1>1, <2>1
<1>2. raced' = raced /\ (control' = "rewinding" <=> control = "rewinding")
  BY RingStep
<1>3. CASE /\ UNCHANGED ring
           /\ sender' = "copying" => sender = "copying" \/ Used >= FrameSize \/ raced
  <2>1. (mWritePos - mReadPos) % WordSize \in Nat
    BY <1>0, InRange, Constants
  <2>2. mWritePos' = mWritePos /\ mReadPos' = mReadPos
    BY <1>3 DEF ring
  <2>3. Used' = Used
    BY <2>2 DEF Used
  <2> QED
    BY <1>0, <1>2, <1>3, <2>1, <2>2, <2>3 DEF Filled, RingBounded
<1>4. ASSUME NEW n \in Burst, Capture(n)
      PROVE  /\ Filled'
             /\ (mReadPos' - mReadPos) % WordSize <= (mWritePos' - mReadPos) % WordSize
  <2>1. n \in Nat /\ Used \in Nat
    BY Constants, ReadPosition
  <2>2. mStream = "started" /\ sender' # "copying"
    BY <1>4 DEF Capture
  <2>3. control # "rewinding"
    BY <2>2 DEF Phased, Beside
  <2>4. Used <= Capacity
    BY <2>3 DEF Filled, RingBounded
  <2>5. Used' <= Capacity
    BY <1>0, <1>4, <2>1, <2>4, CaptureWindow
  <2>6. (mReadPos' - mReadPos) % WordSize <= (mWritePos' - mReadPos) % WordSize
    BY <1>0, <1>4, <2>1, <2>4, CaptureWindow
  <2> QED
    BY <1>2, <2>2, <2>3, <2>5, <2>6 DEF Filled, RingBounded
<1>5. CASE /\ sender = "copying" /\ sender' = "encode"
           /\ mReadPos' = (mReadPos + FrameSize) % WordSize /\ mWritePos' = mWritePos
  <2>1. Used \in Nat /\ Used >= FrameSize /\ control # "rewinding"
    BY <1>5, ReadPosition DEF Filled, Phased, Beside
  <2>2. /\ Used' = Used - FrameSize
        /\ (mReadPos' - mReadPos) % WordSize <= (mWritePos' - mReadPos) % WordSize
    BY <1>0, <1>5, <2>1, ChunkWindow
  <2>3. Used' <= Capacity
    BY <1>0, <2>1, <2>2 DEF Filled, RingBounded
  <2> QED
    BY <1>2, <1>5, <2>1, <2>2, <2>3 DEF Filled, RingBounded
<1> QED
  BY <1>3, <1>4, <1>5, RingStep

\* A new ring is empty.
LEMMA InitRing == Init => Filled
BY Constants, ModSmall DEF Init, Filled, RingBounded, Used

\* The ring is filled as it should be in every reachable state.
LEMMA AlwaysFilled == Spec => [](TypeOK /\ Phased /\ Filled)
<1>1. TypeOK /\ Phased /\ Filled /\ [Next]_vars => Filled'
  BY StepRing, TypeParts
<1> QED
  BY <1>1, InitType, StepType, InitRing, PTL DEF Spec

\* No unread sample is overwritten, for every burst and every interleaving of
\* the callback and the sender, unless start resets the ring beside what an
\* error left running of the stream before.
THEOREM AlwaysBounded == Spec => []RingBounded
<1>1. Filled => RingBounded
  BY DEF Filled
<1> QED
  BY <1>1, AlwaysFilled, PTL

\* Making room and taking chunks out only ever move mReadPos forward, and so
\* does a reset, save the one that raced.
THEOREM AlwaysInOrder == Spec => InCaptureOrder
<1>1. TypeOK /\ Phased /\ Filled /\ [Next]_vars =>
        [~raced => (mReadPos' - mReadPos) % WordSize <= (mWritePos' - mReadPos) % WordSize]_vars
  BY StepRing, TypeParts
<1> QED
  BY <1>1, AlwaysFilled, PTL DEF Spec, InCaptureOrder
----------------------------------------------------------------------------

\* The samples the sender has copied out and not yet counted.
InHand == IF sender \in {"encode", "send"} THEN FrameSize ELSE 0

\* The clock of the sender and what was given up add up to mReadPos; a start
\* sets all of them before there is a sender.
Stamped ==
    ~failed => /\ sender # "none" => (mTimestamp + lost + InHand) % WordSize = mReadPos
               /\ control \in {"restamping", "opening", "launching"} => mReadPos = 0
               /\ control \in {"opening", "launching"} => mTimestamp = 0 /\ lost = 0

\* A new streamer has given nothing up.
LEMMA InitStamped == Init => Stamped
BY DEF Init, Stamped

\* A counter that is reduced after an addition adds up as if it were not.
LEMMA Reduced ==
    ASSUME NEW a \in Int, NEW b \in Int, NEW c \in Int
    PROVE  (a + (b % WordSize) + c) % WordSize = (a + b + c) % WordSize
<1> DEFINE d == a + c
<1>1. d \in Int /\ b % WordSize \in Int
  BY InRange
<1>2. ((b % WordSize) + d) % WordSize = (b + d) % WordSize
  <2> HIDE DEF d
  <2> QED
    BY <1>1, Constants, ModPlus
<1>3. (b % WordSize) + d = a + (b % WordSize) + c /\ b + d = a + b + c
  BY <1>1
<1> QED
  BY <1>2, <1>3

\* The samples a callback gives up are the ones mReadPos passes.
LEMMA StampedCapture ==
    ASSUME FlagsOK, PlacesOK, CountersOK, Phased, Ordered, Stamped,
           NEW n \in Burst, Capture(n)
    PROVE  Stamped'
<1> DEFINE kept == OldestKept(n)
           sum == mTimestamp + lost + InHand
           gone == kept - mReadPos
<1>1. n \in Int /\ Capacity \in Int /\ FrameSize \in Int
  BY Constants
<1>2. kept \in 0..WordSize - 1 /\ mReadPos \in Int /\ mTimestamp \in Int /\ lost \in Int
  BY <1>1, InRange DEF OldestKept, CountersOK
<1>3. /\ mReadPos' = kept /\ mTimestamp' = mTimestamp /\ mStream = "started"
      /\ lost' = (lost + kept - mReadPos) % WordSize
      /\ sender' = sender /\ failed' = failed /\ control' = control /\ InHand' = InHand
  BY DEF Capture, InHand
<1>4. InHand \in Int
  BY <1>1 DEF InHand
<1> SUFFICES ASSUME ~failed, sender # "none"
             PROVE  (mTimestamp' + lost' + InHand') % WordSize = kept
  BY <1>3 DEF Stamped, Phased, Ordered, Whole, Preparing
<1>5. sum \in Int /\ gone \in Int /\ sum % WordSize = mReadPos
  BY <1>2, <1>4 DEF Stamped
<1>6. (mTimestamp' + lost' + InHand') % WordSize
        = (mTimestamp + (lost + kept - mReadPos) + InHand) % WordSize
  <2> DEFINE x == lost + kept - mReadPos
  <2>1. x \in Int
    BY <1>2
  <2>2. lost' = x % WordSize /\ mTimestamp' = mTimestamp /\ InHand' = InHand
    BY <1>3
  <2> HIDE DEF x
  <2>3. (mTimestamp + (x % WordSize) + InHand) % WordSize = (mTimestamp + x + InHand) % WordSize
    BY <2>1, <1>2, <1>4, Reduced
  <2> QED
    BY <2>2, <2>3 DEF x
<1>7. mTimestamp + (lost + kept - mReadPos) + InHand = sum + gone
  BY <1>2, <1>4
<1>8. (sum + gone) % WordSize = (mReadPos + gone) % WordSize
  <2> HIDE DEF sum, gone
  <2> QED
    BY <1>5, Constants, ModPlus
<1>9. mReadPos + gone = kept /\ kept % WordSize = kept
  BY <1>2, Constants, ModSmall
<1> QED
  BY <1>6, <1>7, <1>8, <1>9

\* A chunk is in hand from the copy until it is given up or counted.
LEMMA StampedSender ==
    ASSUME FlagsOK, PlacesOK, CountersOK, Ordered, Stamped,
           Wait \/ SpuriousWakeup \/ Encode \/ SendPacket
    PROVE  Stamped'
<1> USE DEF SenderGoes, resources, ring, history
<1>1. /\ FrameSize \in Int /\ mReadPos \in 0..WordSize - 1
      /\ mTimestamp \in Int /\ lost \in Int
  BY Constants DEF CountersOK
<1>2. /\ sender # "none" /\ UNCHANGED <<control, failed, mStream>>
  BY DEF Wait, SpuriousWakeup, Encode, SendPacket
<1> SUFFICES ASSUME ~failed
             PROVE  (mTimestamp' + lost' + InHand') % WordSize = mReadPos'
  BY <1>2 DEF Stamped, Ordered, Whole, Preparing
<1>3. (mTimestamp + lost + InHand) % WordSize = mReadPos
  BY <1>2 DEF Stamped
<1>4. CASE Wait
  <2>1. CASE mReadPos' = mReadPos /\ InHand' = InHand
    BY <1>3, <1>4, <2>1 DEF Wait
  <2>2. CASE mReadPos' = (mReadPos + FrameSize) % WordSize /\ InHand = 0 /\ InHand' = FrameSize
    <3> DEFINE sum == mTimestamp + lost
    <3>1. sum \in Int /\ sum % WordSize = mReadPos
      BY <1>1, <1>3, <2>2
    <3>2. (sum + FrameSize) % WordSize = (mReadPos + FrameSize) % WordSize
      <4> HIDE DEF sum
      <4> QED
        BY <1>1, <3>1, Constants, ModPlus
    <3> QED
      BY <1>4, <2>2, <3>2 DEF Wait
  <2> QED
    BY <1>4, <2>1, <2>2 DEF Wait, InHand
<1>5. CASE SpuriousWakeup
  BY <1>3, <1>5 DEF SpuriousWakeup, InHand
<1>6. CASE Encode
  <2>1. CASE sender' = "send" /\ lost' = lost
    BY <1>3, <1>6, <2>1 DEF Encode, InHand
  <2>2. CASE sender' = "top" /\ lost' = (lost + FrameSize) % WordSize
    <3>1. lost + FrameSize \in Int
      BY <1>1
    <3>2. (mTimestamp + ((lost + FrameSize) % WordSize) + 0) % WordSize
            = (mTimestamp + (lost + FrameSize) + 0) % WordSize
      BY <1>1, <3>1, Reduced
    <3>3. /\ InHand = FrameSize /\ InHand' = 0
          /\ mTimestamp' = mTimestamp /\ mReadPos' = mReadPos
      BY <1>6, <2>2 DEF Encode, InHand
    <3>4. mTimestamp + (lost + FrameSize) + 0 = mTimestamp + lost + InHand
      BY <1>1, <3>3
    <3> QED
      BY <1>3, <2>2, <3>2, <3>3, <3>4
  <2> QED
    BY <1>6, <2>1, <2>2 DEF Encode
<1>7. CASE SendPacket
  <2>1. mTimestamp + FrameSize \in Int
    BY <1>1
  <2>2. (lost + ((mTimestamp + FrameSize) % WordSize) + 0) % WordSize
          = (lost + (mTimestamp + FrameSize) + 0) % WordSize
    BY <1>1, <2>1, Reduced
  <2>3. /\ InHand = FrameSize /\ InHand' = 0 /\ lost' = lost /\ mReadPos' = mReadPos
        /\ mTimestamp' = (mTimestamp + FrameSize) % WordSize
    BY <1>7 DEF SendPacket, InHand, CountSamples
  <2>4. mTimestamp' \in Int
    BY <2>1, <2>3, InRange
  <2>5. /\ lost + (mTimestamp + FrameSize) + 0 = mTimestamp + lost + InHand
        /\ lost + mTimestamp' + 0 = mTimestamp' + lost' + InHand'
    BY <1>1, <2>3, <2>4
  <2> QED
    BY <1>3, <2>2, <2>3, <2>5
<1> QED
  BY <1>4, <1>5, <1>6, <1>7

\* Every action keeps the sum.
LEMMA StepStamped ==
    ASSUME FlagsOK, PlacesOK, CountersOK, Phased, Ordered, Stamped, [Next]_vars
    PROVE  Stamped'
<1> USE DEF Stamped, InHand, ring, history, resources, ControlGoes, CallbackGoes, Alive
<1>1. CASE Prepare
  <2>1. control' \in {"ready", "resetting"} /\ (~failed' => sender' = "none")
    BY Zenon, <1>1 DEF Prepare, Ordered, Whole, Preparing
  <2> QED
    BY <2>1
<1>2. CASE Reset \/ OpenStream
  <2>1. CASE Reset
    <3>1. ~failed => sender = "none" /\ mStream = "none"
      BY <2>1 DEF Reset, Ordered, Whole, Preparing
    <3> QED
      BY <2>1, <3>1 DEF Reset, Zeroed
  <2>2. CASE OpenStream
    BY <2>2 DEF OpenStream
  <2> QED
    BY <1>2, <2>1, <2>2
<1>3. CASE Launch
  BY <1>3, Constants, ModSmall DEF Launch
<1>4. CASE RequestStart
  BY <1>4 DEF RequestStart, Undo
<1>5. CASE Stop \/ Clear
  BY <1>5 DEF Stop, Clear
<1>6. CASE NotifyStop
  BY <1>6 DEF NotifyStop, Notified
<1>7. CASE Join \/ Release
  BY <1>7 DEF Join, Release, Phased, PhasesOK
<1>8. CASE \E n \in Burst : Capture(n)
  BY <1>8, StampedCapture
<1>9. CASE NotifyData
  BY <1>9 DEF NotifyData, Notified
<1>10. CASE CallbackReturn
  BY <1>10 DEF CallbackReturn
<1>11. CASE StreamError
  BY <1>11 DEF StreamError
<1>12. CASE OnErrorAfterClose
  BY <1>12 DEF OnErrorAfterClose, Ordered
<1>13. CASE Wait \/ SpuriousWakeup \/ Encode \/ SendPacket
  BY <1>13, StampedSender
<1>14. CASE UNCHANGED vars
  BY <1>14 DEF vars
<1> QED
  BY <1>1, <1>2, <1>3, <1>4, <1>5, <1>6, <1>7, <1>8, <1>9, <1>10, <1>11, <1>12, <1>13,
     <1>14 DEF Next, Control, Callback

\* Timestamps lag the capture by what was given up and by nothing else,
\* although three threads advance the counters and all of them wrap.
THEOREM AlwaysLagsByLoss == Spec => []StampLagsByLoss
<1>1. TypeOK /\ Phased /\ Ordered /\ Stamped /\ [Next]_vars => Stamped'
  BY StepStamped, TypeParts
<1>2. TypeOK /\ Phased /\ Ordered /\ [Next]_vars => Ordered'
  BY StepOrdered, TypeParts
<1>3. Stamped => StampLagsByLoss
  BY DEF Stamped, StampLagsByLoss, InHand
<1> QED
  BY <1>1, <1>2, <1>3, InitType, StepType, InitOrdered, InitStamped, PTL DEF Spec
=============================================================================
