------------------------------ MODULE Streamer ------------------------------
(***************************************************************************)
(* The capture side in the phone, streamer.cpp: the control thread (start  *)
(* and stop), the sender thread, the realtime audio callback and the error *)
(* callback of the audio stream, with the ring, the mutex, the condition   *)
(* variable and the flag mRunning they share.                              *)
(*                                                                         *)
(* Positions count samples and are never reduced, so they wrap at WordSize *)
(* and a position is also the place of its sample in the recording.        *)
(* A critical section under mMutex is one action of the callback and two   *)
(* of the sender: it decides, then it waits or copies a chunk out.  start  *)
(* resets the ring without mMutex, one position after the other, so what   *)
(* an error left running of the stream before may see it half done.        *)
(***************************************************************************)
EXTENDS Integers

CONSTANTS
    FrameSize,      \* kFrameSize * kChannels: samples in a packet
    Capacity,       \* samples in the ring
    Burst,          \* numFrames of a callback
    WordSize        \* 2^32: mTimestamp is a uint32_t, size_t as wide or wider

ASSUME StreamerAssumption ==
    /\ FrameSize \in Nat \ {0}
    /\ Capacity \in Nat /\ FrameSize <= Capacity
    /\ Burst \subseteq 1..Capacity
    /\ WordSize \in Nat \ {0} /\ WordSize % Capacity = 0
    /\ \A n \in Burst : Capacity + n < WordSize

VARIABLES
    useTcp,
    control,        \* where start or stop is
    mRunning,
    mStream,        \* the Oboe stream
    mEncoder,       \* an encoder exists
    mSocketFd,      \* a socket is open
    sender,         \* where the sender thread is; "none" when not joinable
    callback,       \* where the audio callback is
    erring,         \* where onErrorAfterClose is
    mWritePos, mReadPos, mTimestamp,
    lost,           \* history: samples of the stream that were given up so far
    failed,         \* history: an error closed a stream that was not stopped yet
    raced           \* history: start reset the ring beside a thread that used it

ring == <<mWritePos, mReadPos>>
history == <<lost, failed, raced>>
resources == <<mStream, mEncoder, mSocketFd>>
vars == <<useTcp, control, mRunning, resources, sender, callback, erring,
          ring, mTimestamp, history>>

\* stop passes its join only when the flag is down and the sender gone; a ring
\* that was reset beside another thread is never streamed from.
TypeOK ==
    /\ {useTcp, mRunning, mEncoder, mSocketFd, failed, raced} \subseteq BOOLEAN
    /\ control \in {"ready", "resetting", "rewinding", "restamping", "opening",
                    "launching", "requesting", "stopping", "notifying", "joining",
                    "releasing", "terminated"}
    /\ mStream \in {"none", "open", "started", "halted", "closed"}
    /\ sender \in {"none", "top", "locked", "falling", "asleep", "copying",
                   "encode", "send", "done"}
    /\ callback \in {"out", "notify", "return"}
    /\ erring \in {"no", "clear", "notify"}
    /\ {mWritePos, mReadPos, mTimestamp, lost} \subseteq 0..WordSize - 1
    /\ control \in {"notifying", "joining", "releasing"} => ~mRunning
    /\ control = "releasing" => sender = "none"
    /\ raced /\ mRunning => control = "terminated"

Init ==
    /\ useTcp = FALSE
    /\ control = "ready" /\ mRunning = FALSE
    /\ mStream = "none" /\ mEncoder = FALSE /\ mSocketFd = FALSE
    /\ sender = "none" /\ callback = "out" /\ erring = "no"
    /\ mWritePos = 0 /\ mReadPos = 0 /\ mTimestamp = 0
    /\ lost = 0 /\ failed = FALSE /\ raced = FALSE

Used == (mWritePos - mReadPos) % WordSize

\* Assigning to a joinable thread ended the process.
Alive == control # "terminated"

ControlGoes(from, to) == control = from /\ control' = to
CallbackGoes(from, to) == Alive /\ callback = from /\ callback' = to
SenderGoes(from, to) == Alive /\ sender = from /\ sender' = to

----------------------------------------------------------------------------
\* start

\* The socket, the format announcement and the encoder; any of the three may
\* fail.  A start while running returns true at once.
Prepare ==
    /\ ~mRunning
    /\ \/ /\ ControlGoes("ready", "resetting")
          /\ mSocketFd' = TRUE /\ mEncoder' = TRUE /\ useTcp' \in BOOLEAN
       \/ /\ ControlGoes("ready", "ready")
          /\ mSocketFd' = FALSE /\ mEncoder' \in {mEncoder, FALSE} /\ useTcp' \in BOOLEAN
    /\ UNCHANGED <<mRunning, mStream, sender, callback, erring, ring, mTimestamp, history>>

\* An error left a sender that still uses the ring (one that is past it ends at
\* the head of its loop), or a late error callback left a stream running.
Beside == sender \in {"locked", "falling", "asleep", "copying"} \/ mStream = "started"

\* The values a position takes when it is set to 0 without mMutex: what another
\* thread stores at the same time may overwrite the 0.
Zeroed(position, beside) == IF beside THEN {0, position} ELSE {0}

\* mWritePos, mReadPos and mTimestamp are reset, one after the other.
Reset ==
    /\ \/ /\ ControlGoes("resetting", "rewinding")
          /\ mWritePos' \in Zeroed(mWritePos, mStream = "started")
          /\ raced' = Beside
          /\ UNCHANGED <<mReadPos, mTimestamp, lost>>
       \/ /\ ControlGoes("rewinding", "restamping")
          /\ mReadPos' \in Zeroed(mReadPos, sender = "copying" \/ mStream = "started")
          /\ raced' = (raced \/ Beside)
          /\ UNCHANGED <<mWritePos, mTimestamp, lost>>
       \/ /\ ControlGoes("restamping", "opening")
          /\ mTimestamp' \in Zeroed(mTimestamp, sender = "send")
          /\ lost' = 0
          /\ UNCHANGED <<ring, raced>>
    /\ UNCHANGED <<useTcp, mRunning, resources, sender, callback, erring, failed>>

OpenStream ==
    /\ \/ /\ ControlGoes("opening", "launching")
          /\ mStream' = "open"
          /\ UNCHANGED <<mEncoder, mSocketFd>>
       \/ /\ ControlGoes("opening", "ready")
          /\ mEncoder' = FALSE /\ mSocketFd' = FALSE
          /\ UNCHANGED mStream
    /\ UNCHANGED <<useTcp, mRunning, sender, callback, erring, ring, mTimestamp, history>>

\* mRunning is set and mSenderThread assigned: assigning to a thread that can
\* still be joined ends the process.
Launch ==
    /\ mRunning' = TRUE
    /\ \/ sender = "none" /\ ControlGoes("launching", "requesting") /\ sender' = "top"
       \/ sender # "none" /\ ControlGoes("launching", "terminated") /\ UNCHANGED sender
    /\ UNCHANGED <<useTcp, resources, callback, erring, ring, mTimestamp, history>>

\* Mutant: a failed requestStart is not followed by stop.
Only == "ready"
Undo == "stopping"

\* requestStart; when it fails start calls stop.
RequestStart ==
    /\ \/ ControlGoes("requesting", "ready") /\ mStream' = "started"
       \/ ControlGoes("requesting", Undo) /\ UNCHANGED mStream
    /\ UNCHANGED <<useTcp, mRunning, mEncoder, mSocketFd, sender, callback, erring,
                   ring, mTimestamp, history>>

----------------------------------------------------------------------------
\* stop

\* The calls of stop: at any time, also when nothing runs.
Stop ==
    /\ ControlGoes("ready", "stopping")
    /\ UNCHANGED <<useTcp, mRunning, resources, sender, callback, erring, ring, mTimestamp, history>>

\* Mutant: nobody is notified.
NobodyNotified == sender

\* notify_all and notify_one: only a thread that waits is woken.
Notified == IF sender = "asleep" THEN "locked" ELSE sender

\* mRunning.exchange(false); mMutex is not held.
Clear ==
    /\ mRunning' = FALSE
    /\ ControlGoes("stopping", "notifying")
    /\ UNCHANGED <<useTcp, resources, sender, callback, erring, ring, mTimestamp, history>>

\* mCv.notify_all, without mMutex either.
NotifyStop ==
    /\ sender' = Notified
    /\ ControlGoes("notifying", "joining")
    /\ UNCHANGED <<useTcp, mRunning, resources, callback, erring, ring, mTimestamp, history>>

\* Mutant: the sender thread is not joined.
NoJoin ==
    /\ ControlGoes("joining", "releasing")
    /\ UNCHANGED <<useTcp, mRunning, resources, sender, callback, erring, ring, mTimestamp, history>>

Join ==
    /\ sender \in {"none", "done"}
    /\ sender' = "none"
    /\ ControlGoes("joining", "releasing")
    /\ UNCHANGED <<useTcp, mRunning, resources, callback, erring, ring, mTimestamp, history>>

\* The stream is stopped, which waits for its callback; then the rest goes.
Release ==
    /\ callback = "out"
    /\ ControlGoes("releasing", "ready")
    /\ mStream' = "none" /\ mEncoder' = FALSE /\ mSocketFd' = FALSE
    /\ failed' = (erring # "no")
    /\ UNCHANGED <<useTcp, mRunning, sender, callback, erring, ring, mTimestamp, lost, raced>>

----------------------------------------------------------------------------
\* The audio stream's callbacks.

\* Mutants: a full ring is not trimmed; the oldest samples are given up even
\* when there is room.
OldestAll(n) == mReadPos
OldestAlways(n) == (mWritePos + n - Capacity) % WordSize

\* The oldest sample that stays when n new ones come.
OldestKept(n) ==
    IF Used + n > Capacity THEN (mWritePos + n - Capacity) % WordSize ELSE mReadPos

\* onAudioReady under mMutex: the oldest samples make room for n new ones.
Capture(n) ==
    /\ CallbackGoes("out", "notify")
    /\ mStream = "started" /\ sender \notin {"falling", "copying"}
    /\ mWritePos' = (mWritePos + n) % WordSize
    /\ mReadPos' = OldestKept(n)
    /\ lost' = (lost + OldestKept(n) - mReadPos) % WordSize
    /\ UNCHANGED <<useTcp, control, mRunning, resources, sender, erring, mTimestamp, failed, raced>>

\* mCv.notify_one.
NotifyData ==
    /\ CallbackGoes("notify", "return")
    /\ sender' = Notified
    /\ UNCHANGED <<useTcp, control, mRunning, resources, erring, ring, mTimestamp, history>>

\* The result tells Oboe to go on, or to call no more.
CallbackReturn ==
    /\ CallbackGoes("return", "out")
    /\ mStream' = IF mStream = "started" /\ ~mRunning THEN "halted" ELSE mStream
    /\ UNCHANGED <<useTcp, control, mRunning, mEncoder, mSocketFd, sender, erring,
                   ring, mTimestamp, history>>

\* The device goes away and Oboe closes the stream.
StreamError ==
    /\ Alive /\ callback = "out" /\ erring = "no"
    /\ mStream \in {"started", "halted"}
    /\ mStream' = "closed"
    /\ erring' = "clear"
    /\ failed' = TRUE
    /\ UNCHANGED <<useTcp, control, mRunning, mEncoder, mSocketFd, sender, callback,
                   ring, mTimestamp, lost, raced>>

\* onErrorAfterClose, called by a thread of Oboe: the flag, the notification.
OnErrorAfterClose ==
    /\ Alive
    /\ \/ erring = "clear" /\ erring' = "notify" /\ mRunning' = FALSE /\ UNCHANGED sender
       \/ erring = "notify" /\ erring' = "no" /\ sender' = Notified /\ UNCHANGED mRunning
    /\ UNCHANGED <<useTcp, control, resources, callback, ring, mTimestamp, history>>

----------------------------------------------------------------------------
\* senderThreadFn

\* The head of the loop; the wait with its predicate, which may hold or not
\* when start resets what it reads; a chunk copied out.
Wait ==
    /\ \/ SenderGoes("top", IF mRunning THEN "locked" ELSE "done") /\ UNCHANGED mReadPos
       \/ /\ Used < FrameSize \/ raced
          /\ SenderGoes("locked", IF mRunning THEN "falling" ELSE "done")
          /\ UNCHANGED mReadPos
       \/ /\ Used >= FrameSize \/ raced
          /\ SenderGoes("locked", "copying")
          /\ UNCHANGED mReadPos
       \/ /\ SenderGoes("copying", "encode")
          /\ mReadPos' = (mReadPos + FrameSize) % WordSize
       \/ SenderGoes("falling", "asleep") /\ UNCHANGED mReadPos
    /\ UNCHANGED <<useTcp, control, mRunning, resources, callback, erring, mWritePos,
                   mTimestamp, history>>

\* A condition variable may wake a thread for no reason.
SpuriousWakeup ==
    /\ SenderGoes("asleep", "locked")
    /\ UNCHANGED <<useTcp, control, mRunning, resources, callback, erring, ring, mTimestamp, history>>

\* opus_encode; a chunk that cannot be encoded is skipped.
Encode ==
    /\ \/ SenderGoes("encode", "send") /\ UNCHANGED lost
       \/ SenderGoes("encode", "top") /\ lost' = (lost + FrameSize) % WordSize
    /\ UNCHANGED <<useTcp, control, mRunning, resources, callback, erring, ring,
                   mTimestamp, failed, raced>>

\* Mutant: the timestamp counts packets.
CountPackets == 1
CountSamples == FrameSize

\* The packet goes out, or not; mTimestamp advances either way.
SendPacket ==
    /\ SenderGoes("send", "top")
    /\ mTimestamp' = (mTimestamp + CountSamples) % WordSize
    /\ UNCHANGED <<useTcp, control, mRunning, resources, callback, erring, ring, history>>

Control == Reset \/ OpenStream \/ Launch \/ RequestStart \/ Clear \/ NotifyStop \/ Join \/ Release

Callback == (\E n \in Burst : Capture(n)) \/ NotifyData \/ CallbackReturn

Next ==
    \/ Prepare \/ Stop \/ Control
    \/ Callback \/ StreamError \/ OnErrorAfterClose
    \/ Wait \/ SpuriousWakeup \/ Encode \/ SendPacket

\* A call that began goes on, the device delivers audio, the sender thread
\* runs.  When the user acts is up to the user; a send over TCP may block for
\* as long as the PC does not read.
Fairness ==
    /\ WF_vars(Control) /\ WF_vars(Callback) /\ WF_vars(OnErrorAfterClose)
    /\ WF_vars(Wait) /\ WF_vars(Encode) /\ WF_vars(SendPacket /\ ~useTcp)

Spec == Init /\ [][Next]_vars /\ Fairness

----------------------------------------------------------------------------

\* However callbacks and the sender interleave, the unread samples fit in the
\* ring: no sample is overwritten while it still waits to be sent.  Only a start
\* beside what an error left running of the stream before breaks it.
RingBounded == ~raced /\ control # "rewinding" => Used <= Capacity

\* The sender takes the samples of a stream in the order they were captured
\* and none twice: making room only ever moves mReadPos forward.
InCaptureOrder ==
    [][~raced => (mReadPos' - mReadPos) % WordSize <= (mWritePos' - mReadPos) % WordSize]_vars

\* stop takes the encoder and the socket away only when no sender uses them,
\* without a lock on either, as long as no error closed the stream by itself.
NoUseAfterFree ==
    ~failed => /\ sender = "encode" => mEncoder
               /\ sender = "send" => mSocketFd

\* Between two calls either everything runs or nothing is left of it, whichever
\* step of start failed.
AllOrNothing ==
    control = "ready" /\ ~failed =>
        IF mRunning THEN mStream = "started" /\ mEncoder /\ mSocketFd /\ sender # "none"
                    ELSE mStream = "none" /\ ~mEncoder /\ ~mSocketFd /\ sender = "none"

\* start ends the process (it assigns to a joinable mSenderThread) only after
\* an error closed the previous stream.
TerminatesOnlyAfterError == control = "terminated" => failed

\* Captured audio does not wait for a wakeup that never comes: a full frame is
\* taken by the sender, unless the stream or the process ends or a TCP send
\* blocks it.
AudioLeaves ==
    mRunning /\ Used >= FrameSize ~>
        \/ sender = "encode"
        \/ ~mRunning \/ control = "terminated"
        \/ useTcp /\ sender = "send"

\* NativeStreamer.kt: stop "Stops capture/streaming and releases the audio
\* stream"; a blocked TCP send apart, it gets there.
StopReturns ==
    control = "stopping" ~> control = "ready" \/ (useTcp /\ sender = "send")

\* A packet's timestamp is the place of its first sample in the recording less
\* what was given up before it: the sender's clock lags by the samples the ring
\* dropped and the chunks that could not be encoded, and by nothing else, until
\* an error closes the stream.
StampLagsByLoss ==
    sender # "none" /\ ~failed =>
        LET inHand == IF sender \in {"encode", "send"} THEN FrameSize ELSE 0
        IN  (mTimestamp + lost + inHand) % WordSize = mReadPos

\* PROTOCOL.md: the timestamp is the "sample count at capture time (48000 Hz
\* clock)", that is the place in the recording of the chunk the sender is about
\* to stamp.  It is not once the ring or the encoder gave anything up.
StampIsCaptureTime == sender = "copying" /\ ~failed => mTimestamp = mReadPos
=============================================================================
