------------------------------- MODULE Jitter -------------------------------
(***************************************************************************)
(* The adaptive jitter buffer of the daemon, pc-daemon/src/jitter.c: what  *)
(* the network thread does with one packet (late drop, resync, concealment *)
(* of a gap, decoding), frame by frame, while the realtime callback plays  *)
(* from the ring in between.                                               *)
(*                                                                         *)
(* The ring is the queue PcmRing implements, with a decoded frame as its   *)
(* sample: every frame of a stream has the same number of samples.  The    *)
(* jitter estimate is abstracted to the depths it may call for; the stat_  *)
(* counters, which nothing reads, are left out.                            *)
(***************************************************************************)
EXTENDS Integers, Sequences

CONSTANTS
    SeqSize,        \* 2^32: sequence numbers are uint32_t
    MaxConcealed,   \* MAX_CONCEALED_IN_A_ROW
    FirstDepth,     \* target depth of a new session, in frames
    MaxDepth,       \* upper clamp of the target depth
    Estimate,       \* depths (3 * jitter_estimate / frame_size) may come to
    RecalcEvery,    \* packets between two recalculations of the depth
    RingFrames,     \* frames the ring has room for
    MaxRead         \* longest read of the callback, in frames

ASSUME JitterAssumption ==
    /\ SeqSize \in Nat /\ SeqSize % 2 = 0
    /\ MaxConcealed \in 1..SeqSize \div 2 - 1
    /\ MaxDepth \in Nat \ {0}
    /\ FirstDepth \in 1..MaxDepth
    /\ Estimate \subseteq Int
    /\ RecalcEvery \in Nat \ {0}
    /\ RingFrames \in Nat /\ RingFrames >= MaxDepth
    /\ MaxRead \in Nat

VARIABLES
    have_seq, next_seq,
    have_arrival,           \* last_arrival_ns # 0
    target_depth_frames, packets_since_recalc,
    packet,                 \* seq of the packet in jitter_on_packet, or NoPacket
    gap,                    \* frames it still has to conceal first
    ring,                   \* decoded frames waiting in the PCM ring
    broken                  \* history: the timeline jumped after the last frame

sequencing == <<have_seq, next_seq, packet, gap, broken>>
adaptation == <<have_arrival, target_depth_frames, packets_since_recalc>>
vars == <<sequencing, adaptation, ring>>

Seq32 == 0..SeqSize - 1
NoPacket == -1

\* A frame of decoded audio: the slot of the stream it fills, how it was made,
\* and whether it fills the slot right after that of the frame before it.
Frame == [seq : Seq32, made : {"decoded", "concealed"}, follows : BOOLEAN]

Queue == INSTANCE DropOldestQueue
    WITH queue <- ring, out <- <<>>, Sample <- Frame, Silence <- 0,
         Capacity <- RingFrames, MaxBlock <- MaxRead, Depth <- 1..MaxDepth

TypeOK ==
    /\ have_seq \in BOOLEAN
    /\ next_seq \in Seq32
    /\ have_arrival \in BOOLEAN
    /\ target_depth_frames \in 1..MaxDepth
    /\ packets_since_recalc \in 0..RecalcEvery - 1
    /\ packet \in Seq32 \cup {NoPacket}
    /\ gap \in 0..MaxConcealed
    /\ ring \in Seq(Frame) /\ Len(ring) <= RingFrames
    /\ broken \in BOOLEAN

----------------------------------------------------------------------------

Init ==
    /\ have_seq = FALSE /\ next_seq = 0
    /\ have_arrival = FALSE
    /\ target_depth_frames = FirstDepth /\ packets_since_recalc = 0
    /\ packet = NoPacket /\ gap = 0
    /\ broken = TRUE
    /\ ring = <<>>

\* jitter_destroy, then jitter_init, when a format is announced again: all
\* is cleared but the ring, which belongs to the caller.
Restart ==
    /\ packet = NoPacket /\ UNCHANGED <<packet, gap>>
    /\ have_seq' = FALSE /\ next_seq' = 0
    /\ have_arrival' = FALSE
    /\ target_depth_frames' = FirstDepth /\ packets_since_recalc' = 0
    /\ broken' = TRUE
    /\ UNCHANGED ring

\* A difference of sequence numbers read as an int32_t (mutant: as a uint32_t).
Unsigned(d) == d % SeqSize
Signed(d) ==
    LET m == d % SeqSize
    IN  IF m < SeqSize \div 2 THEN m ELSE m - SeqSize

\* How many slots seq is ahead of the next expected one; the first packet
\* of a session is the expected one, whatever its number.
Ahead(seq) == IF have_seq THEN Signed(seq - next_seq) ELSE 0

\* Mutant: the upper clamp is missing.
ClampBelow(frames) == IF frames < 1 THEN 1 ELSE frames
Clamp(frames) ==
    IF frames < 1 THEN 1 ELSE IF frames > MaxDepth THEN MaxDepth ELSE frames

\* update_jitter_estimate: the first packet only sets the reference.
UpdateEstimate ==
    /\ have_arrival' = TRUE
    /\ \/ /\ ~have_arrival
          /\ UNCHANGED <<target_depth_frames, packets_since_recalc>>
       \/ /\ have_arrival
          /\ packets_since_recalc + 1 < RecalcEvery
          /\ packets_since_recalc' = packets_since_recalc + 1
          /\ UNCHANGED target_depth_frames
       \/ /\ have_arrival
          /\ packets_since_recalc + 1 >= RecalcEvery
          /\ packets_since_recalc' = 0
          /\ \E frames \in Estimate : target_depth_frames' = Clamp(frames)

\* What jitter_on_packet does with every packet before it looks at the gap.
Receive ==
    /\ packet = NoPacket
    /\ UpdateEstimate
    /\ have_seq' = TRUE
    /\ UNCHANGED ring

\* gap < 0: too late relative to what was already queued for playing.
DropLate(seq) ==
    /\ Receive
    /\ Ahead(seq) < 0
    /\ UNCHANGED <<next_seq, packet, gap, broken>>

\* gap > MAX_CONCEALED_IN_A_ROW: a jump too long to conceal.
Resync(seq) ==
    /\ Receive
    /\ Ahead(seq) > MaxConcealed
    /\ next_seq' = seq
    /\ packet' = seq
    /\ gap' = 0
    /\ broken' = TRUE

\* Mutant: one missing frame of a gap is not concealed.
MissingLess(seq) == IF Ahead(seq) > 1 THEN Ahead(seq) - 1 ELSE Ahead(seq)
Missing(seq) == Ahead(seq)

\* The packet comes next, after `gap` frames to conceal.
Accept(seq) ==
    /\ Receive
    /\ Ahead(seq) \in 0..MaxConcealed
    /\ next_seq' = IF have_seq THEN next_seq ELSE seq
    /\ packet' = seq
    /\ gap' = Missing(seq)
    /\ UNCHANGED broken

\* Mutant: the target depth is not passed to the ring.
DepthIgnored == MaxDepth
DepthPassed == target_depth_frames

\* pcm_ring_write of the frame that fills the slot seq.
PushFrame(seq, made) ==
    /\ LET frame == [seq |-> seq, made |-> made, follows |-> ~broken]
       IN  ring' = Queue!Pushed(ring, <<frame>>, DepthPassed)
    /\ broken' = FALSE

\* Mutant: the position advances twice.
AfterNext(seq) == (seq + 2) % SeqSize
After(seq) == (seq + 1) % SeqSize

\* conceal_one_frame and the loop around it.  When the decoder cannot conceal
\* the slot stays empty.
Conceal ==
    /\ packet # NoPacket /\ gap > 0
    /\ \/ PushFrame(next_seq, "concealed")
       \/ broken' = TRUE /\ UNCHANGED ring
    /\ next_seq' = After(next_seq)
    /\ gap' = gap - 1
    /\ UNCHANGED <<have_seq, packet, adaptation>>

\* decode_and_push of the packet itself, then the return.
Decode ==
    /\ packet # NoPacket /\ gap = 0
    /\ \/ PushFrame(packet, "decoded")
       \/ broken' = TRUE /\ UNCHANGED ring
    /\ next_seq' = After(packet)
    /\ packet' = NoPacket
    /\ UNCHANGED <<have_seq, gap, adaptation>>

\* The realtime callback.  When it finds the ring locked it takes nothing.
Play(n) ==
    /\ ring' = Queue!Popped(ring, n)
    /\ UNCHANGED <<sequencing, adaptation>>

OnPacket(seq) == DropLate(seq) \/ Resync(seq) \/ Accept(seq)

NetworkThread == (\E seq \in Seq32 : OnPacket(seq)) \/ Conceal \/ Decode \/ Restart

Next == NetworkThread \/ \E n \in 1..MaxRead : Play(n)

Spec == Init /\ [][Next]_vars

----------------------------------------------------------------------------

\* Whatever arrives - late, repeated, reordered, from beyond the wrap of the
\* counter - the stream position moves forward or stays, except on a restart.
\* A slot once passed is therefore never filled again: no frame plays twice.
NeverBackwards ==
    [][have_seq /\ have_seq' =>
         (next_seq' - next_seq) % SeqSize <= SeqSize \div 2]_vars

\* Two frames next to each other in the ring fill consecutive slots unless a
\* resync, a restart or a failed decode came between them, and the newest one
\* fills the slot before next_seq: concealment leaves no hole and no overlap.
RingGapless ==
    LET n == Len(ring)
    IN  /\ \A i \in 2..n : ring[i].follows =>
                              ring[i].seq = (ring[i - 1].seq + 1) % SeqSize
        /\ n > 0 /\ ~broken => next_seq = (ring[n].seq + 1) % SeqSize

\* However wrong the jitter estimate, the audio waiting to be played never
\* exceeds the deepest target, so neither does the latency it adds.
LatencyBounded == Len(ring) <= MaxDepth

\* The latency also follows the estimate down: a frame is only ever added
\* within the depth that is in force when it is written.
DepthInForce ==
    [][Len(ring') >= Len(ring) /\ ring' # ring =>
         Len(ring') <= target_depth_frames]_vars
=============================================================================
