------------------------------ MODULE PcmRing ------------------------------
(***************************************************************************)
(* The ring of decoded PCM samples between the daemon's network thread     *)
(* (the only writer) and the realtime audio callback (the only reader):    *)
(* pc-daemon/src/pcm_ring.c.                                               *)
(*                                                                         *)
(* Positions are size_t counters that are never reduced, so they wrap at   *)
(* WordSize; a slot is position & mask, which is position % Capacity       *)
(* because the capacity is a power of two and divides WordSize.            *)
(***************************************************************************)
EXTENDS Integers, Sequences

CONSTANTS
    Sample,     \* the values of one PCM sample
    Silence,    \* the sample value 0, which memset and calloc write
    Capacity,   \* samples in the ring
    MaxBlock,   \* longest block one call writes or reads
    Depth,      \* the max_depth_samples a writer may pass
    WordSize    \* 2^w for a size_t of w bits

ASSUME RingAssumption ==
    /\ Silence \in Sample
    /\ Capacity \in Nat \ {0}
    /\ MaxBlock \in 0..Capacity
    /\ Depth \subseteq Nat
    /\ WordSize \in Nat
    /\ WordSize % Capacity = 0
    /\ Capacity + MaxBlock < WordSize

VARIABLES
    samples,    \* r->samples
    write_pos,  \* r->write_pos
    read_pos,   \* r->read_pos
    lock,       \* who holds r->lock
    out         \* the buffer the latest pcm_ring_read_nonblock filled

vars == <<samples, write_pos, read_pos, lock, out>>

Slot == 0..Capacity - 1
Word == 0..WordSize - 1
Holder == {"free", "producer", "consumer"}
Block == UNION {[1..n -> Sample] : n \in 0..MaxBlock}

Lesser(a, b) == IF a < b THEN a ELSE b

\* write_pos - read_pos in size_t arithmetic.
used == (write_pos - read_pos) % WordSize

\* The callback's buffer is never written beyond the longest block.
TypeOK ==
    /\ samples \in [Slot -> Sample]
    /\ write_pos \in Word
    /\ read_pos \in Word
    /\ lock \in Holder
    /\ out \in Block

----------------------------------------------------------------------------

Init ==
    /\ samples = [k \in Slot |-> Silence]
    /\ write_pos = 0
    /\ read_pos = 0
    /\ lock = "free"
    /\ out = <<>>

\* Slots after n samples of s are stored from position write_pos on: slot k
\* takes the sample whose distance from write_pos is that of k.
Stored(s) ==
    [k \in Slot |-> LET i == (k - write_pos) % Capacity
                    IN  IF i < Len(s) THEN s[i + 1] ELSE samples[k]]

\* Mutants: the clamp forgets the block about to be written; the clamp is
\* not limited by the capacity; the clamp moves read_pos unconditionally.
OldestKeptLate(n, depth) ==
    IF used + n > Lesser(depth, Capacity)
    THEN (write_pos - Lesser(depth, Capacity)) % WordSize ELSE read_pos
OldestUncapped(n, depth) ==
    IF used + n > depth THEN (write_pos + n - depth) % WordSize ELSE read_pos
OldestAlways(n, depth) == (write_pos + n - Lesser(depth, Capacity)) % WordSize

\* read_pos after room is made for n samples within the adaptive depth.
OldestKept(n, depth) ==
    LET max == Lesser(depth, Capacity)
    IN  IF used + n > max THEN (write_pos + n - max) % WordSize ELSE read_pos

\* pthread_mutex_lock of the writer: it waits for the reader to leave.
WriteLock ==
    /\ lock = "free"
    /\ lock' = "producer"
    /\ UNCHANGED <<samples, write_pos, read_pos, out>>

\* The body of pcm_ring_write up to the unlock.  The signal on not_empty has
\* no waiter anywhere in the daemon.
Write(s, depth) ==
    /\ lock = "producer"
    /\ read_pos' = OldestKept(Len(s), depth)
    /\ samples' = Stored(s)
    /\ write_pos' = (write_pos + Len(s)) % WordSize
    /\ lock' = "free"
    /\ UNCHANGED out

\* pthread_mutex_trylock of the reader succeeds.
ReadLock ==
    /\ lock = "free"
    /\ lock' = "consumer"
    /\ UNCHANGED <<samples, write_pos, read_pos, out>>

\* trylock fails: the callback plays n samples of silence.
ReadContended(n) ==
    /\ lock = "producer"
    /\ out' = [i \in 1..n |-> Silence]
    /\ UNCHANGED <<samples, write_pos, read_pos, lock>>

\* Mutant: a whole block of silence is appended, not what is missing of it.
PaddingWhole(n, to_copy) == n

\* The samples of silence after to_copy samples of a block of n.
Padding(n, to_copy) == n - to_copy

\* The body of pcm_ring_read_nonblock and the padding after the unlock.
Read(n) ==
    LET to_copy == Lesser(used, n)
    IN  /\ lock = "consumer"
        /\ out' = [i \in 1..to_copy + Padding(n, to_copy) |->
                       IF i <= to_copy THEN samples[(read_pos + i - 1) % Capacity]
                                       ELSE Silence]
        /\ read_pos' = (read_pos + to_copy) % WordSize
        /\ lock' = "free"
        /\ UNCHANGED <<samples, write_pos>>

Producer == WriteLock \/ \E s \in Block, depth \in Depth : Write(s, depth)

Consumer == ReadLock \/ \E n \in 0..MaxBlock : ReadContended(n) \/ Read(n)

Next == Producer \/ Consumer

Spec == Init /\ [][Next]_vars

----------------------------------------------------------------------------

\* The distance between the two positions, computed in wrapping size_t
\* arithmetic, never exceeds the array: however reads, clamps and writes of
\* different depths follow each other, no slot holds two unread samples.
WindowBounded == used <= Capacity

\* A step moves read_pos forward only, and never beyond the write_pos it
\* leaves behind: the clamp of a write drops samples but never brings one back
\* that was already played, and neither end of a call exposes an unwritten slot.
ReadNeverRewinds ==
    [][(read_pos' - read_pos) % WordSize <= (write_pos' - read_pos) % WordSize]_vars

\* The samples a reader would get next, oldest first.
unread == [i \in 1..used |-> samples[(read_pos + i - 1) % Capacity]]

Queue == INSTANCE DropOldestQueue WITH queue <- unread

\* The ring is a FIFO that drops its oldest samples at the adaptive depth: the
\* promise of pcm_ring.h, kept across wrapping positions and shared locking.
ImplementsQueue == Queue!Spec
============================================================================
