-------------------------- MODULE DropOldestQueue --------------------------
(***************************************************************************)
(* What pcm_ring.h promises the two threads that share a ring of decoded   *)
(* audio: a FIFO of samples that never blocks and never grows past the     *)
(* depth of the latest write.  A write that would make it deeper drops the *)
(* oldest samples; a read delivers the oldest ones and pads with silence.  *)
(* The order of samples is never changed and no sample is delivered twice. *)
(***************************************************************************)
EXTENDS Integers, Sequences

CONSTANTS
    Sample,     \* the values of one PCM sample
    Silence,    \* the sample value 0
    Capacity,   \* hard limit of the queue
    MaxBlock,   \* longest block one write pushes or one read asks for
    Depth       \* the adaptive depths a writer may ask for

VARIABLES
    queue,      \* samples accepted and not yet played, oldest first
    out         \* the buffer the latest read filled

qvars == <<queue, out>>

Block == UNION {[1..n -> Sample] : n \in 0..MaxBlock}

\* The last d elements of s (all of s when it is not longer than d).
LastN(s, d) == IF Len(s) <= d THEN s ELSE SubSeq(s, Len(s) - d + 1, Len(s))

Lesser(a, b) == IF a < b THEN a ELSE b

\* What a read of n samples puts in the caller's buffer when k are available.
Padded(s, k, n) == [i \in 1..n |-> IF i <= k THEN s[i] ELSE Silence]

\* The queue q after s is pushed within a depth, and after n samples are read.
Pushed(q, s, depth) == LastN(q \o s, Lesser(depth, Capacity))
Popped(q, n) == SubSeq(q, Lesser(n, Len(q)) + 1, Len(q))

Init ==
    /\ queue = <<>>
    /\ out = <<>>

Push(s, depth) ==
    /\ queue' = Pushed(queue, s, depth)
    /\ UNCHANGED out

Pop(n) ==
    /\ out' = Padded(queue, Lesser(n, Len(queue)), n)
    /\ queue' = Popped(queue, n)

\* The reader found the queue in use: silence, and nothing is consumed.
PopContended(n) ==
    /\ out' = Padded(queue, 0, n)
    /\ UNCHANGED queue

Next ==
    \/ \E s \in Block, depth \in Depth : Push(s, depth)
    \/ \E n \in 0..MaxBlock : Pop(n) \/ PopContended(n)

Spec == Init /\ [][Next]_qvars
============================================================================
