------------------------------- MODULE Framing -------------------------------
(***************************************************************************)
(* Packets over the byte stream of a TCP connection: Streamer::sendRaw     *)
(* writes a length and a packet, tcp_thread_fn reads them back, and either *)
(* may be cut anywhere.  The phone connects once per stream, and goes on   *)
(* with the next packet when a send fails.                                 *)
(*                                                                         *)
(* A byte is known by its packet and its place there: Low and High are the *)
(* bytes of the length, 1 is the magic number, the rest whatever follows.  *)
(***************************************************************************)
EXTENDS Integers, Sequences

CONSTANTS
    Size,           \* lengths of a packet: an announcement, audio
    HeaderSize,     \* MICIFY_HEADER_SIZE
    MaxPacket,      \* MICIFY_MAX_PACKET, the daemon's buffer
    MaxSent,        \* bound on the packets sent
    PipeSize        \* bytes the connection holds; send blocks beyond

ASSUME FramingAssumption ==
    /\ {HeaderSize, MaxPacket, MaxSent, PipeSize} \subseteq Nat \ {0}
    /\ MaxPacket >= 2       \* room for as much as a length
    /\ Size \subseteq HeaderSize..MaxPacket

VARIABLES
    phone,      \* its socket: "closed", "open", or "body" between two sends
    packet,     \* [id, size] of the latest packet
    pipe,       \* bytes under way
    ended,      \* none follows them: the connection is closed or lost
    reader,     \* where tcp_thread_fn is: "accept", "length" or "body"
    want, buf,  \* n of read_full, and what it has got
    cut,        \* history: packets of this connection sent in part
    handed      \* history: the latest packet handled, and whether it was whole

daemon == <<reader, want, buf, handed>>
vars == <<phone, packet, pipe, ended, daemon, cut>>

Low == -1
High == 0
Packet == [id : 0..MaxSent, size : Size \cup {0}]
Byte == [of : Packet, place : Low..MaxPacket]

TypeOK ==
    /\ phone \in {"closed", "open", "body"}
    /\ packet \in Packet
    /\ pipe \in Seq(Byte) /\ Len(pipe) <= PipeSize /\ ended \in BOOLEAN
    /\ reader \in {"accept", "length", "body"} /\ want \in 1..MaxPacket
    /\ buf \in Seq(Byte) /\ Len(buf) < want
    /\ cut \subseteq 1..MaxSent
    /\ handed \in [id : 0..MaxSent, whole : BOOLEAN]

Init ==
    /\ phone = "closed" /\ packet = [id |-> 0, size |-> 0]
    /\ pipe = <<>> /\ ended = TRUE
    /\ reader = "accept" /\ want = 2 /\ buf = <<>>
    /\ cut = {} /\ handed = [id |-> 0, whole |-> TRUE]

----------------------------------------------------------------------------
\* The phone.

\* openSocket and accept, once the connection before was given up.
Connect ==
    /\ phone = "closed" /\ reader = "accept"
    /\ phone' = "open" /\ reader' = "length"
    /\ pipe' = <<>> /\ ended' = FALSE /\ cut' = {}
    /\ handed' = [id |-> packet.id, whole |-> TRUE]
    /\ UNCHANGED <<packet, want, buf>>

\* send of the bytes first..last: all of them, or fewer when it is interrupted
\* or fails.  Those of a lost connection arrive nowhere.
Send(p, first, last, sentAll) ==
    \E upto \in first - 1..last :
        /\ pipe' = pipe \o IF ended THEN <<>>
                           ELSE [i \in 1..upto - first + 1 |->
                                    [of |-> p, place |-> first + i - 1]]
        /\ Len(pipe') <= PipeSize
        /\ phone' = IF upto = last THEN sentAll ELSE "open"
        /\ cut' = IF upto = last THEN cut ELSE cut \cup {p.id}

\* sendRaw: the length of a new packet.
SendLength ==
    /\ phone = "open" /\ packet.id < MaxSent
    /\ \E size \in Size : packet' = [id |-> packet.id + 1, size |-> size]
    /\ Send(packet', Low, High, "body")
    /\ UNCHANGED <<ended, daemon>>

\* sendRaw: the packet.
SendBody ==
    /\ phone = "body"
    /\ Send(packet, 1, packet.size, "open")
    /\ UNCHANGED <<packet, ended, daemon>>

\* closeSocket.
Close ==
    /\ phone = "open"
    /\ phone' = "closed" /\ ended' = TRUE
    /\ UNCHANGED <<packet, pipe, daemon, cut>>

\* The cable is pulled: what was under way may be lost.
Break ==
    /\ ~ended
    /\ ended' = TRUE /\ pipe' \in {pipe, <<>>}
    /\ UNCHANGED <<phone, packet, daemon, cut>>

----------------------------------------------------------------------------
\* The daemon.

\* The values two bytes may have as a length: any when they do not belong together.
Lengths(low, high) ==
    IF low.of = high.of /\ low.place = Low /\ high.place = High
    THEN {low.of.size} ELSE 0..MaxPacket + 1

\* The bytes in hand when read returns n more; nothing else takes bytes.
Got(n) == buf \o SubSeq(pipe, 1, n)
Take(n) == n \in 1..Len(pipe) /\ pipe' = SubSeq(pipe, n + 1, Len(pipe))

Expect(where, n) == reader' = where /\ want' = n /\ buf' = <<>>

\* close(conn), then accept.
HangUp == Expect("accept", 2) /\ pipe' = <<>> /\ ended' = TRUE

\* handle_datagram looks at the length and the magic number only.
Handled(bytes) ==
    IF Len(bytes) >= HeaderSize /\ bytes[1].place = 1
    THEN LET p == bytes[1].of
         IN  [id |-> p.id,
              whole |-> bytes = [i \in 1..p.size |-> [of |-> p, place |-> i]]]
    ELSE handed

\* read_full goes on after a short read.
ReadSome ==
    /\ reader # "accept"
    /\ \E n \in 1..want - Len(buf) - 1 : Take(n) /\ buf' = Got(n)
    /\ UNCHANGED <<phone, packet, ended, reader, want, handed, cut>>

\* Mutant: a length beyond the buffer is accepted.
AnyLength(len) == len # 0
GoodLength(len) == len # 0 /\ len <= MaxPacket

ReadLength ==
    /\ reader = "length"
    /\ LET n == want - Len(buf)
       IN  /\ n <= Len(pipe)
           /\ \E len \in Lengths(Got(n)[1], Got(n)[2]) :
                 IF GoodLength(len) THEN Take(n) /\ Expect("body", len) /\ UNCHANGED ended
                                    ELSE HangUp
    /\ UNCHANGED <<phone, packet, handed, cut>>

ReadBody ==
    /\ reader = "body"
    /\ LET n == want - Len(buf)
       IN  Take(n) /\ handed' = Handled(Got(n))
    /\ Expect("length", 2)
    /\ UNCHANGED <<phone, packet, ended, cut>>

\* Mutant: read_full returns what it has got when the connection ends.
ReadEndShort ==
    /\ reader # "accept" /\ ended /\ pipe = <<>>
    /\ HangUp
    /\ handed' = IF reader = "body" /\ buf # <<>> THEN Handled(buf) ELSE handed
    /\ UNCHANGED <<phone, packet, cut>>

\* read_full meets the end of the connection, whatever it has got so far.
ReadEnd ==
    /\ reader # "accept" /\ ended /\ pipe = <<>>
    /\ HangUp
    /\ UNCHANGED <<phone, packet, handed, cut>>

Next ==
    \/ Connect \/ SendLength \/ SendBody \/ Close \/ Break
    \/ ReadSome \/ ReadLength \/ ReadBody \/ ReadEnd

Spec == Init /\ [][Next]_vars

----------------------------------------------------------------------------

\* Whatever is cut or lost, and however the reader falls out of step, a packet
\* that passes the daemon's checks is new, and whole unless its own send was
\* cut: what a torn packet drags along is never taken for another packet.
\* Until a send is cut, no packet of a connection is left out either.
HandedWhole ==
    [][reader = "body" /\ handed' # handed =>
         /\ handed'.id > handed.id
         /\ handed'.whole \/ handed'.id \in cut
         /\ cut = {} => handed'.id = handed.id + 1]_vars
=============================================================================
