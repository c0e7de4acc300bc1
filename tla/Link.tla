-------------------------------- MODULE Link --------------------------------
(***************************************************************************)
(* A phone, the network and the daemon's receiver: what the jitter buffer  *)
(* makes of sessions that start, stop and start again over a transport     *)
(* that may lose, repeat and reorder (UDP over Wi-Fi) or deliver in order  *)
(* what it takes (TCP through adb), while sends fail, connections break    *)
(* and the daemon itself may be restarted.                                 *)
(*                                                                         *)
(* A message carries its absolute place (session, n) besides the sequence  *)
(* number on the wire, n % SeqSize: the daemon sees only the latter.       *)
(***************************************************************************)
EXTENDS Jitter

CONSTANTS
    MaxSessions,    \* bound on the streams the phone starts
    MaxSent,        \* bound on the audio packets of one stream
    NetSize,        \* bound on the messages under way
    MaxCrashes      \* bound on the restarts of the daemon

ASSUME LinkAssumption ==
    /\ {MaxSessions, MaxSent, NetSize, MaxCrashes} \subseteq Nat
    /\ MaxSent < SeqSize \div 2     \* no stream is long enough to wrap

VARIABLES
    transport,      \* --usb or not
    net,            \* messages under way, oldest first
    session,        \* the phone's current stream; 0 before the first
    sent,           \* mSeq: audio packets of the stream so far
    connected,      \* the phone's socket reaches the running daemon
    crashes,        \* restarts of the daemon so far
    initialized,    \* app->initialized: a format was announced
    taken,          \* history: last packet of each stream given to the decoder
    current,        \* history: the stream of the latest such packet
    dropped,        \* history: the latest packet dropped as late
    unsent,         \* history: packets whose send over TCP failed or was cut
    cut             \* history: streams with a packet cut short: from there the
                    \* daemon reads their connection out of step

phone == <<session, sent, connected>>
daemon == <<crashes, initialized>>
history == <<taken, current, dropped>>
failures == <<unsent, cut>>
linkVars == <<vars, transport, net, phone, daemon, history, failures>>

Session == 1..MaxSessions
Audio == [kind : {"audio"}, session : Session, n : 0..MaxSent - 1]
Format == [kind : {"format"}, session : Session]
NoMessage == [kind |-> "none"]
NoneTaken == [s \in Session |-> -1]

\* What the phone may have sent by now.
WasSent(m) ==
    \/ m.session < session
    \/ m.session = session /\ (m.kind = "audio" => m.n < sent)

\* The audio the phone sends next.
Upcoming == [kind |-> "audio", session |-> session, n |-> sent]

\* Whatever is under way, decoded, dropped or given up was sent under its own
\* number: the number advances after the packet is written.
OnlySent ==
    /\ \A i \in 1..Len(net) : WasSent(net[i])
    /\ \A s \in Session : taken[s] # -1 =>
           WasSent([kind |-> "audio", session |-> s, n |-> taken[s]])
    /\ dropped # NoMessage => WasSent(dropped)
    /\ \A m \in unsent : WasSent(m)
    /\ \A s \in cut : s <= session

LinkTypeOK ==
    /\ transport \in {"udp", "tcp"}
    /\ net \in Seq(Audio \cup Format) /\ Len(net) <= NetSize
    /\ session \in 0..MaxSessions
    /\ sent \in 0..MaxSent
    /\ connected \in BOOLEAN
    /\ crashes \in 0..MaxCrashes
    /\ initialized \in BOOLEAN
    /\ taken \in [Session -> -1..MaxSent - 1]
    /\ current \in 0..MaxSessions
    /\ dropped \in Audio \cup {NoMessage}
    /\ unsent \subseteq Audio
    /\ cut \subseteq Session
    /\ OnlySent

\* The histories cover the time since the jitter buffer was last reset.
Forget == taken' = NoneTaken /\ current' = 0 /\ dropped' = NoMessage

LinkInit ==
    /\ Init
    /\ transport \in {"udp", "tcp"}
    /\ net = <<>>
    /\ session = 0 /\ sent = 0 /\ connected = FALSE
    /\ crashes = 0 /\ initialized = FALSE
    /\ taken = NoneTaken /\ current = 0 /\ dropped = NoMessage
    /\ unsent = {} /\ cut = {}

----------------------------------------------------------------------------

\* Streamer::start: a new socket, the format announced once, numbering from 0.
Start ==
    /\ session < MaxSessions
    /\ Len(net) < NetSize
    /\ session' = session + 1 /\ sent' = 0 /\ connected' = TRUE
    /\ net' = Append(net, [kind |-> "format", session |-> session + 1])
    /\ UNCHANGED <<vars, transport, daemon, history, failures>>

\* Mutant: the number advances before the packet is written.
DatagramAhead(m) == <<[m EXCEPT !.n = @ + 1]>>
Datagram(m) == <<m>>

\* sendRaw: the packet joins what is under way.  A full TCP connection makes
\* the sender wait.
Deliver ==
    /\ connected
    /\ Len(net) < NetSize
    /\ net' = net \o Datagram(Upcoming)
    /\ UNCHANGED failures

\* sendRaw over TCP fails before a byte is written, as it may on a live connection
\* too; what it writes to a lost one arrives nowhere, whatever it returns.  (Over
\* UDP either is the loss of a datagram.)
Fail ==
    /\ transport = "tcp"
    /\ unsent' = unsent \cup {Upcoming}
    /\ UNCHANGED <<net, cut>>

\* sendRaw over TCP is cut short in the length or in the packet.  The packet is
\* lost, or reaches the daemon filled up with the bytes of the next one.
CutShort ==
    /\ transport = "tcp" /\ connected
    /\ unsent' = unsent \cup {Upcoming}
    /\ cut' = cut \cup {session}
    /\ \/ UNCHANGED net
       \/ Len(net) < NetSize /\ net' = net \o Datagram(Upcoming)

\* One round of the sender thread.  The number advances whatever sendRaw
\* returns.
Send ==
    /\ session > 0
    /\ sent < MaxSent
    /\ Deliver \/ Fail \/ CutShort
    /\ sent' = sent + 1
    /\ UNCHANGED <<vars, transport, session, connected, daemon, history>>

Without(i) == SubSeq(net, 1, i - 1) \o SubSeq(net, i + 1, Len(net))

\* UDP loses a datagram.
Lose(i) ==
    /\ transport = "udp"
    /\ net' = Without(i)
    /\ UNCHANGED <<vars, transport, phone, daemon, history, failures>>

\* Out of step, the daemon finds no magic number where it reads a packet and
\* ignores it.
Swallow ==
    /\ transport = "tcp" /\ net # <<>>
    /\ Head(net).kind = "audio" /\ Head(net).session \in cut
    /\ packet = NoPacket
    /\ net' = Tail(net)
    /\ UNCHANGED <<vars, transport, phone, daemon, history, failures>>

\* The cable is pulled, or the daemon reads an impossible length and hangs up:
\* the end of what was under way is lost.
Break ==
    /\ transport = "tcp" /\ connected
    /\ connected' = FALSE
    /\ \E k \in 0..Len(net) : net' = SubSeq(net, 1, k)
    /\ UNCHANGED <<vars, transport, session, sent, daemon, history, failures>>

\* The message the network thread reads: the oldest one over TCP, any one over
\* UDP, where it may also arrive once more.
Received(i) ==
    /\ packet = NoPacket
    /\ \/ transport = "udp" /\ net' \in {net, Without(i)}
       \/ transport = "tcp" /\ i = 1 /\ net' = Tail(net)
    /\ UNCHANGED <<transport, phone, failures>>

\* Mutant: the numbering of the previous session is kept.
KeepJitter == UNCHANGED vars
ResetJitter == Restart

\* on_format: the jitter buffer starts afresh.
OnFormat(i) ==
    /\ net[i].kind = "format"
    /\ Received(i)
    /\ ResetJitter
    /\ initialized' = TRUE
    /\ Forget
    /\ UNCHANGED crashes

\* on_packet before any format was announced.
Ignore(i) ==
    /\ net[i].kind = "audio"
    /\ ~initialized
    /\ Received(i)
    /\ UNCHANGED <<vars, daemon, history>>

\* on_packet: the jitter buffer takes the packet, or drops it as late.
OnAudio(i) ==
    /\ net[i].kind = "audio"
    /\ initialized
    /\ Received(i)
    /\ LET m == net[i]
           seq == m.n % SeqSize
       IN  \/ /\ Accept(seq) \/ Resync(seq)
              /\ taken' = [taken EXCEPT ![m.session] = m.n]
              /\ current' = m.session
              /\ UNCHANGED dropped
           \/ /\ DropLate(seq)
              /\ dropped' = m
              /\ UNCHANGED <<taken, current>>
    /\ UNCHANGED daemon

\* The rest of jitter_on_packet, and the realtime callback.
Process ==
    /\ Conceal \/ Decode \/ \E n \in 1..MaxRead : Play(n)
    /\ UNCHANGED <<transport, net, phone, daemon, history, failures>>

\* The daemon is stopped and started again.  A TCP connection dies with it,
\* and with what it carried; datagrams find the new daemon on the same port.
Crash ==
    /\ crashes < MaxCrashes
    /\ crashes' = crashes + 1
    /\ initialized' = FALSE
    /\ have_seq' = FALSE /\ next_seq' = 0 /\ packet' = NoPacket /\ gap' = 0
    /\ broken' = TRUE
    /\ have_arrival' = FALSE
    /\ target_depth_frames' = FirstDepth /\ packets_since_recalc' = 0
    /\ ring' = <<>>
    /\ Forget
    /\ IF transport = "tcp"
       THEN net' = <<>> /\ connected' = FALSE
       ELSE UNCHANGED <<net, connected>>
    /\ UNCHANGED <<transport, session, sent, failures>>

LinkNext ==
    \/ Start
    \/ Send
    \/ \E i \in 1..Len(net) : Lose(i) \/ OnFormat(i) \/ Ignore(i) \/ OnAudio(i)
    \/ Swallow \/ Break
    \/ Process
    \/ Crash

LinkSpec == LinkInit /\ [][LinkNext]_linkVars

----------------------------------------------------------------------------

\* Over TCP the daemon may lack the packets first..next - 1 of stream s: the
\* send of each of them failed, or one of the stream was cut short.
Excused(s, first, next) ==
    s \in cut \/ \A n \in first..next - 1 : [kind |-> "audio", session |-> s, n |-> n] \in unsent

\* Between two resets of the jitter buffer the decoder is given the packets of
\* a stream in the order they were captured and none of them twice, whatever
\* UDP does and even when packets of an earlier stream arrive in between.  Over
\* TCP it is given every one whose send did not fail, up to a cut.
DecodedInOrder ==
    [][taken' # NoneTaken =>
         \A s \in Session : taken'[s] # taken[s] =>
             /\ taken'[s] > taken[s]
             /\ transport = "tcp" => Excused(s, taken[s] + 1, taken'[s])]_linkVars

\* A packet of the stream being heard is dropped as late only when a newer
\* packet of that stream was decoded before it.
LateWithinStream ==
    dropped # NoMessage /\ dropped.session = current =>
        dropped.n <= taken[current]

\* Over TCP no packet is dropped as late, and what is made up stands for what
\* the phone failed to send, although streams and the daemon are restarted and
\* connections break at any time: every slot about to be concealed is excused,
\* and a concealed frame waiting in the ring bears the number of such a packet.
TcpHidesOnlyUnsent ==
    transport = "tcp" =>
        /\ dropped = NoMessage
        /\ Excused(current, next_seq, next_seq + gap)
        /\ \A i \in 1..Len(ring) : ring[i].made = "concealed" =>
               cut # {} \/ \E m \in unsent : m.n % SeqSize = ring[i].seq

\* jitter.c: a packet is dropped when it "Arrived too late relative to what we
\* already played out", so something newer must have been decoded.
LateMeansOld ==
    dropped # NoMessage =>
        \E s \in Session : taken[s] # -1 /\
            (s > dropped.session \/ (s = dropped.session /\ taken[s] >= dropped.n))
=============================================================================
