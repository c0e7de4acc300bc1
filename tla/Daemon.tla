------------------------------- MODULE Daemon -------------------------------
(***************************************************************************)
(* The PC daemon's threads and what they share without a lock: the main    *)
(* thread (main.c: check_disconnect every 200 ms, then the shutdown), the  *)
(* network thread (net.c, with on_format and on_packet of main.c) and the  *)
(* realtime callback of the audio backend.  Each action is what one thread *)
(* does between two accesses another thread can observe.                   *)
(***************************************************************************)
EXTENDS Integers

CONSTANT Timeout    \* MICIFY_DISCONNECT_TIMEOUT_SEC

ASSUME DaemonAssumption == Timeout \in Nat \ {0}

VARIABLES
    transport,      \* "udp", or "tcp" with --usb
    g_stop,         \* set by SIGINT and SIGTERM
    main,           \* where the main thread is
    net,            \* where the network thread is
    running,        \* nr->running
    conn,           \* a TCP connection is accepted
    initialized, disconnect_announced,      \* of app_state_t
    idle,           \* seconds from last_packet_time to now, up to Timeout
    decoder,        \* app->jitter.dec exists
    ring,           \* app->ring: "none", "live" or "freed"
    backend,        \* the virtual microphone is registered
    rt,             \* the realtime callback is reading the ring
    log,            \* the latest message on the connection, which the GUI shows
    silence         \* history: seconds since a packet arrived, up to Timeout

session == <<decoder, ring, backend>>
shared == <<initialized, disconnect_announced, idle>>
vars == <<transport, g_stop, main, net, running, conn, shared, session, rt, log, silence>>

MainAt == {"loop", "checking", "printing", "marking",
           "stopping", "joining", "teardown", "freeing", "exited", "aborted"}
NetAt == {"loop", "waiting", "exited",
          "rebuild", "build", "register", "publish", "stamp", "clear", "greet",
          "unmark", "refresh", "decode"}
Message == {"none", "reannounced", "started", "reconnected", "disconnected"}

FlagsOK ==
    /\ g_stop \in BOOLEAN /\ running \in BOOLEAN /\ conn \in BOOLEAN
    /\ initialized \in BOOLEAN /\ disconnect_announced \in BOOLEAN
    /\ decoder \in BOOLEAN /\ backend \in BOOLEAN /\ rt \in BOOLEAN

\* The main thread is beyond the join only when the network thread has ended.
TypeOK ==
    /\ transport \in {"udp", "tcp"}
    /\ main \in MainAt /\ net \in NetAt
    /\ FlagsOK
    /\ idle \in 0..Timeout /\ silence \in 0..Timeout
    /\ ring \in {"none", "live", "freed"}
    /\ log \in Message
    /\ main \in {"teardown", "freeing", "exited"} => net = "exited"

\* app_state_t is cleared, so last_packet_time is 1970; the receiver started.
Init ==
    /\ transport \in {"udp", "tcp"}
    /\ g_stop = FALSE /\ main = "loop" /\ net = "loop" /\ running = TRUE /\ conn = FALSE
    /\ initialized = FALSE /\ disconnect_announced = FALSE /\ idle = Timeout
    /\ decoder = FALSE /\ ring = "none" /\ backend = FALSE /\ rt = FALSE
    /\ log = "none" /\ silence = Timeout

Alive == main \notin {"exited", "aborted"}

NetGoes(from, to) == Alive /\ net = from /\ net' = to
MainGoes(from, to) == Alive /\ main = from /\ main' = to

----------------------------------------------------------------------------
\* The network thread.

\* The head of the loops of udp_thread_fn and tcp_thread_fn.
Loop ==
    /\ IF running THEN NetGoes("loop", "waiting") /\ UNCHANGED conn
                  ELSE NetGoes("loop", "exited") /\ conn' = FALSE
    /\ UNCHANGED <<transport, g_stop, main, running, shared, session, rt, log, silence>>

\* accept returns a connection, or a read finds the end of one.
AcceptOrClose ==
    /\ transport = "tcp"
    /\ NetGoes("waiting", "loop")
    /\ conn' = ~conn
    /\ UNCHANGED <<transport, g_stop, main, running, shared, session, rt, log, silence>>

\* Mutant: the socket is not shut down, so only a message ends the wait.
SocketLeft == FALSE
SocketClosed == ~running

\* recv or accept returns because net_receiver_stop closed its socket; a read
\* of an accepted connection does not.
Woken ==
    /\ SocketClosed /\ ~conn
    /\ NetGoes("waiting", "loop")
    /\ UNCHANGED <<transport, g_stop, main, running, conn, shared, session, rt, log, silence>>

\* A message can be read: over TCP only from an accepted connection.  One more
\* may come in between running = 0 and the close of the socket.
Arrives == transport = "udp" \/ conn

\* on_format begins; "re-announced" is printed before anything is reset.
FormatArrives ==
    /\ Arrives
    /\ silence' = 0
    /\ IF initialized THEN NetGoes("waiting", "rebuild") /\ log' = "reannounced"
                      ELSE NetGoes("waiting", "build") /\ UNCHANGED log
    /\ UNCHANGED <<transport, g_stop, main, running, conn, shared, session, rt>>

\* backend_stop returns once no callback runs; then jitter_destroy.
Rebuild ==
    /\ ~rt
    /\ NetGoes("rebuild", "build")
    /\ backend' = FALSE /\ decoder' = FALSE
    /\ UNCHANGED <<transport, g_stop, main, running, conn, shared, ring, rt, log, silence>>

\* The ring (the first time) and the decoder; or exit(1).
Build ==
    /\ \/ /\ NetGoes("build", "register")
          /\ ring' = "live" /\ decoder' = TRUE
          /\ UNCHANGED main
       \/ /\ NetGoes("build", "exited")
          /\ main' = "aborted"
          /\ UNCHANGED <<ring, decoder>>
    /\ UNCHANGED <<transport, g_stop, running, conn, shared, backend, rt, log, silence>>

\* backend_start; or exit(1).
StartBackend ==
    /\ \/ NetGoes("register", "publish") /\ backend' = TRUE /\ UNCHANGED main
       \/ NetGoes("register", "exited") /\ main' = "aborted" /\ UNCHANGED backend
    /\ UNCHANGED <<transport, g_stop, running, conn, shared, decoder, ring, rt, log, silence>>

\* The last four statements of on_format.
Publish ==
    /\ \/ /\ NetGoes("publish", "stamp") /\ initialized' = TRUE
          /\ UNCHANGED <<idle, disconnect_announced, log>>
       \/ /\ NetGoes("stamp", "clear") /\ idle' = 0
          /\ UNCHANGED <<initialized, disconnect_announced, log>>
       \/ /\ NetGoes("clear", "greet") /\ disconnect_announced' = FALSE
          /\ UNCHANGED <<initialized, idle, log>>
       \/ /\ NetGoes("greet", "loop") /\ log' = "started"
          /\ UNCHANGED shared
    /\ UNCHANGED <<transport, g_stop, main, running, conn, session, rt, silence>>

\* on_packet begins: ignored before a format; "reconnected" is printed first.
PacketArrives ==
    /\ Arrives
    /\ silence' = 0
    /\ CASE ~initialized -> NetGoes("waiting", "loop") /\ UNCHANGED log
         [] initialized /\ disconnect_announced ->
                NetGoes("waiting", "unmark") /\ log' = "reconnected"
         [] initialized /\ ~disconnect_announced ->
                NetGoes("waiting", "refresh") /\ UNCHANGED log
    /\ UNCHANGED <<transport, g_stop, main, running, conn, shared, session, rt>>

\* The rest of on_packet; "decode" stands for jitter_on_packet (module Jitter).
HandlePacket ==
    /\ \/ /\ NetGoes("unmark", "refresh") /\ disconnect_announced' = FALSE
          /\ UNCHANGED <<initialized, idle>>
       \/ /\ NetGoes("refresh", "decode") /\ idle' = 0
          /\ UNCHANGED <<initialized, disconnect_announced>>
       \/ /\ NetGoes("decode", "loop") /\ UNCHANGED shared
    /\ UNCHANGED <<transport, g_stop, main, running, conn, session, rt, log, silence>>

----------------------------------------------------------------------------
\* The main thread.

\* Mutant: the flag is not set.
NotMarked == disconnect_announced
Marked == TRUE

\* check_disconnect: the flags, the clock, the message, the flag.
Check ==
    /\ \/ /\ ~g_stop /\ initialized /\ ~disconnect_announced
          /\ MainGoes("loop", "checking") /\ UNCHANGED <<log, disconnect_announced>>
       \/ /\ MainGoes("checking", IF idle >= Timeout THEN "printing" ELSE "loop")
          /\ UNCHANGED <<log, disconnect_announced>>
       \/ /\ MainGoes("printing", "marking") /\ log' = "disconnected"
          /\ UNCHANGED disconnect_announced
       \/ /\ MainGoes("marking", "loop") /\ disconnect_announced' = Marked
          /\ UNCHANGED log
    /\ UNCHANGED <<transport, g_stop, net, running, conn, initialized, idle, session, rt, silence>>

\* Mutant: the network thread is not waited for.
NetAnyhow == TRUE
NetEnded == net = "exited"

\* The loop ends; net_receiver_stop clears running, closes the socket, joins.
Stop ==
    /\ \/ g_stop /\ MainGoes("loop", "stopping") /\ UNCHANGED running
       \/ MainGoes("stopping", "joining") /\ running' = FALSE
       \/ /\ NetEnded
          /\ MainGoes("joining", IF initialized THEN "teardown" ELSE "exited")
          /\ UNCHANGED running
    /\ UNCHANGED <<transport, g_stop, net, conn, shared, session, rt, log, silence>>

\* backend_stop, which waits for the callback.
StopBackend ==
    /\ ~rt
    /\ MainGoes("teardown", "freeing")
    /\ backend' = FALSE
    /\ UNCHANGED <<transport, g_stop, net, running, conn, shared, decoder, ring, rt, log, silence>>

\* jitter_destroy and pcm_ring_destroy.
Free ==
    /\ MainGoes("freeing", "exited")
    /\ decoder' = FALSE /\ ring' = "freed"
    /\ UNCHANGED <<transport, g_stop, net, running, conn, shared, backend, rt, log, silence>>

----------------------------------------------------------------------------

\* on_process begins and ends.
Callback ==
    /\ Alive
    /\ backend \/ rt
    /\ rt' = ~rt
    /\ UNCHANGED <<transport, g_stop, main, net, running, conn, shared, session, log, silence>>

Signal ==
    /\ Alive /\ ~g_stop
    /\ g_stop' = TRUE
    /\ UNCHANGED <<transport, main, net, running, conn, shared, session, rt, log, silence>>

Older(age) == IF age < Timeout THEN age + 1 ELSE Timeout

\* A second passes; beyond Timeout seconds make no difference.
Tick ==
    /\ Alive
    /\ idle < Timeout \/ silence < Timeout
    /\ idle' = Older(idle) /\ silence' = Older(silence)
    /\ UNCHANGED <<transport, g_stop, main, net, running, conn, initialized,
                   disconnect_announced, session, rt, log>>

Handler == Loop \/ Woken \/ Build \/ StartBackend \/ Publish \/ HandlePacket

Next ==
    \/ Handler \/ Rebuild \/ AcceptOrClose \/ FormatArrives \/ PacketArrives
    \/ Check \/ Stop \/ StopBackend \/ Free
    \/ Callback \/ Signal \/ Tick

\* The operating system runs every thread; what the phone sends, and when the
\* user stops the daemon, is up to them.  A callback ends, and the audio server
\* carries out a removal between two callbacks, so that one is strongly fair.
Fairness ==
    /\ WF_vars(Handler) /\ SF_vars(Rebuild)
    /\ WF_vars(Check) /\ WF_vars(Stop) /\ SF_vars(StopBackend) /\ WF_vars(Free)
    /\ WF_vars(Callback) /\ WF_vars(Tick)

Spec == Init /\ [][Next]_vars /\ Fairness

----------------------------------------------------------------------------

\* The callback reads, and jitter_on_packet writes, only a ring that exists;
\* the decoder is there while a packet is decoded.  None of them is locked: it
\* rests on the order of on_format and of the shutdown in main.
NoUseAfterFree ==
    /\ rt => ring = "live"
    /\ net = "decode" => ring = "live" /\ decoder

\* When main returns every thread has stopped and everything was released,
\* however far a handler had come when the daemon was stopped.
AllReleased ==
    main = "exited" => net = "exited" /\ ~backend /\ ~decoder /\ ring # "live" /\ ~rt

\* Stopping the daemon ends it, unless the network thread sits in a read of an
\* accepted TCP connection, which only the phone can end.
StopEnds ==
    g_stop ~> \/ ~Alive
              \/ transport = "tcp" /\ conn /\ net = "waiting" /\ main = "joining"

\* Silence after a session is noticed: the flag that makes the next packet
\* report a reconnection is set, unless a packet comes or the daemon stops.
SilenceNoticed ==
    initialized /\ silence >= Timeout ~>
        disconnect_announced \/ silence < Timeout \/ g_stop \/ ~Alive

\* A message "phone disconnected" is never final: once both threads are back at
\* their loops the flag is set, so the next packet takes the message back.
DisconnectRevocable ==
    net \in {"loop", "waiting"} /\ main = "loop" /\ log = "disconnected" =>
        disconnect_announced
=============================================================================
