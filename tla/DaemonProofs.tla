---------------------------- MODULE DaemonProofs ----------------------------
(***************************************************************************)
(* The daemon's threads use no freed ring or decoder and leave nothing     *)
(* behind, for every disconnect timeout and every interleaving.            *)
(***************************************************************************)
EXTENDS Daemon, TLAPS

Live == ring = "live" /\ decoder
Handling == {"stamp", "clear", "greet", "rebuild", "unmark", "refresh", "decode"}
Joined == {"teardown", "freeing", "exited"}

\* What the unlocked threads rely on: a callback runs only for a registered
\* backend, a backend only for a live session; the flag initialized stands for
\* a live session except while on_format rebuilds it; and main frees after it
\* joined.  None of the two invariants below is inductive without it.
Ordered ==
    /\ rt => backend
    /\ backend => Live
    /\ net \in {"build", "register"} => ~backend
    /\ net \in {"register", "publish"} => Live
    /\ net \in Handling => initialized
    /\ initialized /\ Alive => ring = "live"
    /\ initialized /\ Alive /\ net # "build" => decoder
    /\ ~initialized /\ net \notin {"register", "publish"} /\ main # "aborted" =>
          ring = "none" /\ ~decoder
    /\ main \in Joined \cup {"aborted"} => net = "exited"
    /\ main \in {"teardown", "freeing"} => initialized
    /\ main = "freeing" => ~backend
    /\ main = "exited" => ~decoder /\ ring # "live"

----------------------------------------------------------------------------

LEMMA InitType == Init => TypeOK
<1>1. Init => FlagsOK
  BY Zenon DEF Init, FlagsOK
<1> QED
  BY <1>1, DaemonAssumption DEF Init, TypeOK, MainAt, NetAt, Message

LEMMA StepFlags == FlagsOK /\ [Next]_vars => FlagsOK'
<1> SUFFICES ASSUME FlagsOK, [Next]_vars
             PROVE  FlagsOK'
  OBVIOUS
<1> USE DEF FlagsOK, shared, session
<1>1. CASE Loop \/ AcceptOrClose \/ Woken
  BY Zenon, <1>1 DEF Loop, AcceptOrClose, Woken, SocketClosed, NetGoes
<1>2. CASE Rebuild \/ Build \/ StartBackend
  BY Zenon, <1>2 DEF Rebuild, Build, StartBackend, NetGoes
<1>3. CASE Publish
  BY Zenon, <1>3 DEF Publish, NetGoes
<1>4. CASE FormatArrives \/ PacketArrives
  BY Zenon, <1>4 DEF FormatArrives, PacketArrives, NetGoes
<1>5. CASE HandlePacket
  BY Zenon, <1>5 DEF HandlePacket, NetGoes
<1>6. CASE Check
  BY Zenon, <1>6 DEF Check, Marked, MainGoes
<1>7. CASE Stop \/ StopBackend \/ Free
  BY Zenon, <1>7 DEF Stop, NetEnded, StopBackend, Free, MainGoes
<1>8. CASE Callback \/ Signal
  BY Zenon, <1>8 DEF Callback, Signal
<1>9. CASE Tick
  BY Zenon, <1>9 DEF Tick, Older
<1>10. CASE UNCHANGED vars
  BY Zenon, <1>10 DEF vars
<1> QED
  BY <1>1, <1>2, <1>3, <1>4, <1>5, <1>6, <1>7, <1>8, <1>9, <1>10
     DEF Next, Handler

LEMMA StepType == TypeOK /\ [Next]_vars => TypeOK'
<1> SUFFICES ASSUME TypeOK, [Next]_vars
             PROVE  TypeOK'
  OBVIOUS
<1>0. FlagsOK'
  BY StepFlags DEF TypeOK
<1> USE <1>0, DaemonAssumption DEF TypeOK, MainAt, NetAt, Message, shared, session
<1>1. CASE Loop \/ AcceptOrClose \/ Woken
  BY <1>1 DEF Loop, AcceptOrClose, Woken, SocketClosed, NetGoes
<1>2. CASE Rebuild \/ Build \/ StartBackend
  BY <1>2 DEF Rebuild, Build, StartBackend, NetGoes
<1>3. CASE Publish
  BY <1>3 DEF Publish, NetGoes
<1>4. CASE FormatArrives \/ PacketArrives
  <2>1. CASE FormatArrives
    BY <2>1 DEF FormatArrives, NetGoes
  <2>2. CASE PacketArrives
    <3>1. log' \in Message
      BY <2>2 DEF PacketArrives
    <3>2. net' \in NetAt
      BY <2>2 DEF PacketArrives, NetGoes
    <3>3. net # "exited" /\ main' = main
      BY <2>2 DEF PacketArrives, NetGoes
    <3>4. UNCHANGED <<transport, idle, ring>> /\ silence' = 0
      BY <2>2 DEF PacketArrives
    <3> QED
      BY <3>1, <3>2, <3>3, <3>4
  <2> QED
    BY <1>4, <2>1, <2>2
<1>5. CASE HandlePacket
  BY <1>5 DEF HandlePacket, NetGoes
<1>6. CASE Check
  BY <1>6 DEF Check, Marked, MainGoes
<1>7. CASE Stop
  <2>1. CASE g_stop /\ MainGoes("loop", "stopping") /\ UNCHANGED running
    BY <1>7, <2>1 DEF Stop, MainGoes
  <2>2. CASE MainGoes("stopping", "joining") /\ running' = FALSE
    BY <1>7, <2>2 DEF Stop, MainGoes
  <2>3. CASE /\ NetEnded
             /\ MainGoes("joining", IF initialized THEN "teardown" ELSE "exited")
             /\ UNCHANGED running
    BY <1>7, <2>3 DEF Stop, NetEnded, MainGoes
  <2> QED
    BY <1>7, <2>1, <2>2, <2>3 DEF Stop
<1>8. CASE StopBackend
  BY <1>8 DEF StopBackend, MainGoes
<1>9. CASE Free
  BY <1>9 DEF Free, MainGoes
<1>10. CASE Callback \/ Signal
  BY <1>10 DEF Callback, Signal
<1>11. CASE Tick
  <2>1. idle' \in 0..Timeout /\ silence' \in 0..Timeout
    BY <1>11 DEF Tick, Older
  <2> QED
    BY <1>11, <2>1 DEF Tick
<1>12. CASE UNCHANGED vars
  BY <1>12 DEF vars
<1> QED
  BY <1>1, <1>2, <1>3, <1>4, <1>5, <1>6, <1>7, <1>8, <1>9, <1>10,
     <1>11, <1>12 DEF Next, Handler

\* Every variable keeps its type, and main never passes the pthread_join of
\* net_receiver_stop before the network thread has ended.
THEOREM TypeCorrect == Spec => []TypeOK
  BY InitType, StepType, PTL DEF Spec

----------------------------------------------------------------------------

LEMMA InitOrdered == Init => Ordered
  BY DEF Init, Ordered, Alive, Live, Handling, Joined

LEMMA StepOrdered == TypeOK /\ Ordered /\ [Next]_vars => Ordered'
<1> SUFFICES ASSUME TypeOK, Ordered, [Next]_vars
             PROVE  Ordered'
  OBVIOUS
<1> USE DEF TypeOK, FlagsOK, MainAt, NetAt, Ordered, Alive, Live, Handling, Joined, shared, session
<1>1. CASE Loop
  BY <1>1 DEF Loop, NetGoes
<1>2. CASE AcceptOrClose \/ Woken
  BY <1>2 DEF AcceptOrClose, Woken, SocketClosed, NetGoes
<1>3. CASE Rebuild
  BY <1>3 DEF Rebuild, NetGoes
<1>4. CASE Build \/ StartBackend
  BY <1>4 DEF Build, StartBackend, NetGoes
<1>5. CASE Publish
  BY <1>5 DEF Publish, NetGoes
<1>6. CASE FormatArrives
  BY <1>6 DEF FormatArrives, NetGoes
<1>7. CASE PacketArrives
  BY <1>7 DEF PacketArrives, NetGoes
<1>8. CASE HandlePacket
  BY <1>8 DEF HandlePacket, NetGoes
<1>9. CASE Check
  BY <1>9 DEF Check, Marked, MainGoes
<1>10. CASE Stop
  BY <1>10 DEF Stop, NetEnded, MainGoes
<1>11. CASE StopBackend
  BY <1>11 DEF StopBackend, MainGoes
<1>12. CASE Free
  BY <1>12 DEF Free, MainGoes
<1>13. CASE Callback \/ Signal \/ Tick
  BY <1>13 DEF Callback, Signal, Tick, Older
<1>14. CASE UNCHANGED vars
  BY <1>14 DEF vars
<1> QED
  BY <1>1, <1>2, <1>3, <1>4, <1>5, <1>6, <1>7, <1>8, <1>9, <1>10, <1>11, <1>12,
     <1>13, <1>14 DEF Next, Handler

\* Who may change the flag when: only main sets it, and while it is about to,
\* the network thread has not seen it set.
Revocable ==
    /\ main \in {"checking", "printing", "marking"} => ~disconnect_announced
    /\ net = "unmark" => disconnect_announced /\ log # "disconnected"
    /\ log = "disconnected" => disconnect_announced \/ main \in {"marking", "aborted"} \/ net = "greet"

LEMMA InitRevocable == Init => Revocable
  BY DEF Init, Revocable

LEMMA StepRevocable == TypeOK /\ Revocable /\ [Next]_vars => Revocable'
<1> SUFFICES ASSUME TypeOK, Revocable, [Next]_vars
             PROVE  Revocable'
  OBVIOUS
<1> USE DEF TypeOK, FlagsOK, MainAt, NetAt, Message, Revocable, shared
<1>1. CASE Loop \/ AcceptOrClose \/ Woken
  BY <1>1 DEF Loop, AcceptOrClose, Woken, SocketClosed, NetGoes
<1>2. CASE Rebuild \/ Build \/ StartBackend
  BY <1>2 DEF Rebuild, Build, StartBackend, NetGoes
<1>3. CASE Publish
  BY <1>3 DEF Publish, NetGoes
<1>4. CASE FormatArrives
  BY <1>4 DEF FormatArrives, NetGoes
<1>5. CASE PacketArrives
  BY <1>5 DEF PacketArrives, NetGoes
<1>6. CASE HandlePacket
  BY <1>6 DEF HandlePacket, NetGoes
<1>7. CASE Check
  BY <1>7 DEF Check, Marked, MainGoes
<1>8. CASE Stop \/ StopBackend \/ Free
  BY <1>8 DEF Stop, NetEnded, StopBackend, Free, MainGoes
<1>9. CASE Callback \/ Signal \/ Tick
  BY <1>9 DEF Callback, Signal, Tick
<1>10. CASE UNCHANGED vars
  BY <1>10 DEF vars
<1> QED
  BY <1>1, <1>2, <1>3, <1>4, <1>5, <1>6, <1>7, <1>8, <1>9, <1>10
     DEF Next, Handler

LEMMA AlwaysOrdered == Spec => [](TypeOK /\ Ordered)
  BY InitType, StepType, InitOrdered, StepOrdered, PTL DEF Spec

\* The realtime callback and the decoder work on live objects only, although
\* main, the network thread and the callback share them without a lock.
THEOREM NeverUsedAfterFree == Spec => []NoUseAfterFree
<1>1. TypeOK /\ Ordered => NoUseAfterFree
  BY DEF TypeOK, FlagsOK, Ordered, NoUseAfterFree, Alive, Live, Handling, Joined, MainAt, NetAt
<1> QED
  BY <1>1, AlwaysOrdered, PTL

\* main returns only after every thread stopped and everything was released.
THEOREM AlwaysReleased == Spec => []AllReleased
<1>1. TypeOK /\ Ordered => AllReleased
  BY DEF TypeOK, FlagsOK, Ordered, AllReleased, Live, Joined
<1> QED
  BY <1>1, AlwaysOrdered, PTL

\* "phone disconnected" is always taken back by the next packet, although main
\* and the network thread set and clear the flag without a lock.
THEOREM AlwaysRevocable == Spec => []DisconnectRevocable
<1>1. Revocable => DisconnectRevocable
  BY DEF Revocable, DisconnectRevocable
<1> QED
  BY <1>1, InitType, StepType, InitRevocable, StepRevocable, PTL DEF Spec
=============================================================================
