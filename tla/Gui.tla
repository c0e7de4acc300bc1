--------------------------------- MODULE Gui ---------------------------------
(***************************************************************************)
(* The window on the PC, gui_main.c: it starts a daemon, another one at    *)
(* every toggle of the USB box, and says "connected" from the words it     *)
(* reads in their output.  Each daemon has a pipe of its own, which the    *)
(* window goes on reading after the daemon was replaced; nobody waits for  *)
(* the old daemon to end.                                                  *)
(*                                                                         *)
(* Of the output only the words the window looks for matter: "up" stands   *)
(* for session started, re-announced and reconnected, "down" for           *)
(* disconnected.  A message is one write, and arrives in one piece.        *)
(***************************************************************************)
EXTENDS Naturals

CONSTANT MaxDaemons     \* bound on the daemons started
ASSUME GuiAssumption == MaxDaemons \in Nat \ {0}

VARIABLES
    window,         \* it is open
    usb,            \* the box
    started,        \* daemons started so far, numbered from 1
    current,        \* daemon_proc; 0 for NULL
    connected,
    daemon,         \* each daemon, its pipe, and the read pending on the pipe
    blame           \* history: why connected may differ from what was said last

app == <<window, usb, started, current>>
vars == <<app, connected, daemon, blame>>

Id == 1..MaxDaemons
Word == {"up", "down"}

Daemon == [life : {"none", "starting", "on", "closing", "gone"},
           told : BOOLEAN,                      \* SIGTERM is on its way
           usb : BOOLEAN, said : BOOLEAN,       \* the last word was "up"
           held : BOOLEAN,                      \* up by a silent TCP connection
           pipe : SUBSET Word, read : BOOLEAN]  \* what it holds; a read is pending

Nobody == [life |-> "none", told |-> FALSE, usb |-> FALSE, said |-> FALSE,
           held |-> FALSE, pipe |-> {}, read |-> FALSE]

TypeOK ==
    /\ {window, usb, connected} \subseteq BOOLEAN
    /\ started \in 0..MaxDaemons /\ current \in {0, started}
    /\ daemon \in [Id -> Daemon]
    /\ current # 0 => daemon[current].read \/ daemon[current].life = "gone"
    /\ blame \in {"nobody", "mixed", "older"}

\* A daemon that was just spawned.
Spawned(box) == [Nobody EXCEPT !.life = "starting", !.usb = box, !.read = TRUE]

\* activate, with its call of start_daemon; the process may fail to start.
Init ==
    /\ window = TRUE /\ usb = FALSE
    /\ started \in {0, 1} /\ current = started /\ connected = FALSE
    /\ daemon = [d \in Id |-> IF d <= started THEN Spawned(FALSE) ELSE Nobody]
    /\ blame = "nobody"

----------------------------------------------------------------------------
\* The main loop of the window.

\* Mutant: the old daemon is dropped without a signal.
Dropped(d) == daemon[d]
Signalled(d) == [daemon[d] EXCEPT !.told = @ \/ d = current]

\* Mutant: the label keeps what the old daemon said.
KeepShown == UNCHANGED <<connected, blame>>
ShowNone == connected' = FALSE /\ blame' = "nobody"

\* on_usb_toggled: start_daemon, which begins with stop_daemon.
Toggle ==
    /\ window /\ usb' = ~usb /\ started < MaxDaemons
    /\ ShowNone
    /\ \/ /\ started' = started + 1 /\ current' = started'
          /\ daemon' = [d \in Id |-> IF d = started' THEN Spawned(usb') ELSE Signalled(d)]
       \/ current' = 0 /\ daemon' = [d \in Id |-> Signalled(d)] /\ UNCHANGED started
    /\ UNCHANGED window

\* on_window_delete; the program ends with its last window, and closes its pipes.
Delete ==
    /\ window /\ window' = FALSE
    /\ daemon' = [d \in Id |-> [Signalled(d) EXCEPT !.pipe = {}, !.read = FALSE]]
    /\ current' = 0 /\ ShowNone
    /\ UNCHANGED <<usb, started>>

\* Mutant: only the first chunk is read.
ReadOnce(heard) == FALSE
ReadNext(heard) == heard

\* read_daemon_output, with all the pipe holds or at its end: for the pipe of
\* any daemon, while there is a current one.
ReadOutput(d) ==
    LET words == daemon[d].pipe
        heard == words # {} /\ current # 0
    IN  /\ daemon[d].read /\ (words # {} \/ daemon[d].life = "gone")
        /\ connected' = IF heard THEN "up" \in words ELSE connected
        /\ blame' = CASE ~heard -> blame
                      [] heard /\ d # current -> "older"
                      [] heard /\ d = current -> IF words = Word THEN "mixed" ELSE "nobody"
        /\ daemon' = [daemon EXCEPT ![d].pipe = {}, ![d].read = ReadNext(heard)]
        /\ UNCHANGED app

----------------------------------------------------------------------------
\* The daemons.

Becomes(d, from, to) ==
    /\ daemon[d].life = from
    /\ daemon' = [daemon EXCEPT ![d].life = to]
    /\ UNCHANGED <<app, connected, blame>>

\* Of a process that ended only its output is left.
Over(d, from) ==
    /\ daemon[d].life = from
    /\ daemon' = [daemon EXCEPT ![d] = [Nobody EXCEPT !.life = "gone", !.pipe = daemon[d].pipe,
                                                !.read = daemon[d].read]]
    /\ UNCHANGED <<app, connected, blame>>

\* Both transports use one port number, which excludes only its own kind.
PortFree(d) ==
    \A other \in Id \ {d} : daemon[other].life = "on" => daemon[other].usb # daemon[d].usb

\* net_receiver_start; without a port the daemon ends, as when the signal comes
\* before its handler is installed.
Bind(d) ==
    \/ PortFree(d) /\ Becomes(d, "starting", "on")
    \/ ~PortFree(d) /\ Over(d, "starting")
    \/ daemon[d].told /\ Over(d, "starting")

\* What main.c prints about the phone; its two threads print without a lock, so
\* "disconnected" may even precede the first "started" (module Daemon).
Say(d, word) ==
    /\ daemon[d].life \in IF word = "up" THEN {"on", "closing"} ELSE {"on"}
    /\ daemon' = [daemon EXCEPT ![d].said = (word = "up"),
                                ![d].pipe = IF window THEN @ \cup {word} ELSE {}]
    /\ UNCHANGED <<app, connected, blame>>

\* The loop of main ends and net_receiver_stop closes the port.  A phone may
\* just hold a TCP connection and say nothing.
Quit(d) ==
    /\ daemon[d].told /\ daemon[d].life = "on"
    /\ \E silent \in {FALSE, daemon[d].usb} :
          daemon' = [daemon EXCEPT ![d].life = "closing", ![d].held = silent]
    /\ UNCHANGED <<app, connected, blame>>

\* The phone goes on, or away.
LetGo(d) ==
    /\ daemon[d].held
    /\ daemon' = [daemon EXCEPT ![d].held = FALSE]
    /\ UNCHANGED <<app, connected, blame>>

\* The network thread is joined, which a silent connection prevents.
Exit(d) == ~daemon[d].held /\ Over(d, "closing")

\* Somebody else ends the daemon.
Crash(d) == Over(d, "on")

Ends(d) == Bind(d) \/ Quit(d) \/ Exit(d)

Next ==
    \/ Toggle \/ Delete
    \/ \E d \in Id :
          \/ ReadOutput(d)
          \/ Ends(d) \/ LetGo(d) \/ Crash(d)
          \/ \E word \in Word : Say(d, word)

\* Processes run; the user and the phone act when they like.
Spec == Init /\ [][Next]_vars /\ \A d \in Id : WF_vars(Ends(d))

----------------------------------------------------------------------------

\* Once the output of the running daemon is read, and as long as no older daemon
\* was heard since, the window never hides a connected phone, and shows one that
\* is not there only when words of both kinds were read at once.
ShownIsSaid ==
    LET d == daemon[current]
    IN  window /\ current # 0 /\ d.life # "gone" /\ d.pipe = {} /\ blame # "older" =>
           /\ d.said => connected
           /\ connected => d.said \/ blame = "mixed"

\* Every daemon that was replaced, or whose window was closed, ends, unless a
\* silent phone holds its TCP connection; no daemon is left on the port.
OldDaemonsEnd ==
    \A d \in Id :
        daemon[d].life # "none" /\ d # current ~> daemon[d].life = "gone" \/ daemon[d].held
=============================================================================
