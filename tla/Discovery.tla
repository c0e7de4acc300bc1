------------------------------ MODULE Discovery ------------------------------
(***************************************************************************)
(* How the phone finds PCs: daemons broadcast beacons (discovery.c), and   *)
(* PcDiscovery.kt keeps a list of the PCs it hears.  Its start and stop    *)
(* run on the main thread, each start brings a listener thread into being, *)
(* and both use the map, the socket and the flag without a lock.           *)
(***************************************************************************)
EXTENDS Sequences, Naturals

CONSTANTS
    PC,             \* hosts, the keys of the map
    Listener,       \* bound on the listener threads alive at a time
    MaxPosts        \* bound on the lists posted to the main thread

VARIABLES
    on,             \* PCs whose daemon broadcasts (d->running)
    running, socket,
    stopping,       \* the main thread is in a call of stop
    devices,        \* the map: how old the entry of a PC is, if it has one
    at,             \* where each listener thread is; "none" when there is none
    open,           \* listeners whose own socket nobody closed
    torn,           \* listeners whose iteration another thread disturbs
    hand,           \* what a listener took from the network or from the map
    posts,          \* handler.post: lists on their way to the main thread
    shown,          \* the rows on the screen
    loose           \* history: the map may have changed since it was last copied

switch == <<running, socket, stopping>>
screen == <<posts, shown>>
vars == <<on, switch, devices, at, open, torn, hand, screen, loose>>

NoSocket == "null"
ASSUME DiscoveryAssumption ==
    /\ NoSocket \notin Listener     \* null is the socket of no thread
    /\ MaxPosts \in Nat
Iterating == {"copy", "prune", "recopy"}
Listed == {pc \in PC : devices[pc] # "absent"}

\* The shared socket is an open one or null, except between its close and the
\* assignment that forgets it.
TypeOK ==
    /\ on \subseteq PC /\ {running, stopping, loose} \subseteq BOOLEAN
    /\ open \subseteq Listener /\ socket \in Listener \cup {NoSocket}
    /\ stopping \/ socket \in open \cup {NoSocket}
    /\ devices \in [PC -> {"absent", "fresh", "stale"}]
    /\ at \in [Listener -> Iterating \cup {"none", "bind", "assign", "loop",
                                           "receive", "put", "post", "repost"}]
    /\ \A l \in torn : at[l] \in Iterating
    /\ hand \in [Listener -> SUBSET PC]
    /\ posts \in Seq(SUBSET PC) /\ Len(posts) <= MaxPosts
    /\ shown \subseteq PC

Init ==
    /\ on = {} /\ running = FALSE /\ socket = NoSocket /\ stopping = FALSE
    /\ devices = [pc \in PC |-> "absent"]
    /\ at = [l \in Listener |-> "none"] /\ open = {} /\ torn = {}
    /\ hand = [l \in Listener |-> {}]
    /\ posts = <<>> /\ shown = {} /\ loose = FALSE

----------------------------------------------------------------------------

\* A daemon begins to broadcast, or ends: discovery_start, discovery_stop.
Daemon(pc) ==
    /\ on' = IF pc \in on THEN on \ {pc} ELSE on \cup {pc}
    /\ UNCHANGED <<switch, devices, at, open, torn, hand, screen, loose>>

\* PcDiscovery.start.
Start ==
    /\ ~stopping /\ ~running /\ running' = TRUE
    /\ \E l \in Listener \ {socket} : at[l] = "none" /\ at' = [at EXCEPT ![l] = "bind"]
    /\ UNCHANGED <<on, socket, stopping, devices, open, torn, hand, screen, loose>>

\* The map becomes m; iterations of others notice it.
Change(m, others) ==
    /\ devices' = m
    /\ torn' = torn \cup {l \in others : m # devices /\ at[l] \in Iterating}

\* Mutant: the closed socket is kept.
Kept == socket
Forgotten == NoSocket

\* PcDiscovery.stop.  A listener may go on between its statements, which it can
\* tell only when it assigns its socket after the close of the one before: then
\* that assignment is lost.  The rows are not told.
Stop ==
    \/ /\ ~stopping /\ stopping' = TRUE
       /\ running /\ running' = FALSE
       /\ open' = open \ {socket}
       /\ UNCHANGED <<on, socket, devices, at, torn, hand, screen, loose>>
    \/ /\ stopping /\ stopping' = FALSE
       /\ socket' = Forgotten
       /\ Change([pc \in PC |-> "absent"], Listener) /\ loose' = TRUE
       /\ UNCHANGED <<on, running, at, open, hand, screen>>

\* onDevicesChanged, on the main thread.
Show ==
    /\ ~stopping /\ posts # <<>>
    /\ shown' = Head(posts) /\ posts' = Tail(posts)
    /\ UNCHANGED <<on, switch, devices, at, open, torn, hand, loose>>

\* Five seconds without a beacon, longer than an update of the list takes: the
\* entry is due for pruneStale.
Age(pc) ==
    /\ devices[pc] = "fresh"
    /\ \A l \in Listener : at[l] \notin {"put", "copy", "post", "recopy", "repost"}
    /\ devices' = [devices EXCEPT ![pc] = "stale"]
    /\ UNCHANGED <<on, switch, at, open, torn, hand, screen, loose>>

----------------------------------------------------------------------------
\* The listener threads.

Goes(l, from, to) == at[l] = from /\ at' = [at EXCEPT ![l] = to]

Others(l) == \E other \in Listener \ {l} : at[other] \notin {"none", "bind", "assign"}

\* bind, or its quiet failure.
Bind(l) ==
    /\ \/ Goes(l, "bind", "assign") /\ open' = open \cup {l}
       \/ Goes(l, "bind", "none") /\ UNCHANGED open
    /\ UNCHANGED <<on, switch, devices, torn, hand, screen, loose>>

Assign(l) ==
    /\ Goes(l, "assign", "loop") /\ socket' = l
    /\ UNCHANGED <<on, running, stopping, devices, open, torn, hand, screen, loose>>

\* The loop ends with running, or with the exception of a closed socket.
Loop(l) ==
    /\ \/ ~running /\ Goes(l, "loop", "none")
       \/ running /\ Goes(l, "loop", "receive")
       \/ l \notin open /\ Goes(l, "receive", "none")
    /\ UNCHANGED <<on, switch, devices, open, torn, hand, screen, loose>>

\* A beacon is received and understood.
Receive(l, pc) ==
    /\ pc \in on /\ l \in open
    /\ Goes(l, "receive", "put")
    /\ hand' = [hand EXCEPT ![l] = {pc}]
    /\ UNCHANGED <<on, switch, devices, open, torn, screen, loose>>

\* Mutant: no soTimeout; only a datagram ends the wait.
TimedOutNever(l) == l \in open /\ on # {}
TimedOut(l) == l \in open

\* soTimeout, or a datagram that is no beacon.
Wake(l) ==
    /\ TimedOut(l)
    /\ Goes(l, "receive", "prune")
    /\ UNCHANGED <<on, switch, devices, open, torn, hand, screen, loose>>

\* Mutant: only a PC that was not listed is published.
PublishedNew(l) == IF hand[l] \subseteq Listed THEN "prune" ELSE "copy"
PublishedPut(l) == "copy"

Put(l) ==
    /\ Goes(l, "put", PublishedPut(l))
    /\ Change([pc \in PC |-> IF pc \in hand[l] THEN "fresh" ELSE devices[pc]], Listener \ {l})
    /\ UNCHANGED <<on, switch, open, hand, screen, loose>>

\* publish: the map's values are copied; the copy is posted.
Copy(l, from, to) ==
    /\ Goes(l, from, to)
    /\ hand' = [hand EXCEPT ![l] = Listed]
    /\ torn' = torn \ {l} /\ loose' = Others(l)
    /\ UNCHANGED <<on, switch, devices, open, screen>>

Post(l, from, to) ==
    /\ Len(posts) < MaxPosts
    /\ Goes(l, from, to)
    /\ posts' = Append(posts, hand[l]) /\ hand' = [hand EXCEPT ![l] = {}]
    /\ UNCHANGED <<on, switch, devices, open, torn, shown, loose>>

\* Mutant: the rows are not told of an entry that expired.
ExpiredQuietly == FALSE
Expired == \E pc \in PC : devices[pc] = "stale"

\* pruneStale publishes when an entry went.
Prune(l) ==
    /\ Goes(l, "prune", IF Expired THEN "recopy" ELSE "loop")
    /\ devices' = [pc \in PC |-> IF devices[pc] = "stale" THEN "absent" ELSE devices[pc]]
    /\ torn' = (torn \ {l}) \cup {o \in Listener \ {l} : Expired /\ at[o] \in Iterating}
    /\ UNCHANGED <<on, switch, open, hand, screen, loose>>

\* An iteration over the map meets the change of another thread: the exception
\* ends the listener.
Collide(l) ==
    /\ l \in torn /\ torn' = torn \ {l}
    /\ at' = [at EXCEPT ![l] = "none"] /\ hand' = [hand EXCEPT ![l] = {}]
    /\ loose' = TRUE
    /\ UNCHANGED <<on, switch, devices, open, screen>>

Step(l) ==
    \/ Bind(l) \/ Assign(l) \/ Loop(l) \/ Wake(l) \/ Put(l) \/ Prune(l)
    \/ Copy(l, "copy", "post") \/ Post(l, "post", "prune")
    \/ Copy(l, "recopy", "repost") \/ Post(l, "repost", "loop")

Next ==
    \/ Start \/ Stop \/ Show
    \/ \E pc \in PC : Daemon(pc) \/ Age(pc)
    \/ \E l \in Listener : Step(l) \/ Collide(l) \/ \E pc \in PC : Receive(l, pc)

\* Threads run, the main thread ends a call of stop and takes what was posted,
\* time passes; a PC that broadcasts every second is heard again and again.
Fairness ==
    /\ WF_vars(Show) /\ WF_vars(stopping /\ Stop)
    /\ \A l \in Listener : WF_vars(Step(l))
    /\ \A pc \in PC : SF_vars(Age(pc)) /\ \A l \in Listener : SF_vars(Receive(l, pc))

Spec == Init /\ [][Next]_vars /\ Fairness

----------------------------------------------------------------------------

\* After a stop every listener ends, also one whose socket the stop could not
\* close because the thread had not assigned it yet.
ListenersEnd ==
    ~running ~> running \/ \A l \in Listener : at[l] = "none"

\* Once what was posted is shown, the rows are the PCs in the map, except when
\* a stop cleared the map (nothing is published then, and the rows stay) or two
\* listeners overlapped.
ShownIsListed ==
    posts = <<>> /\ ~loose /\ (\A l \in Listener : at[l] \in {"none", "loop", "receive", "put"})
        => shown = Listed

\* No listener is left: a bind that failed or a collision ended it, and running
\* stays set.
Deaf == \A l \in Listener : at[l] = "none"

\* While discovery runs, a PC that broadcasts gets its row, and one that fell
\* silent loses it, unless a stop left the row behind.
ListFollowsBeacons ==
    \A pc \in PC :
        /\ running /\ pc \in on ~> pc \in shown \/ pc \notin on \/ ~running \/ Deaf
        /\ running /\ pc \in shown \ on ~>
               pc \notin shown \ on \/ loose \/ ~running \/ Deaf
=============================================================================
