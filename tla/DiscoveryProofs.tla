--------------------------- MODULE DiscoveryProofs ---------------------------
(***************************************************************************)
(* Theorems about the list of PCs on the phone, for any PCs, any listener  *)
(* threads and any number of lists on their way to the screen.             *)
(***************************************************************************)
EXTENDS Discovery, SequenceTheorems, TLAPS

\* The rows once everything that was posted is shown.
Latest == IF posts = <<>> THEN shown ELSE posts[Len(posts)]

\* A listener between its copy of the map and the post of the copy.
Held == {"post", "repost"}

\* The map as it is now reaches the rows: a listener is about to copy it, or the
\* only one that holds a copy holds this one, or it was posted last.
Coming ==
    \/ \E l \in Listener : at[l] \in {"copy", "recopy"}
    \/ \E l \in Listener :
          /\ at[l] \in Held /\ hand[l] = Listed
          /\ \A other \in Listener \ {l} : at[other] \notin Held
    \/ (\A l \in Listener : at[l] \notin Held) /\ Latest = Listed

\* The socket the threads share is none of a thread that has not assigned its
\* own yet, which therefore is open when the thread assigns it.
Sockets ==
    \A l \in Listener :
        /\ at[l] \in {"bind", "assign"} => socket # l
        /\ at[l] = "assign" => l \in open

Inv ==
    /\ TypeOK /\ torn \subseteq Listener
    /\ Sockets
    /\ loose \/ Coming

\* The variables apart: the types of those that say where the threads are.
Ages == {"absent", "fresh", "stale"}
Place == Iterating \cup {"none", "bind", "assign", "loop", "receive", "put", "post", "repost"}

ThreadsOK ==
    /\ open \subseteq Listener /\ socket \in Listener \cup {NoSocket}
    /\ stopping \/ socket \in open \cup {NoSocket}
    /\ at \in [Listener -> Place]
    /\ torn \subseteq Listener /\ \A l \in torn : at[l] \in Iterating
    /\ Sockets

DataOK ==
    /\ on \subseteq PC /\ running \in BOOLEAN /\ stopping \in BOOLEAN /\ loose \in BOOLEAN
    /\ devices \in [PC -> Ages]
    /\ hand \in [Listener -> SUBSET PC]

ScreenOK ==
    /\ posts \in Seq(SUBSET PC) /\ Len(posts) <= MaxPosts
    /\ shown \subseteq PC

----------------------------------------------------------------------------

\* The invariant in the parts the actions change together.
LEMMA Parts == Inv <=> ThreadsOK /\ DataOK /\ ScreenOK /\ (loose \/ Coming)
BY DEF Inv, TypeOK, ThreadsOK, DataOK, ScreenOK, Place, Ages

\* One thread goes on; no thread is interrupted that was not.
LEMMA ThreadGoes ==
    ASSUME ThreadsOK, NEW l \in Listener, NEW from, NEW to \in Place, Goes(l, from, to)
    PROVE  /\ at' \in [Listener -> Place] /\ at[l] = from /\ at'[l] = to
           /\ \A other \in Listener \ {l} : at'[other] = at[other]
BY DEF ThreadsOK, Goes

\* A thread past its bind goes on with its socket as it was.
LEMMA ThreadsGo ==
    ASSUME ThreadsOK, NEW l \in Listener, NEW from, NEW to \in Place \ {"bind", "assign"},
           Goes(l, from, to), open' = open, UNCHANGED <<socket, stopping>>,
           torn' \subseteq Listener,
           \A other \in torn' : other # l => at[other] \in Iterating,
           l \in torn' => to \in Iterating
    PROVE  ThreadsOK'
<1>1. /\ at' \in [Listener -> Place] /\ at'[l] = to
      /\ \A other \in Listener \ {l} : at'[other] = at[other]
  BY ThreadGoes
<1>2. \A other \in torn' : at'[other] \in Iterating
  BY <1>1
<1>3. Sockets'
  BY <1>1 DEF Sockets, ThreadsOK
<1> QED
  BY <1>1, <1>2, <1>3 DEF ThreadsOK

\* What leaves the map, the lists and the copies alone keeps them on their way,
\* if no thread leaves or enters the places where a copy is made or held.
LEMMA StillComing ==
    ASSUME devices' = devices, hand' = hand, posts' = posts, shown' = shown,
           \A l \in Listener : at'[l] \in {"copy", "recopy"} <=> at[l] \in {"copy", "recopy"},
           \A l \in Listener : at'[l] \in Held <=> at[l] \in Held,
           Coming
    PROVE  Coming'
BY DEF Coming, Latest, Listed

\* A step that copies, posts or shows nothing and leaves the map alone.
LEMMA Elsewhere ==
    ASSUME Inv, ThreadsOK', on' \subseteq PC, running' \in BOOLEAN, stopping' \in BOOLEAN,
           loose' = loose,
           devices' = devices, hand' = hand, UNCHANGED screen,
           \A l \in Listener : at'[l] = at[l] \/ (at[l] \notin {"copy", "recopy"} \cup Held
                                                  /\ at'[l] \notin {"copy", "recopy"} \cup Held)
    PROVE  Inv'
<1>1. DataOK' /\ ScreenOK'
  BY Parts DEF DataOK, ScreenOK, screen
<1>2. (loose \/ Coming)'
  BY StillComing DEF Inv, screen
<1> QED
  BY <1>1, <1>2, Parts DEF Inv, TypeOK, ThreadsOK, DataOK, ScreenOK, Place, Ages

----------------------------------------------------------------------------

\* At first nothing is listed, posted or shown.
LEMMA InvInit == Init => Inv
<1> SUFFICES ASSUME Init PROVE Inv
  OBVIOUS
<1>1. ThreadsOK
  BY DiscoveryAssumption DEF Init, ThreadsOK, Sockets, Place
<1>2. DataOK
  BY DEF Init, DataOK, Ages
<1>3. ScreenOK
  BY DiscoveryAssumption, EmptySeq DEF Init, ScreenOK
<1>4. Coming
  BY DEF Init, Coming, Latest, Listed, Held
<1> QED
  BY <1>1, <1>2, <1>3, <1>4, Parts

\* A new listener is none whose socket the threads share.
LEMMA InvStart == ASSUME Inv, Start PROVE Inv'
<1>1. PICK l \in Listener \ {socket} : Goes(l, "none", "bind")
  BY DEF Start, Goes
<1>2. ThreadsOK /\ "bind" \in Place
  BY Parts DEF Place
<1>3. /\ at' \in [Listener -> Place] /\ at[l] = "none" /\ at'[l] = "bind"
      /\ \A other \in Listener \ {l} : at'[other] = at[other]
  BY <1>1, <1>2, ThreadGoes
<1>4. ThreadsOK'
  BY <1>2, <1>3 DEF Start, ThreadsOK, Sockets, Iterating
<1>5. /\ on' \subseteq PC /\ running' \in BOOLEAN
      /\ stopping' = stopping /\ stopping \in BOOLEAN /\ loose' = loose
      /\ devices' = devices /\ hand' = hand /\ UNCHANGED screen
  BY DEF Start, Inv, TypeOK
<1> QED
  BY <1>3, <1>4, <1>5, Elsewhere DEF Held

\* A stop closes no socket that a thread is about to assign.
LEMMA InvStop == ASSUME Inv, Stop PROVE Inv'
<1>1. ThreadsOK /\ DataOK /\ ScreenOK
  BY Parts
<1>2. /\ on' = on /\ at' = at /\ hand' = hand /\ posts' = posts /\ shown' = shown
  BY DEF Stop, screen
<1>3. CASE /\ stopping' = TRUE /\ running' = FALSE /\ open' = open \ {socket}
           /\ UNCHANGED <<socket, devices, torn, loose>>
  <2>1. ThreadsOK'
    BY <1>1, <1>2, <1>3 DEF ThreadsOK, Sockets
  <2>2. on' \subseteq PC
    BY <1>1, <1>2 DEF DataOK
  <2> QED
    BY <1>2, <1>3, <2>1, <2>2, Elsewhere DEF screen
<1>4. CASE /\ stopping' = FALSE /\ socket' = NoSocket /\ Change([pc \in PC |-> "absent"], Listener)
           /\ loose' = TRUE /\ UNCHANGED <<running, open>>
  <2>1. torn' \subseteq Listener /\ \A l \in torn' : at[l] \in Iterating
    BY <1>1, <1>4 DEF Change, ThreadsOK
  <2>2. ThreadsOK'
    BY <1>1, <1>2, <1>4, <2>1, DiscoveryAssumption DEF ThreadsOK, Sockets
  <2>3. DataOK' /\ ScreenOK'
    BY <1>1, <1>2, <1>4 DEF Change, DataOK, ScreenOK, Ages
  <2> QED
    BY <1>4, <2>2, <2>3, Parts DEF Inv, TypeOK, ThreadsOK, DataOK, ScreenOK, Place, Ages
<1> QED
  BY <1>3, <1>4 DEF Stop, Forgotten

\* Of several elements the last stays the last when the first is taken.
LEMMA LastOfTail ==
    ASSUME NEW S, NEW s \in Seq(S), s # <<>>
    PROVE  /\ Len(s) \in Nat \ {0} /\ s[1] \in S /\ Head(s) = s[1]
           /\ Tail(s) \in Seq(S) /\ Len(Tail(s)) = Len(s) - 1
           /\ Tail(s) = <<>> <=> Len(s) = 1
           /\ Tail(s) # <<>> => Tail(s)[Len(Tail(s))] = s[Len(s)]
<1>1. Len(s) \in Nat /\ Len(s) # 0
  BY EmptySeq, LenProperties
<1>2. /\ Head(s) = s[1] /\ Tail(s) \in Seq(S) /\ Len(Tail(s)) = Len(s) - 1
      /\ \A i \in 1..Len(s) - 1 : Tail(s)[i] = s[i + 1]
  BY HeadTailProperties
<1>3. s[1] \in S
  BY <1>1, ElementOfSeq
<1>4. Tail(s) = <<>> <=> Len(Tail(s)) = 0
  BY <1>2, EmptySeq, Zenon
<1>5. Len(s) # 1 => Tail(s)[Len(s) - 1] = s[Len(s)]
  <2> SUFFICES ASSUME Len(s) # 1 PROVE Tail(s)[Len(s) - 1] = s[Len(s)]
    OBVIOUS
  <2> DEFINE n == Len(s)
             t == Tail(s)
  <2>1. n \in Nat /\ n # 0 /\ n # 1 /\ \A i \in 1..n - 1 : t[i] = s[i + 1]
    BY <1>1, <1>2
  <2> HIDE DEF n, t
  <2>2. n - 1 \in 1..n - 1 /\ (n - 1) + 1 = n
    BY <2>1
  <2>3. t[n - 1] = s[(n - 1) + 1]
    BY <2>1, <2>2, Zenon
  <2> QED
    BY <2>2, <2>3 DEF n, t
<1> QED
  BY <1>1, <1>2, <1>3, <1>4, <1>5

\* The list that is shown leaves the others to come; the last is shown in turn.
LEMMA Showing ==
    ASSUME ScreenOK, posts # <<>>, shown' = Head(posts), posts' = Tail(posts)
    PROVE  ScreenOK' /\ Latest' = Latest
<1>1. /\ posts \in Seq(SUBSET PC) /\ Len(posts) <= MaxPosts /\ MaxPosts \in Nat
  BY DiscoveryAssumption DEF ScreenOK
<1>2. /\ Len(posts) \in Nat \ {0} /\ posts[1] \in SUBSET PC /\ Head(posts) = posts[1]
      /\ Tail(posts) \in Seq(SUBSET PC) /\ Len(Tail(posts)) = Len(posts) - 1
      /\ Tail(posts) = <<>> <=> Len(posts) = 1
      /\ Tail(posts) # <<>> => Tail(posts)[Len(Tail(posts))] = posts[Len(posts)]
  BY <1>1, LastOfTail
<1>3. ScreenOK'
  BY <1>1, <1>2 DEF ScreenOK
<1>4. CASE Tail(posts) = <<>>
  <2>1. Latest' = posts[1] /\ Latest = posts[1]
    BY <1>2, <1>4 DEF Latest
  <2> QED
    BY <1>3, <2>1
<1>5. CASE Tail(posts) # <<>>
  <2>1. Latest' = Tail(posts)[Len(Tail(posts))]
    BY <1>5 DEF Latest
  <2>2. Latest = posts[Len(posts)]
    BY DEF Latest
  <2> QED
    BY <1>2, <1>3, <1>5, <2>1, <2>2
<1> QED
  BY <1>4, <1>5

\* Showing a list changes nothing of what is still to come.
LEMMA InvShow == ASSUME Inv, Show PROVE Inv'
<1>1. ThreadsOK /\ DataOK /\ ScreenOK
  BY Parts
<1>2. ScreenOK' /\ Latest' = Latest
  BY <1>1, Showing DEF Show
<1>3. /\ on' = on /\ running' = running /\ stopping' = stopping
      /\ socket' = socket /\ devices' = devices /\ at' = at
      /\ open' = open /\ torn' = torn /\ hand' = hand /\ loose' = loose
  BY DEF Show, switch
<1>4. ThreadsOK' /\ DataOK'
  BY <1>1, <1>3 DEF ThreadsOK, DataOK, Sockets
<1>5. loose' \/ Coming'
  BY <1>2, <1>3 DEF Inv, Coming, Listed
<1> QED
  BY <1>2, <1>4, <1>5 DEF Inv, TypeOK, ThreadsOK, DataOK, ScreenOK, Place, Ages

\* The daemons know nothing of the list.
LEMMA InvDaemon == ASSUME Inv, NEW pc \in PC, Daemon(pc) PROVE Inv'
<1>1. /\ on' \subseteq PC /\ running' \in BOOLEAN
      /\ stopping' = stopping /\ stopping \in BOOLEAN /\ loose' = loose
      /\ devices' = devices /\ hand' = hand /\ UNCHANGED screen
      /\ at' = at /\ open' = open /\ torn' = torn /\ socket' = socket
  BY DEF Daemon, Inv, TypeOK, switch
<1>2. ThreadsOK'
  BY <1>1, Parts DEF ThreadsOK, Sockets
<1> QED
  BY <1>1, <1>2, Elsewhere

\* An entry that is due is listed still.
LEMMA InvAge == ASSUME Inv, NEW pc \in PC, Age(pc) PROVE Inv'
<1>1. ThreadsOK /\ DataOK /\ ScreenOK
  BY Parts
<1>2. /\ devices' = [devices EXCEPT ![pc] = "stale"] /\ devices[pc] = "fresh"
      /\ on' = on /\ running' = running /\ stopping' = stopping
      /\ socket' = socket /\ at' = at /\ open' = open
      /\ torn' = torn /\ hand' = hand /\ posts' = posts /\ shown' = shown /\ loose' = loose
  BY DEF Age, switch, screen
<1>3. devices' \in [PC -> Ages] /\ Listed' = Listed
  BY <1>1, <1>2 DEF DataOK, Ages, Listed
<1>4. ThreadsOK' /\ DataOK' /\ ScreenOK'
  BY <1>1, <1>2, <1>3 DEF ThreadsOK, DataOK, ScreenOK, Sockets
<1>5. loose' \/ Coming'
  BY <1>2, <1>3 DEF Inv, Coming, Latest
<1> QED
  BY <1>4, <1>5 DEF Inv, TypeOK, ThreadsOK, DataOK, ScreenOK, Place, Ages

----------------------------------------------------------------------------

\* A socket that is bound is open.
LEMMA InvBind == ASSUME Inv, NEW l \in Listener, Bind(l) PROVE Inv'
<1>1. ThreadsOK /\ {"assign", "none"} \subseteq Place
  BY Parts DEF Place
<1>2. PICK to \in {"assign", "none"} :
          /\ Goes(l, "bind", to)
          /\ open' = IF to = "assign" THEN open \cup {l} ELSE open
  BY DEF Bind
<1>3. /\ at' \in [Listener -> Place] /\ at[l] = "bind" /\ at'[l] = to
      /\ \A other \in Listener \ {l} : at'[other] = at[other]
  BY <1>1, <1>2, ThreadGoes
<1>4. /\ on' \subseteq PC /\ running' \in BOOLEAN
      /\ stopping' = stopping /\ stopping \in BOOLEAN /\ loose' = loose /\ socket' = socket
      /\ devices' = devices /\ hand' = hand /\ UNCHANGED screen /\ torn' = torn
  BY DEF Bind, Inv, TypeOK, switch
<1>5. l \notin torn
  BY <1>1, <1>3 DEF ThreadsOK, Iterating
<1>6. ThreadsOK'
  BY <1>1, <1>2, <1>3, <1>4, <1>5 DEF ThreadsOK, Sockets
<1> QED
  BY <1>3, <1>4, <1>6, Elsewhere DEF Held

\* The socket a thread assigns is its own, and open.
LEMMA InvAssign == ASSUME Inv, NEW l \in Listener, Assign(l) PROVE Inv'
<1>1. ThreadsOK /\ "loop" \in Place
  BY Parts DEF Place
<1>2. Goes(l, "assign", "loop") /\ socket' = l
  BY DEF Assign
<1>3. /\ at' \in [Listener -> Place] /\ at[l] = "assign" /\ at'[l] = "loop"
      /\ \A other \in Listener \ {l} : at'[other] = at[other]
  BY <1>1, <1>2, ThreadGoes
<1>4. /\ on' \subseteq PC /\ running' \in BOOLEAN
      /\ stopping' = stopping /\ stopping \in BOOLEAN /\ loose' = loose /\ open' = open
      /\ devices' = devices /\ hand' = hand /\ UNCHANGED screen /\ torn' = torn
  BY DEF Assign, Inv, TypeOK
<1>5. l \notin torn
  BY <1>1, <1>3 DEF ThreadsOK, Iterating
<1>6. ThreadsOK'
  BY <1>1, <1>2, <1>3, <1>4, <1>5 DEF ThreadsOK, Sockets
<1> QED
  BY <1>3, <1>4, <1>6, Elsewhere DEF Held

\* The loop ends or goes on to receive, where nothing is held.
LEMMA InvLoop == ASSUME Inv, NEW l \in Listener, Loop(l) PROVE Inv'
<1>1. ThreadsOK /\ {"none", "receive"} \subseteq Place \ {"bind", "assign"}
  BY Parts DEF Place
<1>2. PICK from \in {"loop", "receive"}, to \in {"none", "receive"} : Goes(l, from, to)
  BY DEF Loop
<1>3. /\ on' \subseteq PC /\ running' \in BOOLEAN
      /\ stopping' = stopping /\ stopping \in BOOLEAN /\ loose' = loose /\ socket' = socket
      /\ open' = open /\ devices' = devices /\ hand' = hand /\ UNCHANGED screen
      /\ torn' = torn
  BY DEF Loop, Inv, TypeOK, switch
<1>4. /\ at[l] = from /\ at'[l] = to
      /\ \A other \in Listener \ {l} : at'[other] = at[other]
  BY <1>1, <1>2, ThreadGoes
<1>5. torn \subseteq Listener /\ l \notin torn /\ \A other \in torn : at[other] \in Iterating
  BY <1>1, <1>4 DEF ThreadsOK, Iterating
<1>6. ThreadsOK'
  BY <1>1, <1>2, <1>3, <1>5, ThreadsGo
<1> QED
  BY <1>3, <1>4, <1>6, Elsewhere DEF Held

\* Whoever hears a beacon holds no copy of the map.
LEMMA InvReceive == ASSUME Inv, NEW l \in Listener, NEW pc \in PC, Receive(l, pc) PROVE Inv'
<1>1. ThreadsOK /\ DataOK /\ ScreenOK /\ "put" \in Place \ {"bind", "assign"}
  BY Parts DEF Place
<1>2. /\ Goes(l, "receive", "put") /\ hand' = [hand EXCEPT ![l] = {pc}]
      /\ on' = on /\ running' = running /\ stopping' = stopping
      /\ socket' = socket /\ devices' = devices
      /\ open' = open /\ torn' = torn /\ posts' = posts /\ shown' = shown /\ loose' = loose
  BY DEF Receive, switch, screen
<1>3. /\ at[l] = "receive" /\ at'[l] = "put"
      /\ \A other \in Listener \ {l} : at'[other] = at[other]
  BY <1>1, <1>2, ThreadGoes
<1>4. torn \subseteq Listener /\ l \notin torn /\ \A other \in torn : at[other] \in Iterating
  BY <1>1, <1>3 DEF ThreadsOK, Iterating
<1>5. ThreadsOK'
  BY <1>1, <1>2, <1>4, ThreadsGo
<1>6. DataOK' /\ ScreenOK'
  BY <1>1, <1>2 DEF DataOK, ScreenOK
<1>7. Coming => Coming'
  <2>1. \A k \in Listener : at[k] \in Held => k # l /\ at'[k] = at[k] /\ hand'[k] = hand[k]
    BY <1>1, <1>2, <1>3 DEF Held, DataOK
  <2>2. \A k \in Listener : at'[k] \in Held => at[k] \in Held
    BY <1>3 DEF Held
  <2>3. \A k \in Listener : at[k] \in {"copy", "recopy"} => at'[k] = at[k]
    BY <1>3
  <2>4. Listed' = Listed /\ Latest' = Latest
    BY <1>2 DEF Listed, Latest
  <2> QED
    BY <2>1, <2>2, <2>3, <2>4 DEF Coming
<1> QED
  BY <1>2, <1>5, <1>6, <1>7 DEF Inv, TypeOK, ThreadsOK, DataOK, ScreenOK, Place, Ages

\* A listener that wakes goes on to look for entries that are due.
LEMMA InvWake == ASSUME Inv, NEW l \in Listener, Wake(l) PROVE Inv'
<1>1. ThreadsOK /\ "prune" \in Place \ {"bind", "assign"} /\ "prune" \in Iterating
  BY Parts DEF Place, Iterating
<1>2. Goes(l, "receive", "prune")
  BY DEF Wake
<1>3. /\ on' \subseteq PC /\ running' \in BOOLEAN
      /\ stopping' = stopping /\ stopping \in BOOLEAN /\ loose' = loose /\ socket' = socket
      /\ open' = open /\ devices' = devices /\ hand' = hand /\ UNCHANGED screen
      /\ torn' = torn
  BY DEF Wake, Inv, TypeOK, switch
<1>4. /\ at[l] = "receive" /\ at'[l] = "prune"
      /\ \A other \in Listener \ {l} : at'[other] = at[other]
  BY <1>1, <1>2, ThreadGoes
<1>5. torn \subseteq Listener /\ \A other \in torn : at[other] \in Iterating
  BY <1>1 DEF ThreadsOK
<1>6. ThreadsOK'
  BY <1>1, <1>2, <1>3, <1>5, ThreadsGo
<1> QED
  BY <1>3, <1>4, <1>6, Elsewhere DEF Held

\* After an update of the map a copy of it is due.
LEMMA InvPut == ASSUME Inv, NEW l \in Listener, Put(l) PROVE Inv'
<1>1. ThreadsOK /\ DataOK /\ ScreenOK /\ "copy" \in Place \ {"bind", "assign"}
      /\ "copy" \in Iterating
  BY Parts DEF Place, Iterating
<1>2. /\ Goes(l, "put", "copy")
      /\ devices' = [pc \in PC |-> IF pc \in hand[l] THEN "fresh" ELSE devices[pc]]
      /\ torn' = torn \cup {k \in Listener \ {l} : devices' # devices /\ at[k] \in Iterating}
      /\ on' = on /\ running' = running /\ stopping' = stopping
      /\ socket' = socket /\ hand' = hand
      /\ open' = open /\ posts' = posts /\ shown' = shown /\ loose' = loose
  BY DEF Put, PublishedPut, Change, switch, screen
<1>3. at'[l] = "copy"
  BY <1>1, <1>2, ThreadGoes
<1>4. torn' \subseteq Listener /\ \A other \in torn' : at[other] \in Iterating
  BY <1>1, <1>2 DEF ThreadsOK
<1>5. ThreadsOK'
  BY <1>1, <1>2, <1>4, ThreadsGo
<1>6. DataOK' /\ ScreenOK'
  BY <1>1, <1>2 DEF DataOK, ScreenOK, Ages
<1>7. Coming'
  BY <1>3 DEF Coming
<1> QED
  BY <1>5, <1>6, <1>7 DEF Inv, TypeOK, ThreadsOK, DataOK, ScreenOK, Place, Ages

\* A copy is the map, and the only one that is held unless listeners overlap.
LEMMA InvCopy ==
    ASSUME Inv, NEW l \in Listener, NEW from, NEW to \in Held, Copy(l, from, to)
    PROVE  Inv'
<1>1. ThreadsOK /\ DataOK /\ ScreenOK /\ to \in Place \ {"bind", "assign"}
  BY Parts DEF Place, Held
<1>2. /\ Goes(l, from, to) /\ hand' = [hand EXCEPT ![l] = Listed]
      /\ torn' = torn \ {l} /\ loose' = Others(l)
      /\ on' = on /\ running' = running /\ stopping' = stopping
      /\ socket' = socket /\ devices' = devices
      /\ open' = open /\ posts' = posts /\ shown' = shown
  BY DEF Copy, switch, screen
<1>3. /\ at'[l] = to /\ \A other \in Listener \ {l} : at'[other] = at[other]
  BY <1>1, <1>2, ThreadGoes
<1>4. torn' \subseteq Listener /\ l \notin torn' /\ \A other \in torn' : at[other] \in Iterating
  BY <1>1, <1>2 DEF ThreadsOK
<1>5. ThreadsOK'
  BY <1>1, <1>2, <1>4, ThreadsGo
<1>6. DataOK' /\ ScreenOK'
  <2>1. Listed \in SUBSET PC /\ Others(l) \in BOOLEAN
    BY DEF Listed, Others
  <2> QED
    BY <1>1, <1>2, <2>1 DEF DataOK, ScreenOK
<1>7. ~Others(l) => Coming'
  <2> SUFFICES ASSUME ~Others(l) PROVE Coming'
    OBVIOUS
  <2>1. \A other \in Listener \ {l} : at'[other] \notin Held
    BY <1>3 DEF Others, Held
  <2>2. Listed' = Listed /\ hand'[l] = Listed
    BY <1>1, <1>2 DEF Listed, DataOK
  <2> QED
    BY <1>3, <2>1, <2>2 DEF Coming
<1> QED
  BY <1>2, <1>5, <1>6, <1>7 DEF Inv, TypeOK, ThreadsOK, DataOK, ScreenOK, Place, Ages

\* The only copy that is held is the list posted last.
LEMMA InvPost ==
    ASSUME Inv, NEW l \in Listener, NEW from \in Held, NEW to \in {"prune", "loop"},
           Post(l, from, to)
    PROVE  Inv'
<1>1. ThreadsOK /\ DataOK /\ ScreenOK /\ to \in Place \ {"bind", "assign"}
  BY Parts DEF Place, Iterating
<1>2. /\ Goes(l, from, to) /\ hand' = [hand EXCEPT ![l] = {}] /\ torn' = torn
      /\ Len(posts) < MaxPosts /\ posts' = Append(posts, hand[l])
      /\ on' = on /\ running' = running /\ stopping' = stopping
      /\ socket' = socket /\ devices' = devices
      /\ open' = open /\ shown' = shown /\ loose' = loose
  BY DEF Post, switch
<1>3. /\ at[l] = from /\ at'[l] = to
      /\ \A other \in Listener \ {l} : at'[other] = at[other]
  BY <1>1, <1>2, ThreadGoes
<1>4. torn \subseteq Listener /\ l \notin torn /\ \A other \in torn : at[other] \in Iterating
  BY <1>1, <1>3 DEF ThreadsOK, Iterating, Held
<1>5. ThreadsOK'
  BY <1>1, <1>2, <1>4, ThreadsGo
<1>6. /\ posts' \in Seq(SUBSET PC) /\ Len(posts') = Len(posts) + 1 /\ Len(posts) \in Nat
      /\ posts'[Len(posts) + 1] = hand[l] /\ hand[l] \in SUBSET PC
  <2>1. hand[l] \in SUBSET PC /\ posts \in Seq(SUBSET PC)
    BY <1>1 DEF DataOK, ScreenOK
  <2> QED
    BY <1>2, <2>1, AppendProperties, LenProperties
<1>7. DataOK' /\ ScreenOK'
  BY <1>1, <1>2, <1>6, DiscoveryAssumption DEF DataOK, ScreenOK
<1>8. Latest' = hand[l]
  <2>1. posts' # <<>>
    BY <1>6, EmptySeq
  <2> QED
    BY <1>6, <2>1 DEF Latest
<1>9. Coming => Coming'
  <2> SUFFICES ASSUME Coming PROVE Coming'
    OBVIOUS
  <2>1. Listed' = Listed
    BY <1>2 DEF Listed
  <2>2. CASE \E k \in Listener : at[k] \in {"copy", "recopy"}
    <3>1. \E k \in Listener : at'[k] \in {"copy", "recopy"}
      BY <1>3, <2>2 DEF Held
    <3> QED
      BY <3>1 DEF Coming
  <2>3. CASE \E k \in Listener :
                /\ at[k] \in Held /\ hand[k] = Listed
                /\ \A other \in Listener \ {k} : at[other] \notin Held
    <3>1. hand[l] = Listed /\ \A other \in Listener \ {l} : at[other] \notin Held
      BY <1>3, <2>3
    <3>2. \A k \in Listener : at'[k] \notin Held
      BY <1>3, <3>1 DEF Held
    <3> QED
      BY <1>8, <2>1, <3>1, <3>2 DEF Coming
  <2> QED
    BY <1>3, <2>2, <2>3 DEF Coming
<1> QED
  BY <1>2, <1>5, <1>7, <1>9 DEF Inv, TypeOK, ThreadsOK, DataOK, ScreenOK, Place, Ages

\* When an entry goes a copy of the map is due; otherwise the map is as it was.
LEMMA InvPrune == ASSUME Inv, NEW l \in Listener, Prune(l) PROVE Inv'
<1> DEFINE to == IF Expired THEN "recopy" ELSE "loop"
<1>1. ThreadsOK /\ DataOK /\ ScreenOK /\ to \in Place \ {"bind", "assign"}
  BY Parts DEF Place, Iterating
<1>2. /\ Goes(l, "prune", to)
      /\ devices' = [pc \in PC |-> IF devices[pc] = "stale" THEN "absent" ELSE devices[pc]]
      /\ torn' = (torn \ {l}) \cup {o \in Listener \ {l} : Expired /\ at[o] \in Iterating}
      /\ on' = on /\ running' = running /\ stopping' = stopping
      /\ socket' = socket /\ hand' = hand
      /\ open' = open /\ posts' = posts /\ shown' = shown /\ loose' = loose
  BY DEF Prune, switch, screen
<1>3. /\ at[l] = "prune" /\ at'[l] = to
      /\ \A other \in Listener \ {l} : at'[other] = at[other]
  BY <1>1, <1>2, ThreadGoes
<1>4. torn' \subseteq Listener /\ l \notin torn' /\ \A other \in torn' : at[other] \in Iterating
  BY <1>1, <1>2 DEF ThreadsOK
<1>5. ThreadsOK'
  BY <1>1, <1>2, <1>4, ThreadsGo
<1>6. DataOK' /\ ScreenOK'
  BY <1>1, <1>2 DEF DataOK, ScreenOK, Ages
<1>7. CASE Expired
  <2>1. Coming'
    BY <1>3, <1>7 DEF Coming
  <2> QED
    BY <1>5, <1>6, <2>1 DEF Inv, TypeOK, ThreadsOK, DataOK, ScreenOK, Place, Ages
<1>8. CASE ~Expired
  <2>1. devices' = devices
    BY <1>1, <1>2, <1>8 DEF Expired, DataOK
  <2>2. to = "loop"
    BY <1>8
  <2> QED
    BY <1>2, <1>3, <1>5, <1>6, <2>1, <2>2, Elsewhere DEF Held, DataOK, screen
<1> QED
  BY <1>7, <1>8

\* An exception ends the listener that was disturbed.
LEMMA InvCollide == ASSUME Inv, NEW l \in Listener, Collide(l) PROVE Inv'
<1>1. ThreadsOK /\ DataOK /\ ScreenOK /\ "none" \in Place
  BY Parts DEF Place
<1>2. /\ torn' = torn \ {l} /\ at' = [at EXCEPT ![l] = "none"]
      /\ hand' = [hand EXCEPT ![l] = {}] /\ loose' = TRUE
      /\ on' = on /\ running' = running /\ stopping' = stopping
      /\ socket' = socket /\ devices' = devices
      /\ open' = open /\ posts' = posts /\ shown' = shown
  BY DEF Collide, switch, screen
<1>3. ThreadsOK'
  BY <1>1, <1>2 DEF ThreadsOK, Sockets
<1>4. DataOK' /\ ScreenOK'
  BY <1>1, <1>2 DEF DataOK, ScreenOK
<1> QED
  BY <1>2, <1>3, <1>4 DEF Inv, TypeOK, ThreadsOK, DataOK, ScreenOK, Place, Ages

\* Nothing changes when nothing happens.
LEMMA InvStutter == ASSUME Inv, UNCHANGED vars PROVE Inv'
<1>1. /\ on' = on /\ running' = running /\ stopping' = stopping
      /\ socket' = socket /\ devices' = devices /\ at' = at
      /\ open' = open /\ torn' = torn /\ hand' = hand /\ posts' = posts /\ shown' = shown
      /\ loose' = loose
  BY DEF vars, switch, screen
<1> QED
  BY <1>1 DEF Inv, TypeOK, Sockets, Coming, Latest, Listed

----------------------------------------------------------------------------

\* A listener's step, whichever it is.
LEMMA InvStep == ASSUME Inv, NEW l \in Listener, Step(l) PROVE Inv'
<1>1. {"post", "repost"} \subseteq Held
  BY DEF Held
<1> QED
  BY <1>1, InvBind, InvAssign, InvLoop, InvWake, InvPut, InvPrune, InvCopy, InvPost DEF Step

\* The invariant holds in every reachable state.
THEOREM Invariance == Spec => []Inv
<1>1. ASSUME Inv, [Next]_vars PROVE Inv'
  BY <1>1, InvStart, InvStop, InvShow, InvDaemon, InvAge, InvStep, InvCollide, InvReceive,
     InvStutter DEF Next
<1> QED
  BY InvInit, <1>1, PTL DEF Spec

\* Every variable keeps its type; in particular the socket the threads share is
\* an open one or none, whoever closed and assigned it last.
THEOREM TypeCorrect == Spec => []TypeOK
<1>1. Inv => TypeOK
  BY DEF Inv
<1> QED
  BY <1>1, Invariance, PTL

\* Once everything posted is shown the rows are the PCs in the map, unless a stop
\* or an overlap of listeners interfered.
THEOREM AlwaysShownAsListed == Spec => []ShownIsListed
<1>1. ASSUME Inv PROVE ShownIsListed
  <2> SUFFICES ASSUME posts = <<>>, ~loose,
                      \A l \in Listener : at[l] \in {"none", "loop", "receive", "put"}
               PROVE  shown = Listed
    BY DEF ShownIsListed
  <2>1. Coming /\ \A l \in Listener : at[l] \notin {"copy", "recopy"} \cup Held
    BY <1>1 DEF Inv, Held
  <2>2. Latest = Listed
    BY <2>1 DEF Coming
  <2> QED
    BY <2>2 DEF Latest
<1> QED
  BY <1>1, Invariance, PTL
=============================================================================
