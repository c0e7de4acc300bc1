------------------------------ MODULE GuiProofs ------------------------------
(***************************************************************************)
(* Theorems about the window on the PC, for any number of daemons.         *)
(***************************************************************************)
EXTENDS Gui, TLAPS

\* What a pipe holds of a daemon that lives tells the last word when it holds
\* one word only.
Truthful(p) ==
    p.life # "gone" => /\ p.pipe = {"up"} => p.said
                       /\ p.pipe = {"down"} => ~p.said

\* A daemon whose output is read is shown as it said last.
Inv == TypeOK /\ ShownIsSaid /\ \A d \in Id : Truthful(daemon[d])

----------------------------------------------------------------------------

\* Two words: a pipe holds one of them, both, or nothing.
LEMMA Words ==
    ASSUME NEW words \in SUBSET Word
    PROVE  words \in {{}, {"up"}, {"down"}, Word}
BY DEF Word

\* The fields of the two daemons that are written down in full.
LEMMA Born ==
    /\ Nobody \in Daemon /\ Truthful(Nobody)
    /\ \A box \in BOOLEAN :
          /\ Spawned(box) \in Daemon /\ Truthful(Spawned(box))
          /\ Spawned(box).read = TRUE /\ Spawned(box).said = FALSE
BY DEF Nobody, Spawned, Daemon, Truthful, Word

\* One daemon changes.
LEMMA Changed ==
    ASSUME daemon \in [Id -> Daemon], NEW d \in Id, NEW p \in Daemon,
           daemon' = [daemon EXCEPT ![d] = p]
    PROVE  /\ daemon' \in [Id -> Daemon] /\ daemon'[d] = p
           /\ \A e \in Id \ {d} : daemon'[e] = daemon[e]
OBVIOUS

\* The current daemon is one of those started.
LEMMA CurrentId == TypeOK /\ current # 0 => current \in Id
BY GuiAssumption DEF TypeOK, Id

\* A step of a daemon leaves the window as true as it was when the daemon ends,
\* or goes on with its words unread or unchanged.
LEMMA DaemonStep ==
    ASSUME Inv, NEW d \in Id, NEW p \in Daemon,
           daemon' = [daemon EXCEPT ![d] = p],
           UNCHANGED <<app, connected, blame>>,
           \/ p.life = "gone"
           \/ /\ Truthful(p) /\ daemon[d].life # "gone" /\ p.read = daemon[d].read
              /\ window => p.pipe # {} \/ (p.pipe = daemon[d].pipe /\ p.said = daemon[d].said)
    PROVE  Inv'
<1>1. /\ daemon' \in [Id -> Daemon] /\ daemon'[d] = p
      /\ \A e \in Id \ {d} : daemon'[e] = daemon[e]
  BY Changed DEF Inv, TypeOK
<1>2. /\ window' = window /\ usb' = usb /\ started' = started /\ current' = current
      /\ connected' = connected /\ blame' = blame
  BY DEF app
<1>3. current # 0 => current \in Id
  BY CurrentId DEF Inv
<1>4. TypeOK'
  <2>1. current # 0 => daemon'[current].read \/ daemon'[current].life = "gone"
    <3>1. CASE current = d
      BY <1>1, <3>1 DEF Inv, TypeOK
    <3>2. CASE current # d
      BY <1>1, <1>3, <3>2 DEF Inv, TypeOK
    <3> QED
      BY <3>1, <3>2
  <2> QED
    BY <1>1, <1>2, <2>1 DEF Inv, TypeOK
<1>5. ShownIsSaid'
  <2>1. CASE current = d
    BY <1>1, <1>2, <2>1 DEF Inv, ShownIsSaid
  <2>2. CASE current # d
    BY <1>1, <1>2, <1>3, <2>2 DEF Inv, ShownIsSaid
  <2> QED
    BY <2>1, <2>2
<1>6. \A e \in Id : Truthful(daemon'[e])
  <2>1. Truthful(p)
    BY DEF Truthful
  <2> QED
    BY <1>1, <2>1 DEF Inv
<1> QED
  BY <1>4, <1>5, <1>6 DEF Inv

----------------------------------------------------------------------------

\* At first nothing was said, and nothing is shown.
LEMMA InvInit == Init => Inv
<1> SUFFICES ASSUME Init PROVE Inv
  OBVIOUS
<1>1. started \in 0..MaxDaemons /\ current \in {0, started} /\ Id = 1..MaxDaemons
  BY GuiAssumption DEF Init, Id
<1>2. \A d \in Id : daemon[d] \in {Spawned(FALSE), Nobody}
  BY DEF Init
<1>3. daemon \in [Id -> Daemon] /\ \A d \in Id : Truthful(daemon[d])
  <2>1. daemon = [d \in Id |-> IF d <= started THEN Spawned(FALSE) ELSE Nobody]
    BY DEF Init
  <2> QED
    BY <1>2, <2>1, Born
<1>4. current # 0 => current \in Id /\ daemon[current] = Spawned(FALSE)
  <2>1. started \in Nat /\ current = started
        /\ daemon = [d \in Id |-> IF d <= started THEN Spawned(FALSE) ELSE Nobody]
    BY <1>1, GuiAssumption DEF Init
  <2>2. current # 0 => current \in Id /\ current <= started
    BY <1>1, <2>1, GuiAssumption
  <2> QED
    BY <2>1, <2>2
<1> QED
  BY <1>1, <1>3, <1>4, Born DEF Init, Inv, TypeOK, ShownIsSaid

\* A daemon that is told to end has said what it had said.
LEMMA Told ==
    ASSUME daemon \in [Id -> Daemon], NEW d \in Id
    PROVE  /\ Signalled(d) \in Daemon
           /\ Truthful(daemon[d]) => Truthful(Signalled(d))
<1>1. daemon[d] \in Daemon
  OBVIOUS
<1> QED
  BY <1>1 DEF Signalled, Daemon, Truthful

\* A new daemon has said nothing, and nothing is shown of it.
LEMMA InvToggle == ASSUME Inv, Toggle PROVE Inv'
<1>1. /\ daemon \in [Id -> Daemon] /\ \A d \in Id : Truthful(daemon[d])
      /\ window \in BOOLEAN /\ usb \in BOOLEAN
      /\ started \in Nat /\ started < MaxDaemons /\ MaxDaemons \in Nat
  BY GuiAssumption DEF Inv, TypeOK, Toggle
<1>2. /\ window' = window /\ usb' \in BOOLEAN /\ connected' = FALSE /\ blame' = "nobody"
  BY <1>1 DEF Toggle, ShowNone
<1>3. \A d \in Id : Signalled(d) \in Daemon /\ Truthful(Signalled(d))
  BY <1>1, Told
<1>4. CASE /\ started' = started + 1 /\ current' = started'
           /\ daemon' = [d \in Id |-> IF d = started' THEN Spawned(usb') ELSE Signalled(d)]
  <2>1. started' \in 0..MaxDaemons /\ started' \in Id /\ current' \in Id
    BY <1>1, <1>4 DEF Id
  <2>2. Spawned(usb') \in Daemon /\ Truthful(Spawned(usb'))
        /\ Spawned(usb').read = TRUE /\ Spawned(usb').said = FALSE
    BY <1>2, Born
  <2>3. daemon' \in [Id -> Daemon] /\ daemon'[current'] = Spawned(usb')
    BY <1>3, <1>4, <2>1, <2>2
  <2>4. \A d \in Id : Truthful(daemon'[d])
    BY <1>3, <1>4, <2>2
  <2> QED
    BY <1>1, <1>2, <1>4, <2>1, <2>2, <2>3, <2>4 DEF Inv, TypeOK, ShownIsSaid
<1>5. CASE /\ current' = 0 /\ daemon' = [d \in Id |-> Signalled(d)] /\ started' = started
  <2>1. daemon' \in [Id -> Daemon] /\ \A d \in Id : Truthful(daemon'[d])
    BY <1>3, <1>5
  <2> QED
    BY <1>1, <1>2, <1>5, <2>1 DEF Inv, TypeOK, ShownIsSaid
<1> QED
  BY <1>4, <1>5 DEF Toggle

\* A closed window shows nothing, and has no pipes.
LEMMA InvDelete == ASSUME Inv, Delete PROVE Inv'
<1>1. daemon \in [Id -> Daemon]
  BY DEF Inv, TypeOK
<1>2. \A d \in Id : LET p == [Signalled(d) EXCEPT !.pipe = {}, !.read = FALSE]
                    IN  p \in Daemon /\ Truthful(p)
  <2> SUFFICES ASSUME NEW d \in Id
               PROVE  LET p == [Signalled(d) EXCEPT !.pipe = {}, !.read = FALSE]
                      IN  p \in Daemon /\ Truthful(p)
    OBVIOUS
  <2>1. Signalled(d) \in Daemon
    BY <1>1, Told
  <2> QED
    BY <2>1 DEF Daemon, Truthful
<1>3. daemon' \in [Id -> Daemon] /\ \A d \in Id : Truthful(daemon'[d])
  BY <1>2 DEF Delete
<1> QED
  BY <1>3 DEF Delete, ShowNone, Inv, TypeOK, ShownIsSaid

\* What is read is shown: of one word the window then says what the daemon said
\* last, and of an older daemon's words it does not claim to.
LEMMA InvReadOutput == ASSUME Inv, NEW d \in Id, ReadOutput(d) PROVE Inv'
<1> DEFINE words == daemon[d].pipe
           heard == words # {} /\ current # 0
           p == [daemon[d] EXCEPT !.pipe = {}, !.read = heard]
<1>1. /\ daemon \in [Id -> Daemon] /\ daemon[d] \in Daemon /\ words \in SUBSET Word
      /\ Truthful(daemon[d])
  BY DEF Inv, TypeOK, Daemon
<1>2. /\ daemon[d].read /\ (words # {} \/ daemon[d].life = "gone")
      /\ connected' = IF heard THEN "up" \in words ELSE connected
      /\ window' = window /\ usb' = usb /\ started' = started /\ current' = current
  BY DEF ReadOutput, app
<1>3. /\ p \in Daemon /\ p.pipe = {} /\ p.read = heard /\ p.life = daemon[d].life
      /\ p.said = daemon[d].said /\ Truthful(p)
  BY <1>1 DEF Daemon, Truthful
<1>4. daemon' = [daemon EXCEPT ![d] = p]
  BY <1>1 DEF ReadOutput, ReadNext
<1>5. /\ ~heard => blame' = blame
      /\ heard /\ d # current => blame' = "older"
      /\ heard /\ d = current => blame' = IF words = Word THEN "mixed" ELSE "nobody"
  BY DEF ReadOutput
<1> HIDE DEF p
<1>6. /\ daemon' \in [Id -> Daemon] /\ daemon'[d] = p
      /\ \A e \in Id \ {d} : daemon'[e] = daemon[e]
  BY <1>1, <1>3, <1>4, Changed
<1>7. current # 0 => current \in Id
  BY CurrentId DEF Inv
<1>8. TypeOK'
  <2>1. connected' \in BOOLEAN /\ blame' \in {"nobody", "mixed", "older"}
    <3>1. connected \in BOOLEAN /\ blame \in {"nobody", "mixed", "older"}
      BY DEF Inv, TypeOK
    <3>2. ("up" \in words) \in BOOLEAN
      OBVIOUS
    <3>3. connected' \in BOOLEAN
      BY <1>2, <3>1, <3>2
    <3>4. blame' \in {"nobody", "mixed", "older"}
      BY <1>5, <3>1
    <3> QED
      BY <3>3, <3>4
  <2>2. current # 0 => daemon'[current].read \/ daemon'[current].life = "gone"
    <3>1. CASE current = d
      BY <1>2, <1>3, <1>6, <3>1
    <3>2. CASE current # d
      BY <1>6, <1>7, <3>2 DEF Inv, TypeOK
    <3> QED
      BY <3>1, <3>2
  <2> QED
    BY <1>2, <1>6, <2>1, <2>2 DEF Inv, TypeOK
<1>9. ShownIsSaid'
  <2> DEFINE c == daemon'[current]
  <2> SUFFICES ASSUME window, current # 0, c.life # "gone", c.pipe = {}, blame' # "older"
               PROVE  (c.said => connected') /\ (connected' => c.said \/ blame' = "mixed")
    BY <1>2 DEF ShownIsSaid
  <2>1. CASE current = d /\ heard
    <3>1. CASE words = Word
      BY <1>2, <1>5, <2>1, <3>1 DEF Word
    <3>2. CASE words = {"up"} \/ words = {"down"}
      <4>1. daemon[d].said = ("up" \in words)
        BY <1>1, <1>3, <1>6, <2>1, <3>2 DEF Truthful, Daemon
      <4> QED
        BY <1>2, <1>3, <1>6, <2>1, <4>1
    <3> QED
      BY <1>1, <2>1, <3>1, <3>2, Words
  <2>2. CASE current = d /\ ~heard
    <3>1. words = {} /\ connected' = connected /\ blame' = blame
      BY <1>2, <1>5, <2>2
    <3>2. c.said = daemon[current].said /\ c.life = daemon[current].life
      BY <1>3, <1>6, <2>2
    <3> QED
      BY <2>2, <3>1, <3>2 DEF Inv, ShownIsSaid
  <2>3. CASE current # d
    <3>1. ~heard /\ connected' = connected /\ blame' = blame
      BY <1>2, <1>5, <2>3
    <3>2. c = daemon[current]
      BY <1>6, <1>7, <2>3
    <3> QED
      BY <3>1, <3>2 DEF Inv, ShownIsSaid
  <2> QED
    BY <2>1, <2>2, <2>3
<1>10. \A e \in Id : Truthful(daemon'[e])
  BY <1>3, <1>6 DEF Inv
<1> QED
  BY <1>8, <1>9, <1>10 DEF Inv

----------------------------------------------------------------------------

\* Nothing is claimed of a process that ended.
LEMMA InvOver == ASSUME Inv, NEW d \in Id, NEW from, Over(d, from) PROVE Inv'
<1> DEFINE p == [Nobody EXCEPT !.life = "gone", !.pipe = daemon[d].pipe,
                               !.read = daemon[d].read]
<1>1. daemon[d] \in Daemon
  BY DEF Inv, TypeOK
<1>2. p \in Daemon /\ p.life = "gone"
  BY <1>1 DEF Daemon, Nobody
<1>3. daemon' = [daemon EXCEPT ![d] = p] /\ UNCHANGED <<app, connected, blame>>
  BY DEF Over
<1> HIDE DEF p
<1> QED
  BY <1>2, <1>3, DaemonStep

\* A daemon goes on: what it said and what waits to be read stay.
LEMMA InvGoesOn ==
    ASSUME Inv, NEW d \in Id, NEW life \in {"starting", "on", "closing"}, NEW held \in BOOLEAN,
           daemon[d].life # "gone",
           daemon' = [daemon EXCEPT ![d] = [daemon[d] EXCEPT !.life = life, !.held = held]],
           UNCHANGED <<app, connected, blame>>
    PROVE  Inv'
<1> DEFINE p == [daemon[d] EXCEPT !.life = life, !.held = held]
<1>1. daemon[d] \in Daemon /\ Truthful(daemon[d])
  BY DEF Inv, TypeOK
<1>2. /\ p \in Daemon /\ p.read = daemon[d].read /\ Truthful(p)
      /\ p.pipe = daemon[d].pipe /\ p.said = daemon[d].said
  BY <1>1 DEF Daemon, Truthful
<1> HIDE DEF p
<1> QED
  BY <1>2, DaemonStep DEF p

\* A word is in the pipe when it is said.
LEMMA InvSay == ASSUME Inv, NEW d \in Id, NEW word \in Word, Say(d, word) PROVE Inv'
<1> DEFINE p == [daemon[d] EXCEPT !.said = (word = "up"),
                                  !.pipe = IF window THEN @ \cup {word} ELSE {}]
<1>1. daemon[d] \in Daemon /\ daemon[d].pipe \in SUBSET Word
  BY DEF Inv, TypeOK, Daemon
<1>2. p \in Daemon /\ p.read = daemon[d].read /\ Truthful(p) /\ (window => p.pipe # {})
  <2>1. p \in Daemon /\ p.read = daemon[d].read /\ p.said = (word = "up")
        /\ p.pipe = IF window THEN daemon[d].pipe \cup {word} ELSE {}
    BY <1>1 DEF Daemon
  <2>2. word \in {"up", "down"}
    BY DEF Word
  <2> HIDE DEF p
  <2>3. p.pipe = {"up"} => p.said
    BY <2>1, <2>2
  <2>4. p.pipe = {"down"} => ~p.said
    BY <2>1, <2>2
  <2>5. window => p.pipe # {}
    BY <2>1
  <2> QED
    BY <2>1, <2>3, <2>4, <2>5 DEF Truthful
<1>3. /\ daemon' = [daemon EXCEPT ![d] = p] /\ UNCHANGED <<app, connected, blame>>
      /\ daemon[d].life # "gone"
  BY DEF Say
<1> HIDE DEF p
<1> QED
  BY <1>2, <1>3, DaemonStep

\* The port decides whether a daemon that starts goes on.
LEMMA InvBind == ASSUME Inv, NEW d \in Id, Bind(d) PROVE Inv'
<1>1. CASE Over(d, "starting")
  BY <1>1, InvOver
<1>2. CASE Becomes(d, "starting", "on")
  <2>1. daemon[d] \in Daemon
    BY DEF Inv, TypeOK
  <2>2. /\ daemon[d].life # "gone" /\ daemon[d].held \in BOOLEAN
        /\ [daemon[d] EXCEPT !.life = "on"]
              = [daemon[d] EXCEPT !.life = "on", !.held = daemon[d].held]
    BY <1>2, <2>1 DEF Becomes, Daemon
  <2>3. daemon' = [daemon EXCEPT ![d] = [daemon[d] EXCEPT !.life = "on"]]
        /\ UNCHANGED <<app, connected, blame>>
    BY <1>2 DEF Becomes, Inv, TypeOK
  <2> QED
    BY <2>2, <2>3, InvGoesOn
<1> QED
  BY <1>1, <1>2 DEF Bind

\* A daemon that is told to end closes its port first.
LEMMA InvQuit == ASSUME Inv, NEW d \in Id, Quit(d) PROVE Inv'
<1>1. daemon[d] \in Daemon /\ daemon[d].usb \in BOOLEAN /\ daemon[d].life # "gone"
  BY DEF Inv, TypeOK, Daemon, Quit
<1>2. PICK silent \in BOOLEAN :
          daemon' = [daemon EXCEPT ![d].life = "closing", ![d].held = silent]
  BY <1>1 DEF Quit
<1>3. daemon' = [daemon EXCEPT ![d] = [daemon[d] EXCEPT !.life = "closing", !.held = silent]]
  BY <1>2 DEF Inv, TypeOK
<1> QED
  BY <1>1, <1>3, InvGoesOn DEF Quit

\* The phone goes on, or away.
LEMMA InvLetGo == ASSUME Inv, NEW d \in Id, LetGo(d) PROVE Inv'
<1> DEFINE p == [daemon[d] EXCEPT !.held = FALSE]
<1>1. daemon[d] \in Daemon /\ Truthful(daemon[d])
  BY DEF Inv, TypeOK
<1>2. /\ p \in Daemon /\ p.read = daemon[d].read /\ Truthful(p) /\ p.life = daemon[d].life
      /\ p.pipe = daemon[d].pipe /\ p.said = daemon[d].said
  BY <1>1 DEF Daemon, Truthful
<1>3. daemon' = [daemon EXCEPT ![d] = p] /\ UNCHANGED <<app, connected, blame>>
  BY DEF LetGo, Inv, TypeOK
<1> HIDE DEF p
<1> QED
  BY <1>2, <1>3, DaemonStep

\* Nothing changes when nothing happens.
LEMMA InvStutter == ASSUME Inv, UNCHANGED vars PROVE Inv'
BY DEF Inv, TypeOK, ShownIsSaid, Truthful, vars, app

----------------------------------------------------------------------------

\* The invariant holds in every reachable state.
THEOREM Invariance == Spec => []Inv
<1>1. ASSUME Inv, [Next]_vars PROVE Inv'
  BY <1>1, InvToggle, InvDelete, InvReadOutput, InvBind, InvQuit, InvOver, InvLetGo, InvSay,
     InvStutter DEF Next, Ends, Exit, Crash
<1> QED
  BY InvInit, <1>1, PTL DEF Spec

\* Every variable keeps its type; in particular the window never stops reading
\* the output of the daemon it shows while that daemon lives.
THEOREM TypeCorrect == Spec => []TypeOK
<1>1. Inv => TypeOK
  BY DEF Inv
<1> QED
  BY <1>1, Invariance, PTL

\* However many daemons were started, and until output of a replaced one is read,
\* the window hides no phone that the running daemon reported, and invents one
\* only from a chunk with words of both kinds.
THEOREM AlwaysShownAsSaid == Spec => []ShownIsSaid
<1>1. Inv => ShownIsSaid
  BY DEF Inv
<1> QED
  BY <1>1, Invariance, PTL
=============================================================================
