------------------------------ MODULE AppProofs ------------------------------
(***************************************************************************)
(* Theorems about the app on the phone, for any PCs and any number of      *)
(* intents under way.                                                      *)
(***************************************************************************)
EXTENDS App, SequenceTheorems, TLAPS

\* TypeOK in pieces that the actions change together.
FlagsOK ==
    /\ alive \in BOOLEAN /\ started \in BOOLEAN /\ usb \in BOOLEAN /\ shown \in BOOLEAN
    /\ rows \in BOOLEAN /\ discovering \in BOOLEAN /\ dialog \in BOOLEAN
    /\ isRunning \in BOOLEAN /\ leftover \in BOOLEAN /\ moved \in BOOLEAN
    /\ missing \subseteq Permission
    /\ doubt \in {"no", "early", "refused"}

TargetsOK ==
    /\ pendingConnect \in Target \cup {None} /\ (dialog \/ pendingConnect = None)
    /\ foreground \in Target \cup {None} /\ notification \in Target \cup {None}
    /\ stream \in Target \cup {None}
    /\ wanted \in Target \cup {None}

IntentsOK == intents \in Seq(Intent) /\ Len(intents) <= MaxIntents

\* The pieces make up TypeOK.
LEMMA TypeParts == TypeOK <=> FlagsOK /\ TargetsOK /\ IntentsOK
BY DEF TypeOK, FlagsOK, TargetsOK, IntentsOK

\* What was asked for with the dialog is asked for in the mode it was opened in.
SameMode == pendingConnect # None => (usb <=> pendingConnect = USB)

\* The last intent is what the user wants; each step of the service before it
\* may leave anything but a stream without its service.
LastIsWanted == intents # <<>> => intents[Len(intents)].to = wanted

\* As long as nothing blurs it, the screen shows what the last intent will
\* make true.
ScreenFollowsWanted ==
    started /\ intents # <<>> /\ doubt = "no" =>
        /\ shown = (wanted # None)
        /\ discovering = (~usb /\ wanted = None)

Inv ==
    /\ TypeOK
    /\ MicOnlyInForeground /\ StopMeansStop /\ ScreenFollowsService
    /\ SameMode /\ LastIsWanted /\ ScreenFollowsWanted
    /\ leftover => stream = None
    /\ usb => ~discovering

----------------------------------------------------------------------------

\* A new intent is the last one, and what is wanted.
LEMMA Commanded ==
    ASSUME IntentsOK, NEW to, NEW tcp, [to |-> to, tcp |-> tcp] \in Intent, Command(to, tcp)
    PROVE  IntentsOK' /\ intents' # <<>> /\ LastIsWanted' /\ wanted' = to /\ doubt' = "no"
<1> DEFINE i == [to |-> to, tcp |-> tcp]
<1>1. i \in Intent /\ i.to = to
  OBVIOUS
<1>2. /\ intents \in Seq(Intent) /\ Len(intents) < MaxIntents /\ MaxIntents \in Nat
      /\ intents' = Append(intents, i) /\ wanted' = to /\ doubt' = "no"
  BY AppAssumption DEF IntentsOK, Command
<1> HIDE DEF i
<1>3. /\ intents' \in Seq(Intent) /\ Len(intents') = Len(intents) + 1
      /\ intents'[Len(intents')] = i
  BY <1>1, <1>2
<1> QED
  BY <1>1, <1>2, <1>3 DEF IntentsOK, LastIsWanted

\* The service takes the oldest intent; when it was the only one, it is the one
\* that is wanted.
LEMMA Handled ==
    ASSUME IntentsOK, LastIsWanted, intents # <<>>,
           intents' = Tail(intents), wanted' = wanted
    PROVE  /\ IntentsOK' /\ LastIsWanted' /\ Head(intents) \in Intent
           /\ intents' = <<>> => Head(intents).to = wanted
           /\ intents' = <<>> <=> Len(intents) = 1
<1>1. /\ intents \in Seq(Intent) /\ Len(intents) <= MaxIntents /\ Len(intents) \in Nat \ {0}
      /\ MaxIntents \in Nat
  BY AppAssumption DEF IntentsOK
<1>2. /\ intents' \in Seq(Intent) /\ Len(intents') = Len(intents) - 1
      /\ \A i \in 1..Len(intents) - 1 : intents'[i] = intents[i + 1]
  BY <1>1
<1>3. Head(intents) = intents[1] /\ Head(intents) \in Intent
  BY <1>1
<1>4. intents' = <<>> <=> Len(intents) = 1
  <2>1. intents' = <<>> <=> Len(intents') = 0
    BY <1>2, EmptySeq, Zenon
  <2> QED
    BY <1>1, <1>2, <2>1
<1>5. LastIsWanted'
  <2> SUFFICES ASSUME intents' # <<>> PROVE intents'[Len(intents')].to = wanted
    BY DEF LastIsWanted
  <2>1. Len(intents) - 1 \in 1..Len(intents) - 1 /\ (Len(intents) - 1) + 1 = Len(intents)
    BY <1>1, <1>4
  <2>2. intents'[Len(intents) - 1] = intents[Len(intents)]
    BY <1>2, <2>1
  <2> QED
    BY <1>2, <2>2 DEF LastIsWanted
<1> QED
  BY <1>1, <1>2, <1>3, <1>4, <1>5 DEF IntentsOK, LastIsWanted

\* A command to connect in the mode of the screen is an intent, and no stop.
LEMMA Sensible ==
    ASSUME usb \in BOOLEAN, NEW to \in Target, usb <=> to = USB
    PROVE  [to |-> to, tcp |-> usb] \in Intent /\ to # None
BY AppAssumption DEF Target, USB, None, Intent

\* Only a stop has no target.
LEMMA IntentTo == \A i \in Intent : i.to \in Target \cup {None}
BY DEF Intent, Target

\* What the parts of the invariant say of a screen that shows what is wanted.
LEMMA Connecting ==
    ASSUME Inv, NEW to \in Target, usb <=> to = USB, DoConnect(to),
           FlagsOK', TargetsOK', pendingConnect' = None
    PROVE  Inv'
<1>1. /\ usb \in BOOLEAN /\ IntentsOK
      /\ usb' = usb /\ shown' = TRUE /\ discovering' = FALSE /\ started' = started
      /\ isRunning' = isRunning /\ stream' = stream
      /\ foreground' = foreground /\ notification' = notification
      /\ leftover' = leftover /\ moved' = moved
      /\ Command(to, usb)
  BY TypeParts DEF Inv, DoConnect, SearchEnds, FlagsOK, service
<1>2. [to |-> to, tcp |-> usb] \in Intent /\ to # None
  BY <1>1, Sensible
<1>3. IntentsOK' /\ intents' # <<>> /\ LastIsWanted' /\ wanted' = to /\ doubt' = "no"
  BY <1>1, <1>2, Commanded
<1>4. TypeOK'
  BY <1>3, TypeParts DEF TypeOK, FlagsOK, TargetsOK, IntentsOK
<1>5. MicOnlyInForeground' /\ StopMeansStop' /\ ScreenFollowsService'
  BY <1>1, <1>3 DEF Inv, MicOnlyInForeground, StopMeansStop, ScreenFollowsService
<1>6. ScreenFollowsWanted'
  BY <1>1, <1>2, <1>3 DEF ScreenFollowsWanted
<1> QED
  BY <1>1, <1>3, <1>4, <1>5, <1>6 DEF Inv, SameMode

----------------------------------------------------------------------------

\* At launch nothing runs and nothing is shown.
LEMMA InvInit == Init => Inv
<1> SUFFICES ASSUME Init PROVE Inv
  OBVIOUS
<1>1. FlagsOK /\ TargetsOK
  BY DEF Init, FlagsOK, TargetsOK
<1>2. IntentsOK
  BY AppAssumption DEF Init, IntentsOK
<1> QED
  BY <1>1, <1>2, TypeParts DEF Init, Inv, MicOnlyInForeground, StopMeansStop, ScreenFollowsService,
     SameMode, LastIsWanted, ScreenFollowsWanted

\* What leaves the service and its intents alone has only the screen to keep
\* in step with them.
LEMMA ScreenOnly ==
    ASSUME Inv, intents' = intents, UNCHANGED service, wanted' = wanted,
           FlagsOK', TargetsOK', SameMode', ScreenFollowsService', ScreenFollowsWanted',
           usb' => ~discovering'
    PROVE  Inv'
<1>1. IntentsOK' /\ LastIsWanted'
  BY TypeParts DEF Inv, IntentsOK, LastIsWanted
<1>2. TypeOK'
  BY <1>1 DEF TypeOK, FlagsOK, TargetsOK, IntentsOK
<1>3. MicOnlyInForeground' /\ StopMeansStop' /\ (leftover' => stream' = None)
  BY DEF Inv, service, MicOnlyInForeground, StopMeansStop
<1> QED
  BY <1>1, <1>2, <1>3 DEF Inv

\* An activity that comes back takes what the service says of itself.
LEMMA InvOnStart == ASSUME Inv, OnStart PROVE Inv'
<1>1. FlagsOK'
  BY Zenon, TypeParts DEF Inv, OnStart, Early, FlagsOK, permission, service
<1>2. TargetsOK' /\ SameMode'
  BY TypeParts DEF Inv, OnStart, TargetsOK, SameMode, permission, service
<1>3. ScreenFollowsService' /\ ScreenFollowsWanted'
  BY DEF OnStart, Early, ScreenFollowsService, ScreenFollowsWanted, service
<1> QED
  BY <1>1, <1>2, <1>3, ScreenOnly DEF OnStart

\* An activity out of sight has no search to keep in step.
LEMMA InvOnStop == ASSUME Inv, OnStop PROVE Inv'
<1>1. FlagsOK'
  BY Zenon, TypeParts DEF Inv, OnStop, SearchEnds, FlagsOK, permission, service
<1>2. TargetsOK' /\ SameMode'
  BY TypeParts DEF Inv, OnStop, TargetsOK, SameMode, permission, service
<1>3. ScreenFollowsService' /\ ScreenFollowsWanted' /\ (usb' => ~discovering')
  BY DEF OnStop, SearchEnds, ScreenFollowsService, ScreenFollowsWanted
<1> QED
  BY <1>1, <1>2, <1>3, ScreenOnly DEF OnStop

\* A new instance asks for what it shows, and has lost the open request.
LEMMA InvRecreate == ASSUME Inv, Recreate PROVE Inv'
<1>1. FlagsOK' /\ TargetsOK' /\ SameMode'
  BY TypeParts DEF Inv, Recreate, Early, FlagsOK, TargetsOK, SameMode, service
<1>2. ScreenFollowsService' /\ ScreenFollowsWanted' /\ (usb' => ~discovering')
  BY DEF Recreate, Early, ScreenFollowsService, ScreenFollowsWanted, service
<1> QED
  BY <1>1, <1>2, ScreenOnly DEF Recreate

\* A row that appears changes nothing else.
LEMMA InvFound == ASSUME Inv, Found PROVE Inv'
<1>1. FlagsOK' /\ TargetsOK' /\ SameMode'
  BY TypeParts DEF Inv, Found, FlagsOK, TargetsOK, SameMode, permission, service
<1>2. ScreenFollowsService' /\ ScreenFollowsWanted' /\ (usb' => ~discovering')
  BY DEF Inv, Found, ScreenFollowsService, ScreenFollowsWanted, service
<1> QED
  BY <1>1, <1>2, ScreenOnly DEF Found

\* The switch moves only while no request is open, and the search follows it.
LEMMA InvToggle == ASSUME Inv, Toggle PROVE Inv'
<1>1. pendingConnect = None /\ usb \in BOOLEAN
  BY TypeParts DEF Inv, Toggle, TargetsOK, FlagsOK
<1>2. FlagsOK' /\ TargetsOK' /\ SameMode'
  BY <1>1, TypeParts DEF Inv, Toggle, Early, FlagsOK, TargetsOK, SameMode, permission, service
<1>3. ScreenFollowsService' /\ ScreenFollowsWanted' /\ (usb' => ~discovering')
  BY <1>1, TypeParts DEF Inv, Toggle, Early, ScreenFollowsService, ScreenFollowsWanted, service, FlagsOK
<1> QED
  BY <1>2, <1>3, ScreenOnly DEF Toggle

\* A tap asks for a target in the mode shown, at once or behind the dialog.
LEMMA InvTap == ASSUME Inv, NEW to \in Target, Tap(to) PROVE Inv'
<1>1. (usb <=> to = USB) /\ ~dialog /\ pendingConnect = None
  BY TypeParts DEF Inv, Tap, TargetsOK, FlagsOK
<1>2. CASE DoConnect(to) /\ UNCHANGED permission
  <2>1. FlagsOK' /\ TargetsOK' /\ pendingConnect' = None
    BY <1>1, <1>2, TypeParts
       DEF Inv, DoConnect, Command, SearchEnds, FlagsOK, TargetsOK, permission, service
  <2> QED
    BY <1>1, <1>2, <2>1, Connecting
<1>3. CASE /\ dialog' = TRUE /\ pendingConnect' = to
           /\ UNCHANGED <<alive, activity, missing, intents, service, wanted, doubt>>
  <2>1. FlagsOK' /\ TargetsOK' /\ SameMode'
    BY <1>1, <1>3, TypeParts DEF Inv, FlagsOK, TargetsOK, SameMode, activity, service
  <2>2. ScreenFollowsService' /\ ScreenFollowsWanted' /\ (usb' => ~discovering')
    BY <1>3 DEF Inv, ScreenFollowsService, ScreenFollowsWanted, activity, service
  <2> QED
    BY <1>3, <2>1, <2>2, ScreenOnly
<1> QED
  BY <1>2, <1>3 DEF Tap

\* An answer carries out the request in the mode it was made in.
LEMMA InvAnswer == ASSUME Inv, Answer PROVE Inv'
<1>1. pendingConnect' = None /\ dialog' = FALSE /\ missing' \subseteq Permission
  BY TypeParts DEF Inv, Answer, NotPending, FlagsOK
<1>2. CASE DoConnect(pendingConnect) /\ pendingConnect # None
  <2>1. FlagsOK' /\ TargetsOK' /\ pendingConnect \in Target /\ (usb <=> pendingConnect = USB)
    BY <1>1, <1>2, TypeParts
       DEF Inv, DoConnect, Command, SearchEnds, FlagsOK, TargetsOK, SameMode, service
  <2> QED
    BY <1>1, <1>2, <2>1, Connecting
<1>3. CASE UNCHANGED <<alive, activity, intents, service, wanted, doubt>>
  <2>1. FlagsOK'
    BY Zenon, <1>1, <1>3, TypeParts DEF Inv, FlagsOK, activity, service
  <2>2. TargetsOK' /\ SameMode'
    BY <1>1, <1>3, TypeParts DEF Inv, TargetsOK, SameMode, activity, service
  <2>3. ScreenFollowsService' /\ ScreenFollowsWanted' /\ (usb' => ~discovering')
    BY <1>3 DEF Inv, ScreenFollowsService, ScreenFollowsWanted, activity, service
  <2> QED
    BY <1>3, <2>1, <2>2, <2>3, ScreenOnly
<1> QED
  BY <1>2, <1>3 DEF Answer

\* A stop is shown before the service knows of it.
LEMMA InvTapStop == ASSUME Inv, TapStop PROVE Inv'
<1>1. [to |-> None, tcp |-> FALSE] \in Intent
  BY DEF Intent
<1>2. IntentsOK' /\ intents' # <<>> /\ LastIsWanted' /\ wanted' = None /\ doubt' = "no"
  BY <1>1, Commanded, TypeParts DEF Inv, TapStop
<1>3. FlagsOK' /\ TargetsOK' /\ SameMode'
  BY <1>2, TypeParts DEF Inv, TapStop, FlagsOK, TargetsOK, SameMode, permission, service
<1>4. TypeOK'
  BY <1>2, <1>3 DEF TypeOK, FlagsOK, TargetsOK, IntentsOK
<1>5. MicOnlyInForeground' /\ (leftover' => stream' = None)
  BY DEF Inv, TapStop, MicOnlyInForeground, service
<1>6. StopMeansStop' /\ ScreenFollowsService'
  BY <1>2 DEF StopMeansStop, ScreenFollowsService
<1>7. ScreenFollowsWanted' /\ (usb' => ~discovering')
  BY <1>2, TypeParts DEF Inv, TapStop, ScreenFollowsWanted, FlagsOK
<1> QED
  BY <1>2, <1>3, <1>4, <1>5, <1>6, <1>7 DEF Inv

----------------------------------------------------------------------------

\* What the service does with an intent; the screen is not told.
Served ==
    /\ IntentsOK' /\ LastIsWanted' /\ wanted' = wanted
    /\ UNCHANGED <<activity, permission>>

\* The types and the switch survive a step of the service.
LEMMA ServedParts ==
    ASSUME Inv, Served, FlagsOK', foreground' \in Target \cup {None},
           notification' \in Target \cup {None}, stream' \in Target \cup {None}
    PROVE  TypeOK' /\ SameMode' /\ (usb' => ~discovering')
<1>1. TargetsOK' /\ SameMode' /\ (usb' => ~discovering')
  BY TypeParts DEF Inv, Served, TargetsOK, SameMode, permission, activity
<1> QED
  BY <1>1 DEF Served, TypeOK, FlagsOK, TargetsOK, IntentsOK

\* A connect that finds a stream, starts one, or fails leaves no stream
\* without its foreground service.
LEMMA InvOnConnect == ASSUME Inv, OnConnect PROVE Inv'
<1> DEFINE to == Head(intents).to
<1>1. /\ intents # <<>> /\ intents' = Tail(intents) /\ to # None /\ wanted' = wanted
      /\ alive' = alive /\ UNCHANGED <<activity, permission>>
      /\ AlreadyRuns(to) \/ Succeeds(to) \/ Fails
  BY DEF OnConnect, Handling
<1>2. /\ IntentsOK' /\ LastIsWanted' /\ Head(intents) \in Intent
      /\ intents' = <<>> => to = wanted
      /\ intents' = <<>> <=> Len(intents) = 1
  BY <1>1, Handled, TypeParts DEF Inv
<1>3. to \in Target
  BY <1>1, <1>2, IntentTo
<1> HIDE DEF to
<1>4. Served
  BY <1>1, <1>2 DEF Served
<1>5. FlagsOK'
  <2>1. /\ isRunning' \in BOOLEAN /\ moved' \in BOOLEAN /\ leftover' = leftover
        /\ doubt' \in {"no", "early", "refused"}
    BY <1>1, TypeParts DEF Inv, FlagsOK, AlreadyRuns, Succeeds, Fails
  <2> QED
    BY Zenon, <1>1, <2>1, TypeParts DEF Inv, FlagsOK, activity, permission
<1>6. /\ foreground' \in Target \cup {None} /\ notification' \in Target \cup {None}
      /\ stream' \in Target \cup {None}
  BY <1>1, <1>3, TypeParts DEF Inv, TargetsOK, AlreadyRuns, Succeeds, Fails,
     StartForeground, StopForeground
<1>7. MicOnlyInForeground' /\ (leftover' => stream' = None)
  <2>1. CASE AlreadyRuns(to)
    BY <1>1, <2>1 DEF Inv, MicOnlyInForeground, AlreadyRuns, StartForeground
  <2>2. CASE Succeeds(to)
    BY <1>1, <2>2 DEF MicOnlyInForeground, Succeeds, StartForeground
  <2>3. CASE Fails
    BY <2>3 DEF MicOnlyInForeground, Fails
  <2> QED
    BY <1>1, <2>1, <2>2, <2>3
<1>8. StopMeansStop'
  BY <1>1, <1>2 DEF StopMeansStop
<1>9. ScreenFollowsWanted'
  <2>1. intents' # <<>> => doubt' = doubt
    BY <1>1, <1>2 DEF AlreadyRuns, Succeeds, Fails
  <2> QED
    BY <1>1, <2>1 DEF Inv, ScreenFollowsWanted, activity
<1>10. ScreenFollowsService'
  <2> SUFFICES ASSUME started', intents' = <<>>, doubt' = "no"
               PROVE  shown' = isRunning' /\ discovering' = (~usb' /\ ~isRunning')
    BY DEF ScreenFollowsService
  <2>1. isRunning' = TRUE /\ doubt = "no" /\ wanted # None
    BY <1>1, <1>2 DEF AlreadyRuns, Succeeds, Fails
  <2>2. shown = TRUE /\ discovering = FALSE
    BY Zenon, <1>1, <2>1 DEF Inv, ScreenFollowsWanted, activity
  <2> QED
    BY Zenon, <1>1, <2>1, <2>2 DEF activity
<1> QED
  BY <1>2, <1>4, <1>5, <1>6, <1>7, <1>8, <1>9, <1>10, ServedParts DEF Inv

\* A stop takes the stream and its notification away together.
LEMMA InvOnStopIntent == ASSUME Inv, OnStopIntent PROVE Inv'
<1>1. /\ intents # <<>> /\ intents' = Tail(intents) /\ Head(intents).to = None
      /\ wanted' = wanted /\ alive' = alive /\ moved' = moved /\ doubt' = doubt
      /\ UNCHANGED <<activity, permission>>
      /\ isRunning' = FALSE /\ foreground' = None /\ notification' = None
      /\ IF isRunning THEN Stopped ELSE UNCHANGED <<stream, leftover>>
  BY DEF OnStopIntent, Handling, StopForeground
<1>2. /\ IntentsOK' /\ LastIsWanted'
      /\ intents' = <<>> => wanted = None
  BY <1>1, Handled, TypeParts DEF Inv
<1>3. Served
  BY <1>1, <1>2 DEF Served
<1>4. stream' = None
  BY <1>1 DEF Inv, MicOnlyInForeground, Stopped
<1>5. FlagsOK'
  <2>1. leftover' \in BOOLEAN
    BY Zenon, <1>1, TypeParts DEF Inv, FlagsOK, Stopped
  <2> QED
    BY Zenon, <1>1, <2>1, TypeParts DEF Inv, FlagsOK, activity, permission
<1>6. MicOnlyInForeground' /\ StopMeansStop' /\ (leftover' => stream' = None)
  BY <1>1, <1>4 DEF MicOnlyInForeground, StopMeansStop
<1>7. ScreenFollowsWanted'
  BY <1>1 DEF Inv, ScreenFollowsWanted, activity
<1>8. ScreenFollowsService'
  <2> SUFFICES ASSUME started', intents' = <<>>, doubt' = "no"
               PROVE  shown' = isRunning' /\ discovering' = (~usb' /\ ~isRunning')
    BY DEF ScreenFollowsService
  <2>1. shown = FALSE /\ discovering = (~usb)
    BY Zenon, <1>1, <1>2 DEF Inv, ScreenFollowsWanted, activity
  <2> QED
    BY Zenon, <1>1, <2>1 DEF activity
<1> QED
  BY <1>1, <1>2, <1>3, <1>4, <1>5, <1>6, <1>7, <1>8, ServedParts DEF Inv

\* The process and the activity end, and nothing of theirs is left to compare.
LEMMA InvTerminate == ASSUME Inv, Terminate PROVE Inv'
<1>1. /\ intents # <<>> /\ intents' = Tail(intents) /\ Head(intents).to # None
      /\ wanted' = wanted /\ leftover /\ stream = None /\ stream' = None
      /\ leftover' = leftover /\ started' = FALSE /\ pendingConnect' = None
  BY DEF Inv, Terminate, Handling
<1>2. IntentsOK' /\ LastIsWanted' /\ (intents' = <<>> => wanted # None)
  BY <1>1, Handled, TypeParts DEF Inv
<1>3. FlagsOK'
  BY Zenon, TypeParts DEF Inv, Terminate, FlagsOK
<1>4. TargetsOK' /\ SameMode'
  BY <1>1, TypeParts DEF Inv, Terminate, TargetsOK, SameMode, StopForeground
<1>5. TypeOK'
  BY <1>2, <1>3, <1>4 DEF TypeOK, FlagsOK, TargetsOK, IntentsOK
<1>6. MicOnlyInForeground' /\ StopMeansStop' /\ ScreenFollowsService' /\ ScreenFollowsWanted'
  BY <1>1, <1>2 DEF MicOnlyInForeground, StopMeansStop, ScreenFollowsService, ScreenFollowsWanted
<1>7. usb' => ~discovering'
  BY DEF Terminate
<1> QED
  BY <1>1, <1>2, <1>4, <1>5, <1>6, <1>7 DEF Inv

\* An error ends the stream and leaves its notification, which claims too much
\* but never too little.
LEMMA InvStreamError == ASSUME Inv, StreamError PROVE Inv'
<1>1. FlagsOK'
  BY Zenon, TypeParts DEF Inv, StreamError, FlagsOK, activity, permission
<1>2. TargetsOK' /\ SameMode' /\ IntentsOK' /\ LastIsWanted'
  BY TypeParts DEF Inv, StreamError, TargetsOK, SameMode, IntentsOK, LastIsWanted, activity, permission
<1>3. TypeOK'
  BY <1>1, <1>2 DEF TypeOK, FlagsOK, TargetsOK, IntentsOK
<1>4. MicOnlyInForeground' /\ StopMeansStop'
  BY DEF Inv, StreamError, MicOnlyInForeground, StopMeansStop
<1>5. ScreenFollowsService' /\ ScreenFollowsWanted' /\ (usb' => ~discovering')
      /\ (leftover' => stream' = None)
  BY DEF Inv, StreamError, ScreenFollowsService, ScreenFollowsWanted, activity
<1> QED
  BY <1>2, <1>3, <1>4, <1>5 DEF Inv

\* Nothing changes when nothing happens.
LEMMA InvStutter == ASSUME Inv, UNCHANGED vars PROVE Inv'
BY DEF Inv, TypeOK, MicOnlyInForeground, StopMeansStop, ScreenFollowsService, SameMode, LastIsWanted,
   ScreenFollowsWanted, vars, activity, permission, service

\* The invariant holds in every reachable state.
THEOREM Invariance == Spec => []Inv
<1>1. ASSUME Inv, [Next]_vars PROVE Inv'
  BY <1>1, InvOnStart, InvOnStop, InvRecreate, InvFound, InvToggle, InvTap, InvAnswer,
     InvTapStop, InvOnConnect, InvTerminate, InvOnStopIntent, InvStreamError, InvStutter
     DEF Next
<1> QED
  BY InvInit, <1>1, PTL DEF Spec

\* Every variable keeps its type; in particular the mode of each intent fits
\* its target, although the dialog may be answered after the screen was rebuilt.
THEOREM TypeCorrect == Spec => []TypeOK
<1>1. Inv => TypeOK
  BY DEF Inv
<1> QED
  BY <1>1, Invariance, PTL

\* The microphone is never recorded outside the foreground service, which names
\* the target, or the PC of a connect that came while the stream ran, however
\* intents, errors and restarts of the activity interleave; the notification may
\* be missing (the user denied it), but says nothing else.
THEOREM AlwaysInForeground == Spec => []MicOnlyInForeground
<1>1. Inv => MicOnlyInForeground
  BY DEF Inv
<1> QED
  BY <1>1, Invariance, PTL

\* A stop that is the last intent stops everything, for any number of intents
\* queued before it.
THEOREM StopAlwaysStops == Spec => []StopMeansStop
<1>1. Inv => StopMeansStop
  BY DEF Inv
<1> QED
  BY <1>1, Invariance, PTL

\* When nothing is under way the screen shows the state of the service, with
\* the two exceptions ScreenFollowsService names.
THEOREM ScreenAlwaysFollows == Spec => []ScreenFollowsService
<1>1. Inv => ScreenFollowsService
  BY DEF Inv
<1> QED
  BY <1>1, Invariance, PTL
=============================================================================
