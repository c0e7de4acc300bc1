--------------------------------- MODULE App ---------------------------------
(***************************************************************************)
(* The app on the phone: MainActivity, the service it commands by intents, *)
(* and the streamer behind the service.  All of it runs on the main        *)
(* thread, one handler at a time; an intent is handled later than it was   *)
(* sent, the permission dialog is answered later than it was opened, and   *)
(* the activity may stop, start or be created anew in between.             *)
(***************************************************************************)
EXTENDS Sequences, Naturals

CONSTANTS
    PC,             \* PCs that discovery finds
    MaxIntents      \* bound on the intents under way

ASSUME AppAssumption ==
    /\ {"usb", "none"} \cap PC = {}     \* USB and None are no PCs
    /\ MaxIntents \in Nat

VARIABLES
    alive,          \* the process
    started,        \* the activity is between onStart and onStop
    usb,            \* usbModeSwitch.isChecked
    shown,          \* the stop button is visible, and the switch disabled
    rows,           \* there are rows to tap
    discovering,    \* PcDiscovery.running
    missing,        \* permissions not granted
    dialog,         \* the permission dialog is open
    pendingConnect,
    intents,        \* to the service, in order
    isRunning,
    foreground,     \* whom startForeground named as its target
    notification,   \* whom the notification names; None when it is not shown
    stream,         \* the target of the native stream
    leftover,       \* an error closed the stream; its thread was not joined
    wanted,         \* history: what the last intent asked for
    moved,          \* history: a connect came while another stream ran
    doubt           \* history: why the screen may differ from the service

permission == <<missing, dialog, pendingConnect>>
activity == <<started, usb, shown, rows, discovering>>
service == <<isRunning, foreground, notification, stream, leftover, moved>>
vars == <<alive, activity, permission, intents, service, wanted, doubt>>

USB == "usb"
None == "none"
Target == PC \cup {USB}
Intent == [to : PC \cup {None}, tcp : {FALSE}] \cup [to : {USB}, tcp : {TRUE}]
Permission == {"mic", "notifications"}

TypeOK ==
    /\ {alive, started, usb, shown, rows, discovering, dialog, isRunning, leftover,
        moved} \subseteq BOOLEAN
    /\ missing \subseteq Permission
    /\ pendingConnect \in Target \cup {None} /\ (dialog \/ pendingConnect = None)
    /\ intents \in Seq(Intent) /\ Len(intents) <= MaxIntents
    /\ {foreground, notification, stream, wanted} \subseteq Target \cup {None}
    /\ doubt \in {"no", "early", "refused"}

Init ==
    /\ alive = TRUE
    /\ started = FALSE /\ usb = FALSE /\ shown = FALSE
    /\ rows = FALSE /\ discovering = FALSE
    /\ missing \in SUBSET Permission /\ dialog = FALSE /\ pendingConnect = None
    /\ intents = <<>>
    /\ isRunning = FALSE /\ foreground = None /\ notification = None /\ stream = None
    /\ leftover = FALSE /\ moved = FALSE
    /\ wanted = None /\ doubt = "no"

----------------------------------------------------------------------------
\* MainActivity

\* isRunning is asked for while an intent is under way.
Early(otherwise) == IF intents # <<>> THEN "early" ELSE otherwise

OnStart ==
    /\ alive /\ ~started /\ started' = TRUE
    /\ shown' = isRunning
    /\ discovering' = (~usb /\ ~isRunning)
    /\ doubt' = Early("no")
    /\ UNCHANGED <<alive, usb, rows, permission, intents, service, wanted>>

\* Mutant: the search goes on.
SearchGoesOn == UNCHANGED discovering
SearchEnds == discovering' = FALSE

OnStop ==
    /\ started /\ started' = FALSE
    /\ SearchEnds
    /\ UNCHANGED <<alive, usb, shown, rows, permission, intents, service, wanted, doubt>>

\* onDestroy, and onCreate and onStart of another instance: rotated, when the
\* switch and an open dialog are kept, or launched anew.
Recreate ==
    /\ alive /\ started' = TRUE
    /\ \E rotated \in BOOLEAN : usb' = (rotated /\ usb) /\ dialog' = (rotated /\ dialog)
    /\ pendingConnect' = None
    /\ shown' = isRunning /\ rows' = FALSE
    /\ discovering' = (~usb' /\ ~isRunning)
    /\ doubt' = Early("no")
    /\ UNCHANGED <<alive, missing, intents, service, wanted>>

\* onDevicesChanged.
Found ==
    /\ started /\ discovering /\ rows' = TRUE
    /\ UNCHANGED <<alive, started, usb, shown, discovering, permission, intents, service,
                   wanted, doubt>>

\* The switch's listener.
Toggle ==
    /\ started /\ ~dialog /\ ~shown
    /\ usb' = ~usb
    /\ discovering' = (~usb' /\ (discovering \/ ~isRunning))
    /\ doubt' = Early(doubt)
    /\ UNCHANGED <<alive, started, shown, rows, permission, intents, service, wanted>>

\* startService, startForegroundService.
Command(to, tcp) ==
    /\ Len(intents) < MaxIntents
    /\ intents' = Append(intents, [to |-> to, tcp |-> tcp])
    /\ wanted' = to /\ doubt' = "no"

DoConnect(to) ==
    /\ Command(to, usb)
    /\ SearchEnds /\ shown' = TRUE
    /\ UNCHANGED <<alive, started, usb, rows, service>>

\* connectRequestingPermissions, from a row or from the USB button; neither is
\* disabled while a stream runs.
Tap(to) ==
    /\ started /\ ~dialog
    /\ IF to = USB THEN usb ELSE rows /\ ~usb
    /\ \/ missing = {} /\ DoConnect(to) /\ UNCHANGED permission
       \/ /\ missing # {} /\ dialog' = TRUE /\ pendingConnect' = to
          /\ UNCHANGED <<alive, activity, missing, intents, service, wanted, doubt>>

\* Mutant: the target stays pending.
StillPending == UNCHANGED pendingConnect
NotPending == pendingConnect' = None

\* The callback of requestPermissions; the microphone is what counts.
Answer ==
    /\ started /\ dialog /\ dialog' = FALSE
    /\ missing' \in SUBSET missing
    /\ NotPending
    /\ IF "mic" \notin missing' /\ pendingConnect # None
       THEN DoConnect(pendingConnect)
       ELSE UNCHANGED <<alive, activity, intents, service, wanted, doubt>>

\* stopStreaming.
TapStop ==
    /\ started /\ ~dialog /\ shown
    /\ Command(None, FALSE)
    /\ shown' = FALSE /\ discovering' = (discovering \/ ~usb)
    /\ UNCHANGED <<alive, started, usb, rows, permission, service>>

----------------------------------------------------------------------------
\* MicifyService and the streamer.

Handling(what) == intents # <<>> /\ what /\ intents' = Tail(intents)

\* startForeground: the service enters the foreground even when the user denied
\* its notification.
StartForeground(to) ==
    /\ foreground' = to
    /\ notification' = IF "notifications" \in missing THEN None ELSE to

StopForeground == foreground' = None /\ notification' = None

\* NativeStreamer.start is true at once when a stream runs.
AlreadyRuns(to) ==
    /\ stream # None /\ UNCHANGED <<stream, leftover>>
    /\ isRunning' = TRUE /\ StartForeground(to)
    /\ moved' = (moved \/ to # stream) /\ UNCHANGED doubt

Succeeds(to) ==
    /\ stream = None /\ ~leftover
    /\ stream' = to /\ UNCHANGED leftover
    /\ isRunning' = TRUE /\ StartForeground(to)
    /\ moved' = FALSE /\ UNCHANGED doubt

Fails ==
    /\ stream = None /\ UNCHANGED <<stream, leftover>>
    /\ isRunning' = FALSE /\ StopForeground
    /\ doubt' = IF Len(intents) = 1 THEN "refused" ELSE doubt
    /\ UNCHANGED moved

\* ACTION_CONNECT.
OnConnect ==
    /\ Handling(Head(intents).to # None)
    /\ LET to == Head(intents).to IN AlreadyRuns(to) \/ Succeeds(to) \/ Fails
    /\ UNCHANGED <<alive, activity, permission, wanted>>

\* The streamer assigns to a thread that was not joined: the process ends.
Terminate ==
    /\ Handling(Head(intents).to # None) /\ leftover
    /\ alive' = FALSE /\ started' = FALSE /\ dialog' = FALSE /\ pendingConnect' = None
    /\ discovering' = FALSE /\ isRunning' = FALSE /\ StopForeground
    /\ UNCHANGED <<usb, shown, rows, missing, stream, leftover, moved, wanted, doubt>>

\* Mutant: isRunning is cleared, the streamer is not stopped.
NotStopped == UNCHANGED <<stream, leftover>>
Stopped == stream' = None /\ leftover' = FALSE

\* ACTION_STOP.
OnStopIntent ==
    /\ Handling(Head(intents).to = None)
    /\ IF isRunning THEN Stopped ELSE UNCHANGED <<stream, leftover>>
    /\ isRunning' = FALSE /\ StopForeground
    /\ UNCHANGED <<alive, activity, permission, moved, wanted, doubt>>

\* onErrorAfterClose: nobody tells the service.
StreamError ==
    /\ stream # None /\ stream' = None /\ leftover' = TRUE
    /\ UNCHANGED <<alive, activity, permission, intents, isRunning, foreground,
                   notification, moved,
                   wanted, doubt>>

Next ==
    \/ OnStart \/ OnStop \/ Recreate \/ Found \/ Toggle
    \/ \E to \in Target : Tap(to)
    \/ Answer \/ TapStop
    \/ OnConnect \/ Terminate \/ OnStopIntent \/ StreamError

Spec == Init /\ [][Next]_vars

----------------------------------------------------------------------------

\* The microphone is recorded only by a service in the foreground, from which
\* alone Android lets it, under the name of the stream's target unless a connect
\* to another PC came while it ran; a notification that is shown says the same.
MicOnlyInForeground ==
    stream # None => /\ isRunning /\ foreground # None
                     /\ moved \/ foreground = stream
                     /\ notification \in {foreground, None}

\* Once the last intent is handled, and it was a stop, nothing is recorded and
\* no service left, however connects, stops, errors and dialogs followed one another.
StopMeansStop ==
    intents = <<>> /\ wanted = None => stream = None /\ foreground = None /\ ~isRunning

\* When nothing is under way, the stop button is there exactly while the service
\* runs, and PCs are searched for exactly while it does not (and USB is off).
\* Two exceptions: the activity asked for isRunning too early, or the service
\* could not connect, of which the activity is not told.
ScreenFollowsService ==
    started /\ intents = <<>> /\ doubt = "no" =>
        /\ shown = isRunning
        /\ discovering = (~usb /\ ~isRunning)
=============================================================================
