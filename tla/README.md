# Micify: formal models, model checking and proofs

Micify turns a phone into a PC microphone: an Android app captures audio, encodes it with Opus
and sends it over UDP (Wi-Fi) or TCP (`adb forward`); a PC daemon decodes it, hides losses and
feeds a virtual microphone. This directory holds TLA+ models of its parts, the TLC
configurations that check them on small instances, and proofs checked by TLAPS. Paths below are
relative to the repository root (`src/`); `PROJECT.json` maps every definition to its lines.

## 1. Inventory

| Component | State | Operations | Interacts with | What is hard | What makes it correct |
|---|---|---|---|---|---|
| PCM ring (`pc-daemon/src/pcm_ring.c`) | samples, two wrapping positions, a mutex | write with an adaptive depth, non-blocking read | network thread writes, realtime callback reads | wrap of positions, drop of the oldest, trylock contention | it is a FIFO that only drops its oldest samples |
| Jitter buffer (`jitter.c`) | expected number, depth, arrival estimate | packet, concealment, resync, late drop, init, destroy | called by the network thread, writes the ring | wrapping `int32_t` distances, partial bursts, depth changes | each slot is filled once and in order, latency is bounded |
| Receiver (`net.c`) | socket, `running` | UDP and TCP loops, stop | calls `on_format`/`on_packet`; stopped by main | blocking reads at shutdown, framing, lost datagrams | a stop ends the thread |
| Daemon (`main.c`, `backend_*.c`) | `app_state_t`, shared by three threads without a lock | formats, packets, disconnection check, signal, shutdown | owns ring, jitter buffer and backend | order of publication and of release, stale clock | nothing is used after it is freed; silence is noticed |
| Phone streamer (`streamer.cpp`) | ring, mutex, condition variable, `mRunning`, socket, encoder, thread | start, stop, audio and error callbacks, sender thread | called by the service through JNI; sends to the daemon | lost wakeups, partial starts, errors between calls | audio leaves in order; start and stop leave all or nothing |
| Wire protocol (`protocol.h`, `docs/PROTOCOL.md`) | none | fixed structs | both sides | one unacknowledged announcement per stream | the daemon judges a packet by its own stream's numbering |
| Phone app (`MainActivity.kt`, `MicifyService.kt`) | `isRunning`, shown state, pending connect | connect, stop, permission answers, lifecycle | intents to the service, the streamer, discovery | asynchronous intents, stale rows, errors nobody reports | what is shown is what runs |
| PC discovery (`discovery.c`, `PcDiscovery.kt`) | map of PCs, listener thread, `running` | beacon, receive, prune, start, stop | UDP broadcast, posts to the UI | a listener that outlives stop, unsynchronised map | stopped listeners end; rows follow the beacons |
| Daemon window (`gui_main.c`) | subprocess, connected flag | start, stop, output chunks | the daemon's log over a pipe | chunks, end of output, restart races | no connected phone is hidden, none is made up |
| Windows backend, test sender | - | a stub; a tone generator | - | - | not modelled |

The parts meet at these places: the audio callback of the phone writes a ring its sender thread
empties into a socket (`Streamer`); packets cross the network whole or not at all (`Link`), or as
bytes of a TCP connection (`Framing`); the daemon's network thread hands them to the jitter buffer
(`Jitter`), which fills the ring (`PcmRing`) the audio server's callback reads, all of it brought up
and torn down by the daemon's threads (`Daemon`); the window starts daemons and reads their log
(`Gui`); beacons of daemons become rows on the phone (`Discovery`), and a tap on one an intent to the
service that starts the streamer (`App`).

`PROJECT.json` lists each hazard at its line, with the property that would catch it.

## 2. Modules

| Module | Role |
|---|---|
| `DropOldestQueue` | abstract specification: a bounded FIFO that drops its oldest elements and pads reads with silence |
| `PcmRing`, `PcmRingMC` | `pcm_ring.c` with its lock and wrapping positions; refines `DropOldestQueue` |
| `Jitter`, `JitterMC` | `jitter.c`, frame by frame; uses the abstract queue as its ring |
| `Link`, `LinkMC` | extends `Jitter` with phone sessions, the network and restarts of the daemon |
| `Daemon`, `DaemonMC` | `main.c`, `net.c` and the backend's callback as three threads |
| `Streamer`, `StreamerMC` | `streamer.cpp`: control thread, sender thread, audio and error callbacks |
| `Framing`, `FramingMC` | the TCP byte stream between `sendRaw` and `tcp_thread_fn` |
| `Discovery`, `DiscoveryMC` | beacons, the listener threads of `PcDiscovery.kt`, the rows on the screen |
| `App`, `AppMC` | `MainActivity.kt` and `MicifyService.kt` with the intents between them |
| `Gui`, `GuiMC` | `gui_main.c` and the daemons it starts |
| `PcmRingProofs`, `DaemonProofs`, `StreamerProofs`, `FramingProofs`, `AppProofs`, `DiscoveryProofs`, `GuiProofs` | theorems about the module each is named after |
| `LinkProofs` | theorems about `Jitter`, then about `Link`, which extends it |

**PcmRing.** `write_pos`, `read_pos`, `samples` are the fields of `pcm_ring_t`; positions are
reduced modulo `WordSize` (2^w) as a `size_t` is. The lock is taken in one step and the body done
and released in another, so that a `trylock` can fail in between (`ReadContended`). `OldestKept`
is the clamp of `pcm_ring_write`, `Padding` the silence that fills up a block.

**Jitter.** `DropLate`, `Resync` and `Accept` are the three branches of `jitter_on_packet`;
`Conceal` is one turn of its loop and `Decode` its end, so the callback (`Play`) reads in
between. A failed decode or concealment leaves the slot empty. A frame stands for its samples (all
frames of a stream have the same length). The floating-point estimate is abstracted to the set
`Estimate` of depths it may call for before the clamp; when it is recalculated, and the clamp,
are modelled. The `stat_` counters are only written, and left out. `broken` and the fields of a
frame are history.

**Link.** A message carries its stream and place in it; the daemon sees only the number on the wire.
UDP loses (`Lose`), repeats and reorders (`Received`); TCP keeps order. `Start` announces the format
once, as `Streamer::start` does. `Send` is a round of the sender thread after the encoder: the number
advances whatever `sendRaw` does, which delivers the packet (`Deliver`), fails before a byte is
written, on a live TCP connection or a lost one (`Fail`), or is cut short in the length or the packet
(`CutShort`). After a cut the daemon reads the connection out of step: a packet of that stream is
taken or passed over (`Swallow`, no magic number where it looks for one); `Framing` has the bytes.
`Break` is the end of a connection, by the cable or by a daemon that reads an impossible length, and
loses an end of what is under way. `Crash` restarts the daemon: a TCP connection dies, datagrams find
the new process. `taken`, `current`, `dropped`, `unsent` (packets whose send failed or was cut) and
`cut` (streams with a cut) are history.

**Daemon.** Every access to `app_state_t` that another thread can observe is a step of its own:
`net` and `main` are the program counters. `idle` is the age of `last_packet_time` in seconds (at
most `Timeout`), `silence` the true age of the last packet. `exit(1)` in `on_format` is
`main = "aborted"`. That no callback runs once a stream is destroyed is PipeWire's doing, and taken as given.

**Streamer.** A critical section under `mMutex` is a step of the callback; the sender evaluates its
predicate first and then waits (`"falling"`, `"asleep"`) or copies a chunk (`"copying"`): a callback
cannot enter in between, but `stop`, `onErrorAfterClose` and the reset of the ring in `start`, which
do not take the mutex, can. That reset (`Reset`) is a step per position. After an error closed a
stream its sender may still be between its predicate and the end of its copy (`Beside`), so a position
set to 0 may be overwritten by what the sender stores at the same time (`Zeroed`), and the predicate
may come out either way; `raced` records that a ring was reset like this. `failed` records that an
error closed a stream that was not stopped yet. Calls of `start` and `stop` come from one thread, the
main thread of the app. `lost` records the samples of a stream that were given up, by the full ring or
a failed encode.

**Framing.** A byte is known by its packet and its place in it, so that what a length or a packet
read out of step means can be told: two bytes of one prefix in their order are its length, any
other two may have any value. A send may write fewer bytes than asked for, a read may return fewer,
the connection may be closed or lost with what it carried. The phone has one connection per stream
and goes on with the next packet after a failed send. It is assumed that a payload never happens to
look like a magic number at the place where a reader out of step looks for one; the code cannot
exclude that, and nothing else protects it.

**Discovery.** `stop` is two steps, since a socket that a listener assigns between the close of the
shared one and the assignment of null is forgotten open; its other statements commute with what a
listener can do in between. Each `start` brings a listener thread into being, and the thread passes
through `bind`, the assignment of the shared socket, the loop, the receive, and the update and the two
iterations over the map (`Copy`, `Prune`), between which the main thread may stop and start again. An
iteration that meets another thread's change may end the listener with an exception (`Collide`) or go
on. `posts` are the lists on their way to the main thread, `shown` the rows. An entry is absent,
fresh, or stale (due for `pruneStale`). `loose` is history: a stop, a collision or an overlap of
listeners may have changed the map since it was last copied.

**App.** One handler of the main thread is one action; `intents` are the commands on their way to the
service. `onStartCommand` is `OnConnect` or `OnStopIntent`; the streamer behind it is reduced to its
target and to what an error leaves behind (`leftover`, see `TerminatesOnlyAfterError` of `Streamer`;
the next start ends the process). `foreground` is whom `startForeground` names, `notification` what is
shown of it, which is nothing when the user denied notifications. The permission dialog is modal:
while it is open nothing else of the activity is touched, but it may be stopped, rotated or destroyed.
After the process ended it is not launched again. `wanted`, `moved` and `doubt` are history.

**Gui.** Each daemon has a record with its life, its transport, its pipe and whether a read is
pending. A message is one write and arrives in one piece (`setvbuf` makes stderr unbuffered, and the
log stays far below the 4096 bytes of a read); several may be read at once. The daemon is reduced to
what it says (its two threads print without a lock, so "disconnected" may precede the first "started", as in
`Daemon`), when it holds its port, and the join that a silent TCP connection delays (`StopEnds`
of `Daemon`). `blame` is history.

## 3. Runs

| Run | Instance | Distinct states | Shows |
|---|---|---|---|
| `ring` | 4 slots, blocks of up to 3, depths 1..5, words of 16 | 52 thousand | the ring implements the queue across every alignment and wrap |
| `jitter` | 8 numbers, 2 concealed at most, depth up to 3, a ring of 4 | 2.1 million | order, gaps, latency whatever arrives |
| `link` | 2 streams of 4 packets, 3 messages under way, 1 restart | 3.2 million | streams stay in order; over TCP only what was not sent is missing |
| `daemon` | a timeout of 2 s | 8 thousand | no use after free, revocable reports, shutdown ends |
| `streamer` | frames of 2, bursts of 1 or 3, a ring of 4, words of 8 | 935 thousand | no lost data wakeup, all or nothing, order, timestamps, resets beside a leftover sender |
| `framing` | announcements of 2 bytes, audio of 3, 4 packets, 7 bytes under way | 238 thousand | torn bytes are never taken for another packet |
| `discovery` | 1 PC, 2 listeners, 2 posted lists | 147 thousand | stopped listeners end, rows follow the beacons |
| `app` | 2 PCs and USB, 3 intents under way | 92 thousand | recording only in the foreground, a stop stops, the screen follows |
| `gui` | 2 daemons | 6 thousand | the window hides no phone, replaced daemons end |
| `link_late`, `streamer_stop`, `streamer_stamp` | as above | - | one disagreement each between the code and what a document or comment says (section 5) |

*Why the bounds suffice.* Positions and sequence numbers wrap within each instance, so every
distance on either side of a wrap occurs; the ring's capacity is smaller than two blocks, so a
write overlaps unread samples in every way; blocks and depths lie below, at and above the
capacity. In `jitter` the concealment limit (2) is less than half the cycle (8), as 25 is of
2^32, so late, concealed and resynchronised packets all occur. `link` needs two streams with
more packets than the concealment limit and a network that holds one of each kind; sends may fail one after the
other, so gaps of every length up to a stream's occur over TCP as well.
`Link` assumes that no stream of the instance is long enough to wrap (`MaxSent < SeqSize \div 2`);
over a real 32-bit counter a stream wraps after 497 days. `framing` has packets of both kinds, of
the header's length and longer, and enough of them that a torn one swallows the next and the
reader meets a third; its buffer is as long as the longest packet, so lengths beyond it occur.
Overlaps in `discovery` are between pairs of listeners, and one posted list can wait behind another.
Two PCs besides USB are
enough for `app`, where a connect may find the stream on the other target. Two daemons suffice for
`gui`: an old and a new one, of the same transport when a failed spawn flipped the box in between.

*Deadlock* is not checked in `link`, `daemon`, `streamer`, `framing`, `app` and `gui`, which really
stop: the phone's streams and packets are bounded, the daemon exits, the process may end, the window
is closed and its daemons gone.

*Fairness.* `Daemon`: every thread is scheduled, the clock ticks, callbacks end. `Rebuild` and
`StopBackend` are strongly fair because PipeWire carries a removal out between two callbacks, which go
on coming until then. What the phone sends, the signal and an idle TCP connection get no fairness.
`Streamer`: a call that has begun goes on, Oboe delivers callbacks, the sender runs; `SendPacket` is
fair over UDP only, since a TCP send blocks as long as the PC does not read; calls of the user, errors
and spurious wakeups get none. `Discovery`: listeners run and the main thread ends a call of `stop`
and takes what is posted; time passes, so an entry that is not refreshed becomes stale (`Age` is
strongly fair because each update of the list interrupts it), and a PC that broadcasts every second is
heard by a listener that goes on receiving (`Receive` is strongly fair because the one-second timeout
of the socket may come first again and again). What the user does, and PCs that come and go, get none.
`Gui`: daemons that were told to end go on ending; the user, the phone, and the reads of the window
get none. `Jitter`, `Link`, `Framing`, `App` and `PcmRing` state safety only.

`StopEnds` names its exception: a network thread reading an accepted TCP connection is not woken by
the close of the listening socket (`net.c:154-160`), so the join waits for the phone. `NoUseAfterFree`
and `AllOrNothing` of `Streamer` exclude the time after a stream error, where a start may leak or end
the process (`TerminatesOnlyAfterError` says that it is the only way). `RingBounded` and
`InCaptureOrder` except a ring that was reset beside what an error left running (`raced`), and
`RingBounded` the moment between the resets of the two positions; `TypeOK` says that a stream is never
started on such a ring: the joinable thread ends the process first. `TcpHidesOnlyUnsent` and
`DecodedInOrder` except packets whose send failed (`unsent`) and streams that were cut short (`cut`),
for which the promise is `HandedWhole` of `Framing`. `ShownIsListed` and `ListFollowsBeacons` except
the time after a stop or an overlap of listeners, and the latter a discovery nobody listens for: when
the bind fails or a collision ends the only listener, `running` stays set, and nothing is found until
a stop. `MicOnlyInForeground` lets the service name another PC than the one that is streamed to when a
connect came while a stream ran (`moved`), since `NativeStreamer.start` is true at once then.
`ScreenFollowsService` excepts an activity that asked for `isRunning` while an intent was under way
(`early`) and a connect that failed, of which the activity is not told (`refused`). `ShownIsSaid` lets
the window show a phone that is not there after words of both kinds were read in one chunk, and
excepts output of a replaced daemon read after the toggle and a daemon that is gone. "Re-announced"
counts as connected although the rebuild that follows may fail, which ends the daemon.

## 4. Proofs

`PcmRingProofs` proves, for every capacity, block length, set of depths and word size that satisfy
`RingAssumption` (the capacity divides the word, as a power of two does, and a block is no longer
than the capacity):

* `TypeCorrect`, `WindowAlwaysBounded`, `NeverRewinds`: the wrapped distance
  `(write_pos - read_pos) % WordSize` stays within the capacity and no step moves the read position
  back. `WindowBounded` is inductive together with `TypeOK`; `WriteWindow` and `ReadWindow`
  compute the new distance of each call without the wrap.
* `RingImplementsQueue`: every behaviour of the ring, seen through `unread` (the samples a reader
  would get), is one of `DropOldestQueue`. A write is a `Push` (`WriteRefines`): by `LastElements`
  the i-th unread sample afterwards is the i-th of the last `max` elements of the old ones followed
  by the block, and its slot was written exactly when it lies less than `Len(s)` after the old
  `write_pos`. A read is a `Pop` (`ReadRefines`), a contended one a `PopContended`, and taking the
  lock a stutter. The facts about remainders come first, proved from the definition of `%`; where
  `Streamer` and `Jitter` wrap, their proofs start with the same facts for their own width.

The first part of `LinkProofs`, about `Jitter` alone, proves, for every width of the sequence numbers,
concealment limit, depth, ring and set of estimates that satisfy `JitterAssumption` (the limit is less
than half the range of the numbers, the ring has room for the deepest target), `TypeCorrect`,
`AlwaysGapless`, `AlwaysLatencyBounded`, `NeverGoesBack` and `AlwaysInForce`. `RingGapless` is not
inductive alone: `Sequenced` adds that the packet in hand lies exactly `gap` slots after the next one,
so that the last concealed frame meets it, and that nothing counts as following on before the session
has a position. `AheadOrLevel` is the wrap: a difference that is not negative as an `int32_t` is the
unsigned one. `PushedFrame` and `PoppedFrames` say which old frame each place of the ring holds after
a write and a read.

`DaemonProofs` proves, for every timeout, `TypeCorrect`, `NeverUsedAfterFree`, `AlwaysReleased` and
`AlwaysRevocable`. None of these invariants is inductive: `Ordered` adds what the unlocked code relies on,
namely that a callback runs only for a registered backend, a backend only for a live ring and
decoder, that `initialized` stands for a live session except while `on_format` rebuilds it, and
that `main` releases only after the join, as `TypeOK` says too. `Revocable` adds, for the last one, where
both threads may be while "phone disconnected" is the last word but the flag is not set yet. The
proofs go by cases on the actions.

`StreamerProofs` proves all safety properties of the capture side for every frame size, ring, set of
bursts and word size that satisfy `StreamerAssumption` (the capacity divides the word, and a word
holds the capacity and one more burst): `TypeCorrect`, `NeverUsedAfterFree`, `AlwaysAllOrNothing`,
`NeverTerminatesAlone`, `AlwaysBounded`, `AlwaysInOrder` and `AlwaysLagsByLoss`. The first four rest
on `Ordered`: until an error interferes (`failed`), each step of `start` and `stop` finds what the
ones before it left, and a sender implies an encoder and a socket (`Whole`). `CaptureWindow` and
`ChunkWindow` compute how far a callback and a chunk move the two positions, without the wrap.
`Phased` is about the reset: while `start` sets one position after the other nobody but a leftover of
a failed stream moves them, and if one does, `raced` stays until the thread that is still joinable
ends the process. `Filled` is `RingBounded` with what the sender's predicate found under the mutex: a
chunk about to be copied is there. `Stamped` is the invariant behind the last one: timestamp, loss and
the chunk in hand add up to `mReadPos`.

The second part of `LinkProofs` proves all safety properties of the path from phone to ring for every
number and length of streams, size of the network and number of restarts that satisfy
`LinkAssumption`, on top of the first part's invariant: `LinkTypeCorrect` (with `OnlySent`: whatever
is under way, decoded, dropped or given up was sent, under its own number),
`TcpAlwaysHidesOnlyUnsent`, `AlwaysLateWithinStream` and `AlwaysDecodedInOrder`. Its invariant has two
ideas. `Placed`: the numbers of all streams lie in the lower half of the range, so no distance wraps
there, and what the daemon will expect next (`Position`) is a plain number that only grows; nothing
taken or dropped lies beyond it, and the packet taken last of the current stream lies right before it.
With `AheadOrLevel` that gives the order over UDP, whatever is lost, repeated or overtaken, and
whichever stream it comes from. `Unbroken`: over TCP, from the packet the daemon expects next
(`Expected`), through the messages under way, to the one the phone sends next, each follows on the one
before it but for packets whose send failed or a stream that was cut (`Succeeding`, `Lacks`). So what
arrives is never behind the jitter buffer, and whatever the buffer conceals or skips to reach it was
not sent. A restart of the daemon breaks the connection and starts the chain anew.

`FramingProofs` proves `TypeCorrect` and `AlwaysHandedWhole` for every set of lengths, header size, buffer,
connection and number of packets that satisfy `FramingAssumption` (which asks, besides what the fixed sizes of
the code give, that the reader's buffer holds the two bytes of a length). The invariant looks at the
bytes in hand and those under way as one sequence, `Stream == buf \o pipe`, which a read does not
change. `Coherent` says pairwise, for any two bytes of it, what the packets they belong to have in
common: packets come in order, a packet's bytes lie next to each other, and unless its send was cut none
is missing before its end. Stated for pairs it survives the loss of a prefix and an append
without an induction over the bytes. `Fresh` relates the stream to the packet handed over last, `PhoneThere`
to where the phone is, and `ReaderThere` to where the reader is: one that no cut has put out of step stands
at the start of a length or of a body of the right size. That a reader out of step takes nothing old or torn
apart follows from `Coherent` and `Fresh` alone.

`AppProofs` proves all safety properties of the app for every set of PCs and any number of intents under
way (`AppAssumption`: USB and "none" are no PCs): `TypeCorrect`, `AlwaysInForeground`, `StopAlwaysStops` and
`ScreenAlwaysFollows`. The last two speak of the moment when no intent is under way; what makes them
inductive is what holds while intents are: the last one is what the user asked for (`LastIsWanted`), and the
screen already shows what it will make true (`ScreenFollowsWanted`). `SameMode` carries the mode of the
switch over the time a permission dialog is open, which is what makes a delayed connect go where the user
tapped; an error's `leftover` excludes a running stream.

`DiscoveryProofs` proves `TypeCorrect` and `AlwaysShownAsListed` for any PCs, any listener threads and
any number of posted lists (`DiscoveryAssumption`: null is no thread's socket). The invariant says of
every state how the map, as it is now, will reach the rows (`Coming`): a listener is about to copy it;
or a listener holds this very copy and no other holds one that could be posted after it; or it was the
last list posted, or is on the screen already. A beacon that changes the map puts its listener in
front of the copy, and the only steps after which none of the three holds are a stop and an overlap of
listeners, which `loose` remembers. For the types, `Sockets` says which thread may still assign the
field that `stop` closes: the shared socket never belongs to a thread that has not assigned its own.

`GuiProofs` proves `TypeCorrect` and `AlwaysShownAsSaid` for any number of daemons. What is inductive
with `ShownIsSaid` is that the output of each daemon that lives, shown or not, is truthful
(`Truthful`): if one word is left in the pipe, it is the last one said. A pipe that holds both says
nothing about their order, but it holds a "started", so a read of both can only show a phone too many.
`DaemonStep` is the step of any daemon; the other lemmas are the window's: a replaced daemon is let go
of with its output unread, and the new one starts with nothing said and nothing shown.

Every safety property that a run checks is thereby proved for all values of the constants. Only
model-checked are the liveness properties `StopEnds`, `SilenceNoticed`, `AudioLeaves`, `ListenersEnd`,
`ListFollowsBeacons` and `OldDaemonsEnd`: leads-to under fairness, and the `ENABLED` behind it, is outside what
the prover handles. So is induction over data, which no property here needs, as the models have no recursion.

## 5. What the violations show

* `link_late` - after a new stream's single announcement is lost or overtaken, its packets are
  compared with the numbers of the old stream and dropped "late" although nothing newer was heard;
  with a long old stream the microphone is silent until the new one outgrows it.
* `streamer_stop` - `stop` clears `mRunning` and notifies without the mutex; a sender between its
  predicate and its wait sleeps on, and `stop`, on the app's main thread, joins it for ever. It needs
  that no later callback notifies, which is the case when `requestStart` fails.
* `streamer_stamp` - a packet's timestamp is documented as the sample count at capture time, but
  counts the samples that were encoded: after an overflow of the ring or a failed encode it is early,
  and stays so. `StampLagsByLoss` (checked and proved) says that it lags by exactly what was given up.

More disagreements follow from the models without a run of their own; the properties that touch them
name them as exceptions (section 3).

* Each announcement removes the PipeWire node and registers another (`Rebuild`, `StartBackend`), while
  `PROTOCOL.md` says that the node stays registered so that reconnecting does not flap the device
  selection.
* `PROTOCOL.md` says that an announcement resets the jitter buffer. The ring of decoded samples stays
  (`Restart` of `Jitter`): up to the target depth of the old stream, which `LatencyBounded` bounds, is
  played at the start of the new one.
* `PROTOCOL.md` has the target depth recomputed every ~200 packets and packets dropped that are more
  than one buffer depth late; the code recomputes it every 100 (`jitter.c:63`) and drops any packet
  behind the next one (`jitter.c:102`).
* "Phone disconnected" may be printed just after a packet came, since the age of the last packet is
  read before and acted upon after it; `DisconnectRevocable` (checked and proved) says that the next
  packet takes the message back.
* `PROTOCOL.md` says that entries of the phone's list expire. `stop` clears the map without publishing
  and the next `start` begins with the empty map, so rows of PCs that vanished in between stay until
  another list is published (`loose`).
* `MicifyService.kt:21-24` has the notification as the indicator of the connection. With notifications
  denied the app connects all the same and there is none; `MicOnlyInForeground` says what still holds.
* `gui_main.c:3-10` says that the window reflects its daemon and shows whether a phone is connected.
  It also shows what a replaced daemon still says, keeps what a crashed one said, and shows "session
  started" when the same chunk goes on to "phone disconnected" (`blame`, `ShownIsSaid`).

## 6. Not modelled, and what is left

Left out for good: the Windows stub, the test sender, byte layout of the packets (fixed structs on
both sides; malformed input is ignored by `handle_datagram`), audio content, the argument parser,
wording and layout of the two user interfaces, the shown duration, and `pcm_ring_available`, which
nothing calls. `discovery_stop` joins a beacon thread that sleeps for at most a second
(`discovery.c`); in `Daemon` that is part of the step from the loop to the shutdown.

Left to do: compositions, `App` over `Streamer` in place of its reduced streamer, and `Gui` over `Daemon`.

Run a configuration with `tlc -config JitterMC.cfg JitterMC`, a proof with
`tlapm PcmRingProofs.tla`.
