# Roadie in TLA+

Roadie lets a phone be seen and driven from elsewhere: it captures the phone's
HDMI picture and its sound, serves them to viewers over HTTP and WebRTC, and
presents itself to the phone as keyboard, mouse, touchscreen, sound card and
network interface. This directory holds TLA+ modules of its parts that are
hard to test, the TLC configurations that check them on small instances, and
proofs checked by TLAPS. Paths below are relative to `src/`.

Run a check with `tlc -config X.cfg M` and the proofs with `tlapm M.tla` for the
eight modules whose names end in `Proofs`, in this directory. `PROJECT.json`
lists every run with its module, the source lines of every definition, the
hazards and which property is about each, the theorems, and one mutant per
property: a plausible mistake (the definitions named `Bug...`) that makes the
property fail.

## The system

| Component | State | Operations | Hard behaviour | What makes it correct |
|---|---|---|---|---|
| gadget HID backend (`gadget_hid.go`, `gadget_linux.go`) | per function: open node, what is held, `dirty` and what is owed, `closed`; USB state last seen, `cleanPending`, `reenumerated`, carrier count | key, mouse and touch commands; `refresh` once a second; `ResetHID`, `ResetRelay`, `Shutdown` | one lock per function, taken one after another by the monitor; writes that time out half-way; the phone leaving and returning between polls; kill and restart | a failed press is never kept or resent; what the phone holds is accounted for and finally let go |
| WebRTC broadcaster and sessions (`rtc/`) | sessions, caps, microphone owner (under `mu`); encoder, tap, key request (under `encMu`) | `ServeSignal`, `addSession`, `removeSession`, `Frame`, `EndHold`, `Close` | decisions under one lock acted on under another; `encMu` given up half-way | picture and sound exactly while viewers are there; one microphone; a viewer gets a picture |
| frame buffer (`capture.go`) | latest picture with its pins, the JPEGs made of it | `UpdateRaw`, `Latest`, `LatestAt`, `Detach`, `Clear` | pictures live in the driver's memory and are encoded on request goroutines | no buffer lost or reused too early; no outdated JPEG taken for the latest |
| capture manager and loop (`capture.go`, `capture_native_linux.go`) | current device, settings token, reset rendezvous | `Run`, `monitorCapture`, `runCapture`, `ResetUSB` | stops that time out, so that two loops overlap | the old loop's memory outlives its use; a change of settings is not lost |
| crop and orientation (`capture.go`, `crop_*.go`) | active, pending and saved crops, orientation and its debounce | per picture; API calls | dark or torn pictures, a change seen once | a crop or a turn needs two agreeing detections |
| relay HID backend (`hid.go`) | port, missed pings, attempts, `boardSilent` | `Run`, commands, `SendAudio`, `Shutdown` | commands and monitor share the port; late answers; recovery in steps | a silent board is not a silent relay; recovery escalates and stops |
| settled HID (`hid_settle.go`, `hid_glide.go`) | last move, press, release; held buttons; finger | the HID commands, paced | waits outside the lock; two-step gestures that fail half-way | a press does not come too soon after a move; finger and button agree |
| audio (`audio.go`, `audio_mux.go`, `gadget_audio.go`) | subscribers with bounded queues, the source followed | `Broadcast`, `Restart`, source switching | slow listeners, sources that vanish and return with another format | listeners know the format of what they get |
| recorder (`record.go`) | recordings by hold, zips on disk | `input`, `end`, `finish`, `retry` | late inputs, crashes between files, lost answers | a hold's recording is uploaded or kept |
| BiDi endpoint (`bidi.go`, `commands.go`) | the one session, its pressed keys and pointers | commands per connection, idle timer | several connections and the timer race for the session | input is released when its session ends |
| rotate (`rotate.go`, `atmenu.go`) | how the phone is held, the walk's step | `rotate` | pictures lag the menu | the walk ends with the menu closed and the pointer read the right way |
| encoder back-ends (`encoder/`) | child process or device, bitrate | `Encode`, `SetBitrate`, `RequestKeyframe`, `Close` | the process dies or is relaunched under use | a dead encoder is replaced, none leaks |
| TLS reload (`tlsreload.go`) | certificate, file times | handshakes | two files replaced one after the other | a matching pair, never an old one for ever |
| others: HTTP API, station tunnel, grid, mDNS, authentication, codecs, firmware, scripts, tools | | | | see `PROJECT.json` |

How they interact: the **capture loop** reads a picture, stores it in the
**frame buffer** (`UpdateRaw`) and calls `Frame` on the **broadcaster**, which
feeds one **encoder**. HTTP handlers, the recorder, BiDi and rotate ask the
frame buffer for JPEGs. Input goes from HTTP, BiDi, rotate and the viewers
through the **settled HID** to either the **gadget** or the **relay** backend;
the recorder listens to it. A viewer's microphone and the phone's sound pass
through the broadcaster's audio half and the audio fan-out. A hold that ends at
the station closes its sessions (`EndHold`) and its recording. Holds, requests
and loops run on goroutines of their own; the mutexes named above are the only
synchronisation.

## The modules

| Module | Part | Run | Proofs |
|---|---|---|---|
| `GadgetHID`, `GadgetHIDLive` | gadget HID backend | `GadgetHID_*` | `GadgetHIDProofs` |
| `Broadcaster` | WebRTC broadcaster and sessions | `Broadcaster_*` | `BroadcasterProofs` |
| `FrameBuffer` | pictures in driver memory | `FrameBuffer_*` | `FrameBufferProofs` |
| `RelayLink` | relay HID backend | `Links` | `LinkProofs` |
| `CaptureManager` | capture loop kept running | `Links` | `LinkProofs` |
| `SettledHID` | pacing of pointer input | `Parts` | `InputProofs` |
| `BiDiSession` | BiDi endpoint | `Parts` | `InputProofs` |
| `HoldRecorder` => `RecordingDelivery` | recorder, and what it promises | `Parts` | `RecordProofs` |
| `FFmpegEncoder` | encoder process | `Parts` | `PictureProofs` |
| `M2MEncoder` | hardware encoder | `Parts` | `PictureProofs` |
| `PhoneAudio` | sources, mux, `/audio` | `Parts` | `RecordProofs` |
| `GadgetMic` | microphone into the phone | `Parts` | `RecordProofs` |
| `RotateMenu` | turning the phone | `Parts` | `InputProofs` |
| `CropTracker` | the crop in use | `Parts` | `PictureProofs` |
| `CropStore` | the crops saved | `Parts` | `PictureProofs` |

`MCGadgetHID`, `MCBroadcaster` and `MCFrameBuffer` hold the symmetry sets and
views of their runs. `MCLinks` and `MCParts` run several components in one go:
these share no state with each other, so a behaviour is one of any of them
(`part` says of which) while the others rest in their initial states. That each
of them behaves there as it does alone is proved (`LinksAreBoth` in `LinkProofs`,
`PartsAreApart` in `PartsProofs`), so what is proved of a component holds of the
composition that is run. What one
component is to another is in each the other's environment: an encoder from
outside is `enc` in `Broadcaster`; the backend under `SettledHID`, `BiDiSession`
and `RotateMenu` is calls that succeed or fail; the pictures under
`CaptureManager` are `FrameBuffer`'s.

Left for later: an abstract `InputDevice` (a set of things held, commands that
change it or fail, a device that in the end agrees) for `GadgetHID` to refine
and `SettledHID` and `BiDiSession` to be composed with; an encoder composed with
`Broadcaster`; `TLSReload`; and as pure operators `Bitrate` (`setBitrate` under
`statsLoop`) and `Reports` (scroll splitting, coordinates stepped aside).

## GadgetHID

State. `held`, `dirty`, `owed`, `dev`, `closed`, `present` are the fields of
`hidFunction` (`kstate`, `mstate.buttons`, `tstate` as one set `held`); `usb`,
`observed`, `cleanPending`, `known`, `reenumerated` those of `GadgetHID`.
`call[f]` is the call that has `hidFunction.mu`, between its first report and
its last. `phone`, `slot` (f_hid's queue of one report), `host`, `pullup`,
`gadget`, `moved` (carrier changes not yet read) are the environment. `told`,
`lost` and `carried` are history: what callers were told is down, why roadie no
longer knows what the phone holds, and entries held from before the phone's
last enumeration.

Actions. A call of one report is `Single`; one of several is `Begin`,
`SendMid`*, `SendLast`, between which other functions, the phone and the
monitor's unlocked steps move on. Every report has every outcome the node can
give (`Outcomes`): delivered, no host, host not reading, node broken, refused.
One poll of the monitor is `PollStart`, `PollSync` per function, `PollSettle`
(`setUSBState`), `PollForget` per function, `PollRelease` per function,
`PollRetry` per function: the code takes each function's lock separately, so
calls, replugs and `roadie-gadget down` fit in between. `ResetHID` and
`ResetRelay` are requests with steps of their own; `Shutdown` releases and
closes function by function; `Kill` and `Start` happen anywhere.

Abstracted: coordinates, wheel, report bytes, status shown, log lines, time
(any timeout may happen when the phone does not collect).

Properties, and the runs that check them:

- `GadgetHID_two` (mouse and touchscreen, one key each, kills; 1.2 million
  states): `HeldWasAsked`, a failed press is not kept;
  `ResendPressesNothing`, nor is it sent again later by the monitor;
  `PhoneAccounted`, whatever the phone holds that roadie does not is owed, in
  the middle of a call, or forgotten by a reset; `LeftoverReleased`, what a
  killed process left held is pending until released.
- `GadgetHID_resets` (a keyboard, both resets, kill and shutdown, with the
  carrier count; 1.5 million states): `IInv`, the proofs' inductive invariant
  with type correctness in it;
  `OwedIsHeld`; `NothingAfterClosed`.
- `GadgetHID_live` (a keyboard): from the moment the phone stays attached,
  `OwedLands`, `PhoneConverges`, `ReplugNoticed`.
- `GadgetHID_left_standing` and `GadgetHID_shutdown_owed` end in a violation:
  see Findings.

Bounds. Reports hold sets, so that one key already distinguishes pressed,
released, owed and stale; two functions are what the poll's order between
functions needs. The state space is finite without further bounds.

Fairness (`GadgetHIDLive`): the monitor's goroutine keeps running, a call that
has begun finishes, a reset in progress goes on, the phone polls its endpoints
while it is configured, and opening a node that exists succeeds sooner or later
(strong fairness, since a poll may also find it busy). Users are under no
fairness. Nothing is required before `calm`, so that liveness is about what
the code does once the phone stays.

Proved (`GadgetHIDProofs`), for every set of functions and keys, any
administrative calls and either end of the process: `TypeOK`, `HeldWasAsked`,
`OwedIsHeld`, `PhoneAccounted`, `LeftoverReleased` as invariants,
`ResendPressesNothing` and `NothingAfterClosed` as action properties. From the named assumption
`ConstantsAssumption` (function names, and that "no report" and "no call" are
not values of the data). None of the invariants is inductive alone.
`IInv` adds `CallsGood`: the call in progress carries a fallback its caller was
told of, and a final state that only adds what it asks; without it
`SendLast` and `Fail` could install anything. And `NobodyThere`: with no phone,
or with a node that has been replaced, nothing is queued or held; without it
`GadgetUp` and `Attach` could find old reports. `PhoneAccounted` needs
`OwedIsHeld` to survive a resend, and `HeldWasAsked` needs `CallsGood`. The
proof takes `Next` apart action by action; actions that touch none of a
conjunct's variables are dispatched by one frame lemma.

`LeftoverReleased` is about a poll that reads what the phone does in one step
and acts on it many steps later, and needs more. `LeftoverInv` adds to `IInv`:
a process that is down has left nothing of itself behind (`DownIsNew`); where
a poll takes the phone to have left or enumerated, nothing from before the
restart is still held (`EvidenceIsTrue`), so that forgetting is right; a relay reset
has forgotten a function before it is done with it (`RelayForgets`); and
`LeftoverKept`, the property with what a poll half-way through knows: past
`PollSync` the nodes it found open are open, in the release pass each function
released owes its report.

Only model-checked: the three liveness properties.

## Broadcaster

State. `sessions`, `caps`, `micOwner` (under `mu`), `sinking` (the tap on the
capture loop), `enc`, `wantKey` (under `encMu`), and the goroutines that move
them: `serve[s]` is `ServeSignal` and `newSession` with `addSession`'s three
stages, `leave[s]` is `Close` with `removeSession`'s four, `frame` is `Frame`
between closing an encoder for a new size and opening the next, where `encMu`
is given up. `ending` is the list that `EndHold` or `Close` works through.
`watch`, `control` and `mic` are the viewer's side. Abstracted: media, SDP,
candidates, bitrates (only whether a cap is set), statistics.

Runs:

- `Broadcaster_viewers` (two viewers, control messages, microphones; 0.57
  million states up to symmetry): `TypeOK`; `MicExclusive`; `TapEnds`, however
  arrivals and departures overlap, tap and speaker loop do not outlive the
  last viewer.
- `Broadcaster_live` (two viewers, two sizes, a hold): with nobody registering
  in the middle of the last removal (`Spaced`, see Findings for what happens
  otherwise), `FollowsViewers`, the picture and the sound run
  exactly while someone is there; `TapKept`, the picture is not taken from those
  who stay; and `ViewerStarts`, a connected viewer gets a keyframe to start on.
- `Broadcaster_picture_lost`, a violation: see Findings.

Bounds. Sessions are reused once nothing refers to them, so two names stand for
any number of viewers one after the other; two at once are what first/last,
two microphones and overlapping removal need. Two sizes make a resize.

Fairness: the capture delivers frames while it is tapped and an encoder can
be opened sooner or later; goroutines in the middle of `addSession`,
`removeSession` and `Close` go on; a viewer with no picture keeps sending PLIs
(browsers do); the limit on keyframes passes. Arrivals and departures have
none. Deadlock checking is off, since everybody may have left for good.

Proved (`BroadcasterProofs`), for any sets of sessions, sizes and holds: type
correctness (`ViewersTyped`),
`TapEndsWithLast` and `OneMicrophone` without conditions, `PictureFollowsViewers`
and `PictureStays` where nobody registers in the middle of the last removal.
The goroutines act on decisions made earlier under another lock, so nothing they
look at when they act says whether the tap should be on. `ViewersIInv` says who
owes what: a tap without a viewer has a removal under way that will take it off
(`TapTakenOff`, `SpeakerStopped`), viewers without a tap have an arrival under
way that will put it on (`TapPutOn`, `SpeakerStarted`), a removal past its
decision is alone (`RemovalAlone`), and a session nobody serves yet is not
closed under its arrival (`ArrivesOpen`). The last three need `Spaced`, the
first three do not. `ViewerStarts` is only model-checked.

## FrameBuffer

State. `raw`, `rawSeq`, `pic[n]` (every `rawFrame`, with pins, `stale` and
whether its release ran), `jpeg` (what each kept JPEG shows and what it claims
to show), `encMu`; `job[e]`, the callers of `Latest`, `LatestRaw`, `LatestAt`
at the points where they give `mu` up; `loop[c]`, `runCapture` of the c-th
capture; `queued`, `mapped`, the buffers the driver has and the memory still
mapped; `mgr`, `CaptureManager.Run`. `overlapped` and `outdated` are history.

A picture's memory is given back by whoever lets go of it last: the loop with
the next picture, `Detach`, `Clear`, or an encode's `unpin`. `Stop` and `GoOn`
are the manager: it cancels a capture, waits for its loop for five seconds at
most, and starts the next one, so that with `SlowWork` two loops may run beside
each other. An encode counts as reading the picture's pixels until it is done.

Runs:

- `FrameBuffer_pictures` (two captures, two buffers, two callers, two pictures;
  2.8 million states up to symmetry and finished pictures):
  `BuffersAccounted`, each buffer of an open capture is in exactly one place;
  `PicturesIntact`, also with loops overlapping; `LoopPictureIntact` and
  `LatestIsFresh`, as long as the manager did not go on without the old loop.
- `FrameBuffer_unmapped`, a violation: see Findings.

Bounds: `MaxPictures`, `MaxCaptures` and `MaxErrors` (3 in the code, 2 here,
so that the counter has a value before its limit). With two pictures one is
replaced while it is pinned, and by a later capture; two callers are what
`encMu`, a JPEG stored late and a picture pinned twice need. The run checks states up
to a view that forgets pictures nobody refers to. Deadlock checking is off: the
bounds stop the loops.

Proved (`FrameBufferProofs`), for any finite sets of buffers and callers, any
number of captures and pictures, and loops that do or do not overlap: type
correctness and every invariant of `FrameBuffer_pictures`. The assumption is `ConstantsAssumption`
(finite sets, the bounds are numbers, `None` is no caller). The code decides by
a count and a flag, the properties speak of callers and of the latest picture;
`IInv` ties the two together:

- `PinsCounted`: a picture's `pins` is the number of callers that encode it;
- `Released`: it is stale just when it is not the latest, and given back just
  when it is stale and without pins, or has been copied by `Detach`;
- `BuffersKept`: each buffer of an open capture is queued and kept by no
  picture, or kept by exactly one;
- `CapturesInOrder`: a loop that is not gone has its memory mapped, and no
  picture is in the memory of a capture to come, so that a new capture finds
  all its buffers free;
- `OneLoop`, `JPEGsHonest`, `FloorsKept`, as long as the manager has waited for
  each loop: one loop runs and uses the latest picture, so the number the loop
  writes on its JPEG is that of the picture it shows, and a caller encodes
  nothing older than what it asked for.

`GivenBackOnce` is the lemma the others rest on: whatever changes one picture,
and queues its buffer just when it becomes given back, keeps every buffer in one
place. `UnpinKeeps`, `PinKeeps`, `ClearKeeps` and `CopyKeeps` are its four uses,
and `UpdateRaw`, which does two of these things at once, has a proof of its own.
`EncodesMapped` is not among the theorems: it is false, see Findings.

## RelayLink

State. `handles` are the descriptors open, `port` is `hc.port`, `bound` that
`hc.path` is known, `good` the descriptor of the device as it is plugged now;
`missed` and `attempts` are `Run`'s, `boardSilent` the status. `relay`,
`powered`, `pinged`, `inbuf` are the board: up, wedged (takes bytes, runs
nothing) or gone; the HID board behind it answering; pings it may still answer;
answers the kernel holds. `quiet` is history: pings in a row of this connection
the relay did not answer.

`Run` goes step by step where it gives `mu` up: open, store the port, bind the
path, watch, take the port for a ping, send (the port may be another by then),
read, recover (restart of the program, reset of the USB device, give up), close,
pause. `LinkCommand` is any command's write that fails and closes the port under
it; `Shutdown` cancels, takes the port and closes it. What a command says is
left out; finding a relay's port is a choice of outcome.

- `HandlesOwned`: each open descriptor belongs to the controller, to `Run` or to
  `Shutdown`; none is left open, which would keep `Run` from opening the port
  again.
- `RecoverySparesAnswering`: a relay that answers is neither restarted nor
  reset, and its answer that the HID board is silent is an answer.
- `WedgedRestarts` (liveness): a relay that wedges with no recovery counted
  against it is running again, whatever commands and late answers do.

Proved (`LinkProofs`), for any number of descriptors, faults and late
answers, from `LinkConstants` (`NoPort` is no descriptor, the bounds are
numbers): both invariants, and type correctness.
`HandlesIInv` adds `OwnersApart` to `HandlesOwned`: the port `Run` has just
opened is not the controller's, nor the one `Shutdown` took, so closing one
closes no other. `RecoverySparesAnswering` follows from `MissesUnanswered`, which
ties `missed` to `quiet` at each of `Run`'s steps.

## CaptureManager

State. `phase`, `reason`, `cur` are where `Run` and `monitorCapture` are;
`loop[l]` is a `runCapture` goroutine, told to stop or not, with the settings it
read, how many dark pictures it saw in a row, and whether its device is gone;
`token` is the channel `settingsChanged`, `unsaid` a setting stored and not yet
notified, `asking[r]` a request in `ResetUSB`; `capStatus` is the status all of
them write. Abstracted: pictures (`FrameBuffer`), backoff's lengths, how a
device is probed, the ffmpeg reader.

`StartCapture` only launches the loop; `Run` says "connected" in a later step
(`CaptureStarted`, `capture.go:1564`), and the loop may have read pictures, or
ended and cleared the buffer, by then.

- `StatusAgrees`: while a capture is watched the status says what its loop has
  seen, unless somebody has overwritten it since (`mixed`): a loop `Run` no
  longer waits for, or `Run`'s own late "connected" when the loop had ended or
  seen no signal already.
- `SettingsApplied` (liveness): no change of the settings is lost, although two
  of them coalesce into one token and a change may come while the capture
  restarts.
- `ResetAnswered` (liveness): a request to reset the device is answered while
  there is a device, or refused at the end.

Proved (`LinkProofs`), for any number of loops, settings and resets, and any
limit on dark pictures, from `CaptureConstants`: `StatusAgrees` and type
correctness. Two loops at least are assumed: `Run` goes on without a loop that
does not stop, and starts the next one on a goroutine of its own. `CaptureIInv`
adds `LoopsInOrder`: while a capture is watched or waited for its loop is a loop,
otherwise one is free to start, and a loop watched is told to stop only at the
end of everything. Without it `Run` could watch a loop that another capture had
left behind, and take its status for its own.

### Run `Links`

`RelayLink` and `CaptureManager`; 242,580 states. Bounds: two descriptors
(one left open beside the next one), two faults of the relay, one late ping; two
loops, of which one may be left behind; one reset, two settings, one dark
picture for no signal (so one more is beyond the limit). Fairness
(`LinksFairness`) is each component's own: `Run` and the capture goroutines keep
going, a handler that stored a setting notifies, a blocked read returns with a
picture or an error, and a `select` that finds a request ready again and again
takes it some time (strong fairness of `MonitorResets`, since Go's `select`
chooses at random). Users, the relay and the dongle are under none. Deadlock
checking is off: after `Shutdown` everything may have ended.

## SettledHID

`todo[c]` is the rest of caller `c`'s call as a sequence of steps, taken from
`hid_settle.go`: wait, route, move, place, mark, press, hold, release. `mu` is
held inside a step only, `touchMu` over a whole translated touch. Times are ages
in ticks; a glide is a number of points; every backend call may fail. A press or
a release of a touch that fails may have reached the target or not: `touching`
is what the target has, `doubtful` that the last of them failed.

- `OwnGesturesSettle`: the press or click of one caller comes `PressSettle` after
  its own last move, its move `ReleaseSettle` after its own last release,
  although `wait` looks at times any caller may have renewed and then sleeps
  without the lock. That one caller's press may follow another's move at once is
  what the code allows.
- `FingerTracksTouch`: between touches a finger noted down is down, whatever
  failed half-way; one that is down is noted, and never pressed a second time,
  unless the last press or release of a touch failed. Then nobody can tell what
  the target has; see Observations.

Proved (`InputProofs`), for any callers, settle times and numbers of points, from
`SettleConstants`: both, and type correctness. A call is a sequence of steps, so
what is needed first is which sequences may be left of one (`Planned`): each is
the end of a plan the code makes, and a plan that places the pointer or
releases goes on to mark it. `GesturesIInv` then says that a caller's own event is marked
no earlier than it was (`OwnEventsMarked`: what `wait` looks at is at most as
old as the caller's own, since others only renew it) and that a wait that is
over was long enough for what comes next (`OwnWaits`). `FingerIInv` says what is
left of a touch while it has `touchMu` (`LocksHeld`), and that the steps left say
what `fingerDown` and the button are now (`FingerFollows`): with the note still
to be made the finger is pressed and not noted, with a release left it is no
longer noted; a failed press or release leaves it in doubt until the next one.

## BiDiSession

One session in memory, made by one connection and used by any. `thread` holds
the handlers and the idle timers with the session each has looked up and the HID
calls it has left; `session[s].input` is what the session noted as held, `down`
what the backend was last asked to hold. `session.new`, `session.end`,
`performActions`, `releaseActions`, the drop at the end of a connection and the
idle timer are actions of their own, and `bidiSessionMu` covers a step only.

- `InputAccounted`: whenever no action and no release is under way, all that the
  backend holds is noted in the active session, whose end will release it. Set
  aside (`mixed`, `cut`): a session somebody acts with while another thread acts
  with it or releases it, and the Shift of a `keyUp` that failed; see
  Observations.
- `SessionServed`: no session outlives its connection and keeps others from
  making one, although the timer and the handler both drop it.

Proved (`InputProofs`), for any connections, timers, sessions and bound on the keys
noted, from `BiDiConstants`: both, and type correctness. `ServedInv` is typing and
`OwnerServed`: the active session's owner has a handler that has yet to drop it.
`HeldInv` speaks of calls not yet made:

- `Shaped`: what a thread has left is, for one that acts, calls of which a
  failure loses no release but a Shift's, and for one that releases, the
  collecting of all it holds or the releases left of it;
- `Alone`: without a race, who acts does so with the active session and is the
  only one at it; all it has yet to press is noted there; and a finger it is
  about to forget is off the screen;
- `Accounted`: without a race or a Shift cut off, whatever the backend holds is
  noted in the active session, or some thread has yet to let it go.

`InputAccounted` is `Accounted` when no thread has anything left; it is not
inductive, since between the report and the note the two disagree by design. The
lemmas under it say what `performActions` appends to the notes for each kind of
input and that a release collects exactly what is noted. `HeldInv` was checked by
TLC on the instance of `Parts` before it was proved (the first 12 million states
of the endpoint, without its view: not all of them).

## HoldRecorder and RecordingDelivery

`HoldRecorder` is one hold's recordings: inputs that asked who holds the device
and have yet to take the lock, the settle timer, the gate's end, `endAll`, and
per recording its `finish` goroutine through zip, sidecar, read, upload and
removals, with `retry` beside it. Roadie may end (`Exit`) between any two steps
and start again. `RecordingDelivery` is what `record.go:25-32` promises: a
recording goes on, is closed (`Finish`), kept on disk (`Keep`) and delivered. A
failing disk (`DiskFails`) loses one that is being written. The end of roadie
(`RoadieEnds`) loses one that goes on, and one that is closed and not wholly on
the disk; it loses none that is kept. At a shutdown `endAll` closes what goes
on, and nobody waits for it to be written: that is less than `main.go:518-519`
says, see Observations.

`KeepsRecordings` is the refinement: `Fate` maps the recorder's state to
`RecordingDelivery`'s (one kept with a step still open is "torn", which the
abstract specification does not have). A second recording of the same hold
shares the first one's files; what it may do to it is the step `Disturbed`, in
which only a delivery cannot be undone.

Proved (`RecordProofs`), for any set of recordings, from
`RecorderConstants`: `RecordingsAreKept`, that initial states map to initial
states and every step to a step of `RecordingDelivery` or a stutter. It needs
`RecorderIInv`: a recording not begun or still going has nothing on its way to
the disk or the station (`FreshStaysBehind`), its step is closed once it is on
its way (`StepsClosed`), `retry` never takes a recording's steps and nothing is
under way while roadie does not run (`OwnSteps`), and, while only one recording has begun, zip and sidecar are written in that
order and removed only when the station has it (`AloneInOrder`).

## FFmpegEncoder and M2MEncoder

`FFmpegEncoder` is the process, its pipes and its reader goroutine; `stop` gives
`mu` up while it waits for the reader and may kill. ffmpeg itself is external:
one access unit per frame, in order; it may die or hang at any moment.
`SamplesStamped`: every sample carries the timestamp of the frame it shows,
across drops, deaths and relaunches.

Proved (`PictureProofs`), for any number of processes and frames, from
`FFmpegConstants`: `SamplesStamped`, type correctness, and `ProcessOwned`, which no run lists:
whatever runs or reads is the process the encoder knows, and nobody is left to
send on `Samples` once it is closed. `StampIInv` rests on `StampsKnown`: the
stamps that wait are those of the access units in the pipe and then of the
frames the process still works on, as long as it lives; and on `StopsInOrder`,
that a new process starts after the old one's reader has ended.

`M2MEncoder` is the device's buffers, given to the driver by `Encode` and taken
back by `Encode` and by the reader, with `Close` in steps. `BuffersKept`: while
the device is open each buffer is in one place, but those whose QBUF failed
(`leaked`), which the code does not take back; and the reader is through before
device and channel are closed. Proved (`PictureProofs`) for any numbers of
buffers, with `CloseInOrder` as the strengthening, from `M2MConstants` (input
and output buffers are different ones).

## PhoneAudio and GadgetMic

`PhoneAudio`: the gadget's speaker and the dongle's sound, each with a
broadcaster; the mux that follows one of them; and `/audio`'s listeners, which
are told a format once, before they subscribe. A chunk is the format its
samples are in. `DecodesAsTold`: a listener gets chunks in the format it was
told, however the sources switch meanwhile. Three orders in which it does not
are set aside (`reformatted`, `sure`); see Observations.

`GadgetMic`: `/api/mic`'s audio in its jitter buffer, the stream `keepOpen` opens
and reopens, and what the phone takes. Audio is told apart by its age.
`HeardFresh`: once the phone has taken nothing for long enough that the queue is
thrown away, it hears none of before when it records again.

Proved (`RecordProofs`), for any listeners and formats, and any lengths of the
queue, prefill and staleness, from `AudioConstants` and `MicConstants`:
`DecodesAsTold` and `HeardFresh`, and type correctness of both. A listener's
format is right because of what the sources and the mux hold: `AudioIInv` adds
that a source's chunks and its announcement are in one format and that the source
followed is announced as `/audio`'s (`SourcesHold`), and that a listener's channel
holds what it was told, which is what is announced while the channel is open
(`ListenersHold`). `MicIInv` says of the queue at every moment what `HeardFresh`
says of one write: while the stream is open nothing was taken later than the
silence began (`TakenWhen`), and once the phone has been silent for the limit the
queue is as young as the `Wait` that last timed out (`OldGone`). The proof showed
that an exception the property once made, for less than a prefill left over, is
not needed: what is left over is thrown away as well.

## RotateMenu

The walk through AssistiveTouch's menu look by look. The phone is external:
which page is open, which way the phone takes itself to be held, whether the
app in front turns with it, and a picture that may show the page before for
three looks more. Initially roadie starts, or starts again after an end in the
middle of a turn: it takes the phone to be upright, which may be held either
way, with any page open. `TurnKnowsPhone`: a turn that is through knows which way
the phone is held, from late pictures, clicks that did not take, and a phone not
held the way roadie took it to be. A look sees no page, whatever is open, when
the pointer could not be parked or there is no picture (`BlindLook`). Such a look
in the walk, and a click on the turn itself that did not take, are set aside
(`calm`) with the other cases listed under Observations; blind looks while the
menu is being closed are not.

Proved (`InputProofs`), for any number of looks and a picture up to three looks
late (`RotateConstants`; the walk waits for three looks and takes a page that is
still the same for a click that missed): `TurnKnowsPhone` and type
correctness. `RotateIInv` says how what the walk believes goes with what the phone
does:

- `PictureLate` with `ClickTook`: the last click was taken or not, as the page
  open shows; a late picture shows the page of the click and no longer than the
  walk waits for it, so that what the walk acts on is the page that is open;
- `WalkSteady`: until the turn itself is clicked the screen is still, and the
  Rotate page, or a walk that has flipped, means that clicks land;
- `ClickPlanned`, `TurnTaken`, `WayKept`: the click made is the one for the page
  seen; after the last the phone is held the way asked for; on the way out what
  roadie knows stays right. `AppFaces`: an app that does not turn is upright.

## CropTracker and CropStore

`CropTracker` is the crop in use, frame by frame in the loop's three steps, with
orientation and rectangle debounced by two counters that requests and restarts
also reset. `OneFrameTurnsNothing`: without a request, the crop in use is
replaced by another only when two detections in a row agree. Proved
(`PictureProofs`) for any rectangles and requests, from `CropConstants`, with type
correctness. `CropIInv` says what the two counters stand for (`TurnWaits`,
`CropWaits`: what waits to be seen again is the latest detection) and, for the
frame a request came into, that its effect is over one frame later
(`RequestsTakeEffect`): only a turn that two detections agree on moves the saved
crop after that.

`CropStore` is the choice and the crops saved, in memory and in the file:
requests under `cropMu` in steps, a write beside the file and a rename, either
of which may fail, and an end of roadie between any two. `CropKept`: whenever no
request is changing it, the crop in memory is the one a restart would bring
back, unless its write failed, and "saved" is chosen only with a crop saved.
Proved (`PictureProofs`) for any requests, from `StoreConstants`: `StoreIInv`
adds that one request works at a time (`OneAtWork`), and what memory and files
look like at each of its steps (`AtWork`, `WrittenAsHeld`), since `CropKept` says
nothing of the states between.

## Run `Parts`

The ten components from `SettledHID` to `CropStore`; 1,486,629 states. States
are compared by the part at work (`PartsView`): the others never move. For the
BiDi session what the backend holds is left out of the comparison once the
property sets the behaviour aside, since nothing else looks at it; its two
session names are interchangeable.

| Part | Bounds | Enough because |
|---|---|---|
| `SettledHID` | two callers, one watched; settle times of one tick; glides of two points | one renews the times the other waits on |
| `BiDiSession` | two connections, one with a timer; two sessions; an upper-case key, a button, a finger; two inputs held | a session ended by the other connection or the timer, and one made after it; the key brings its Shift |
| `HoldRecorder` | two recordings | one hold's recording and a late second one |
| `FFmpegEncoder` | two processes, four frames, one behind | a relaunch with frames in the old process, and one dropped |
| `M2MEncoder` | two input, two output buffers (four in the code) | one is with the driver while another is filled, and both may be |
| `PhoneAudio` | one listener, one USB and two HDMI formats | a change of source with the same and with another format |
| `GadgetMic` | prefill two, queue three, stale after one tick | less than a prefill, a prefill, and an overflow |
| `RotateMenu` | 13 looks (20 in the code), three of them late | three presses of button 5, each waited for in full |
| `CropTracker` | three rectangles: either shape, and one without | a major change and back; one that says nothing of the shape |
| `CropStore` | two requests, two orientations | one waits while the other works or fails |

Proved (`PartsProofs`): a behaviour of `Parts` is one of each of its components
(`PartsAreApart`), and all thirteen properties of the run hold of it for every
value of the constants (`PartsAreTyped`, `PartsKeepTheirWord`).

Deadlock checking is off: an encoder that was closed, a shutdown or a bound on
frames ends a part. An unshifted key is not among the values: the endpoint
treats it as it does a button.

## Only model-checked

Every invariant and every property of a step that a passing run checks is
proved. Liveness under fairness, and `ENABLED`, are outside the prover and stay
with TLC: `OwedLands`, `PhoneConverges`, `ReplugNoticed`, `ViewerStarts`,
`WedgedRestarts`, `SettingsApplied`, `ResetAnswered`. So do the four violations
under Findings: a counterexample needs no proof. The assumptions of all proofs
are the named `ASSUME`s on the constants, which the runs evaluate, and for two
properties of `Broadcaster` the constant `Spaced`.

## Findings

Each is a run that ends in a violation of what a comment of the code says; the
traces have 10 to 20 steps. Quotes and lines are in `PROJECT.json`.

- `PressNotLeftStanding`: a poll reads the UDC state before the phone
  enumerates and settles after; a release that failed in between is forgotten
  with everything else, and the key stays down.
- `ShutdownLetsGo`: `Shutdown` releases what is held and leaves out what is owed.
- `PictureForViewers`: a viewer that registers while the last one is being
  removed loses the tap, and stays without a picture.
- `EncodesMapped`: a capture that gives up on read errors, or stops just after
  a new picture, unmaps memory an encode is reading.

## Observations

Met while modelling; they happen in the models, and the properties set them
aside by a named history variable or an explicit condition. No run is about
them.

- `rtc/broadcaster.go:390, 428`: the last viewer leaves while `Frame` has given
  `encMu` up to drain an encoder; `Frame` then opens the next one, which stays
  until another viewer leaves.
- `rtc/session.go:104`: a session is registered before its hold is written, so a
  hold that ends in between does not close it.
- `rtc/session.go:279`: a control message handled after `removeSession` leaves a
  cap behind.
- `capture.go:419`: an encode that ends after `Clear` stores its JPEG in the
  cleared buffer.
- `capture.go:1564`: `Run` says "connected" after it has launched the loop. A loop
  that has seen no signal by then is overwritten until it says so again. One that
  has ended and said "disconnected" is overwritten for good: nobody says it again
  before `Run`, after its two seconds' pause, looks for a device.
- `capture.go:1680`: `ResetUSB` without a device waits until there is one.
- `hid.go:112-115, 177-187`: an answer that the HID board is silent starts the
  count of misses anew, not `attempts`; a later wedge goes on from there.
- `hid_settle.go:151, 277-297`: a touch's press that failed and got there all the
  same, or a release that failed and did not, leaves a finger down that is not
  noted. A lift is not sent for it; the next press puts it right, and so may the
  gadget backend's own resending of a release it owes.
- `bidi.go:57-58, 78, 591-593`: `keyUp` forgets an added Shift before it is
  released; when the key's own release fails the Shift's is not sent.
- `bidi.go:114, 242`: actions still being performed when the session is ended by
  another connection or the timer press after the release.
- `audio_mux.go:55-57`: a source that comes back with another format while it is
  the current one does not end its listeners; `audio_mux.go:103-106`: nor do
  listeners that stayed while neither source played; `server.go:841-855`: a
  listener reads the format before it subscribes, and a change in between is
  not told.
- `record.go:111`: an input let through before the hold ended, or a restart
  during it, begins a second recording with the same file names;
  `record.go:281-282`: a zip whose sidecar was not written is never retried.
- `main.go:518-519` says that recordings in progress at exit are closed and
  uploaded, and that one the exit cuts off stays on disk for the next start.
  `endAll` (`record.go:243-254`) starts `finish` on a goroutine that nobody waits
  for: an exit before zip and sidecar are written loses the recording
  (`RoadieEnds` of `RecordingDelivery`, from "closing").
- `gadget_audio.go:340-342`: reopening the stream starts the count of silence
  anew, so that what was queued long before is heard.
- `rotate.go:186-201`: the walk cannot tell a menu that closed itself, one left
  on its Rotate page from before, or a failed click that was delivered all the
  same from a click that missed. Nor can it tell a look that saw nothing
  (`rotate.go:322-324`, `340`): with a page expected it takes that for a miss and
  reads the pointer the other way, and may end so.
- `rotate.go:205-208, 280`: whether the click on the turn itself took is not
  looked at; the turn is noted as made.
- `capture.go`: the loop reads the choice of crop twice in one frame, for the
  saved crop and for the automatic one, and a request fits in between; the next
  frame puts it right (`CropTracker`'s `AutoCrop`).

## Not modelled

Listed under The modules as left for later: TLS reload (one function under one
lock), the target bitrate's arithmetic, the encoding of reports. For good: pixel
scans, colour conversion, codecs and resampling (arithmetic over data no
property here distinguishes), the wait for two equal screenshots (stateless),
parsing and routing of HTTP, the browser pages, authentication (stateless), the
grid (a stateless proxy), mDNS, the puller of pictures over HTTP, the station
tunnel's library, the installer and the measurement tools. Data races on plain
fields, such as the timestamps two encoder pumps share while one drains, have no
property.
