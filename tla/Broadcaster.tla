----------------------------- MODULE Broadcaster -----------------------------
(***************************************************************************)
(* rtc.Broadcaster and its Sessions (rtc/broadcaster.go, session.go,       *)
(* audio.go): one encoder and one speaker loop, started by the first       *)
(* viewer's session and stopped by the last one's, while sessions come and *)
(* go on goroutines of their own and the capture loop hands over frames.   *)
(*                                                                         *)
(* mu and encMu are each held for one step here, except where the code     *)
(* gives encMu up: closeEncoderLocked waits for the old encoder without it.*)
(* addSession and removeSession decide under mu and act under encMu, so    *)
(* each is a sequence of steps.  A picture is its size, an encoder the     *)
(* size it was opened for; a bitrate cap is whether one is in force.       *)
(*                                                                         *)
(* A definition named Bug... is the one that follows it with a plausible   *)
(* mistake in it; no specification uses one.                               *)
(***************************************************************************)
EXTENDS Naturals

CONSTANTS Sessions,  \* viewers' sessions, reused once nothing refers to them
          Sizes,     \* the sizes a captured picture can have
          Holds,     \* the holds a viewer may be admitted on
          NoHold,    \* a viewer from the LAN
          None,      \* no encoder, no owner of the microphone
          Talking,   \* viewers send control messages and their microphones
          Spaced     \* nobody registers while the last viewer's removal runs

ASSUME ConstantsAssumption ==
    /\ NoHold \notin Holds
    /\ None \notin Sizes \cup Sessions
    /\ "idle" \notin Sizes
    /\ Talking \in BOOLEAN /\ Spaced \in BOOLEAN

VARIABLES
    \* Broadcaster, under mu
    sessions, caps, micOwner, speaking,
    \* Broadcaster, under encMu
    sinking, enc, wantKey, keyRecent,
    \* the capture loop in Frame: "idle", or the size whose encoder it opens
    \* once the old one has closed
    frame,
    \* per session: the goroutine that admits and serves it, the one that
    \* closes it, its hold field, and what its viewer was admitted on
    serve, leave, hold, admitted,
    \* per session: a control message received and not yet handled, its
    \* microphone's reader, and what the viewer has of the picture
    control, mic, watch,
    \* sessions EndHold or Close has yet to close; holds that are over; the
    \* broadcaster was closed
    ending, over, shut

srvState == <<sessions, caps, micOwner, speaking>>
encState == <<sinking, enc, wantKey, keyRecent, frame>>
sesState == <<serve, leave, hold, admitted, control, mic, watch>>
endState == <<ending, over, shut>>
vars == <<srvState, encState, sesState, endState>>

TypeOK ==
    /\ sessions \subseteq Sessions /\ caps \subseteq Sessions
    /\ micOwner \in Sessions \cup {None} /\ speaking \in BOOLEAN
    /\ sinking \in BOOLEAN /\ enc \in Sizes \cup {None}
    /\ wantKey \in BOOLEAN /\ keyRecent \in BOOLEAN
    /\ frame \in Sizes \cup {"idle"}
    /\ serve \in [Sessions -> {"none", "offer", "tap", "speaker", "name", "in", "refused"}]
    /\ leave \in [Sessions -> {"open", "remove", "encoder", "drain", "speaker", "closed"}]
    /\ hold \in [Sessions -> Holds \cup {NoHold}]
    /\ admitted \in [Sessions -> Holds \cup {NoHold}]
    /\ control \in [Sessions -> BOOLEAN]
    /\ mic \in [Sessions -> {"none", "sending", "dropped", "ended"}]
    /\ watch \in [Sessions -> {"connecting", "waiting", "playing"}]
    /\ ending \subseteq Sessions /\ over \subseteq Holds /\ shut \in BOOLEAN

Init ==
    /\ sessions = {} /\ caps = {} /\ micOwner = None /\ speaking = FALSE
    /\ sinking = FALSE /\ enc = None /\ wantKey = FALSE /\ keyRecent = FALSE
    /\ frame = "idle"
    /\ serve = [s \in Sessions |-> "none"] /\ leave = [s \in Sessions |-> "open"]
    /\ hold = [s \in Sessions |-> NoHold] /\ admitted = [s \in Sessions |-> NoHold]
    /\ control = [s \in Sessions |-> FALSE]
    /\ mic = [s \in Sessions |-> "none"]
    /\ watch = [s \in Sessions |-> "connecting"]
    /\ ending = {} /\ over = {} /\ shut = FALSE

\* The steps of an addSession or a removeSession still to come.
Starting(s) == serve[s] \in {"tap", "speaker"}
Stopping(s) == leave[s] \in {"encoder", "drain", "speaker"}

-----------------------------------------------------------------------------
(* Arriving: ServeSignal, newSession and addSession.                       *)

\* A hello; the grant's hold must be in force (the rig library's check).
Hello(s) ==
    /\ serve[s] = "none" /\ serve' = [serve EXCEPT ![s] = "offer"]
    /\ \E h \in (Holds \ over) \cup {NoHold} :
           admitted' = [admitted EXCEPT ![s] = h]
    /\ UNCHANGED <<srvState, encState, leave, hold, control, mic, watch, endState>>

\* The offer could not be made or sent: the peer connection closes, which may
\* reach the state handler and Close a session that never registered.
OfferFails(s) ==
    /\ serve[s] = "offer" /\ serve' = [serve EXCEPT ![s] = "refused"]
    /\ \E l \in {"remove", "closed"} : leave' = [leave EXCEPT ![s] = l]
    /\ UNCHANGED <<srvState, encState, hold, admitted, control, mic, watch, endState>>

\* addSession, under mu: the first to register starts the picture and sound.
BugRegisterNeverFirst(s) ==
    /\ serve[s] = "offer"
    /\ Spaced => \A t \in Sessions : ~Stopping(t)
    /\ sessions' = sessions \cup {s}
    /\ serve' = [serve EXCEPT ![s] = IF sessions' = {} THEN "tap" ELSE "name"]
    /\ UNCHANGED <<caps, micOwner, speaking, encState, leave, hold, admitted,
                   control, mic, watch, endState>>

Register(s) ==
    /\ serve[s] = "offer"
    /\ Spaced => \A t \in Sessions : ~Stopping(t)
    /\ sessions' = sessions \cup {s}
    /\ serve' = [serve EXCEPT ![s] = IF sessions = {} THEN "tap" ELSE "name"]
    /\ UNCHANGED <<caps, micOwner, speaking, encState, leave, hold, admitted,
                   control, mic, watch, endState>>

Tap(s) ==
    /\ serve[s] = "tap" /\ serve' = [serve EXCEPT ![s] = "speaker"]
    /\ sinking' = TRUE
    /\ UNCHANGED <<srvState, enc, wantKey, keyRecent, frame, leave, hold,
                   admitted, control, mic, watch, endState>>

StartSpeaker(s) ==
    /\ serve[s] = "speaker" /\ serve' = [serve EXCEPT ![s] = "name"]
    /\ speaking' = TRUE
    /\ UNCHANGED <<sessions, caps, micOwner, encState, leave, hold, admitted,
                   control, mic, watch, endState>>

\* newSession has returned: s.hold is set and messages are read.
Name(s) ==
    /\ serve[s] = "name" /\ serve' = [serve EXCEPT ![s] = "in"]
    /\ hold' = [hold EXCEPT ![s] = admitted[s]]
    /\ UNCHANGED <<srvState, encState, leave, admitted, control, mic, watch, endState>>

-----------------------------------------------------------------------------
(* Leaving: Session.Close and removeSession.                               *)

\* Close, once, whoever calls it.
BeginClose(s) == leave[s] = "open" /\ leave' = [leave EXCEPT ![s] = "remove"]

\* The viewer says bye, its WebSocket or peer connection fails, or a
\* refreshed grant is refused.
Leave(s) ==
    /\ serve[s] = "in" /\ BeginClose(s)
    /\ UNCHANGED <<srvState, encState, serve, hold, admitted, control, mic,
                   watch, endState>>

\* removeSession, under mu.
BugRemoveKeepsSession(s) ==
    /\ leave[s] = "remove"
    /\ sessions' = sessions \ {s} /\ caps' = caps \ {s}
    /\ leave' = [leave EXCEPT ![s] = IF sessions = {s} THEN "speaker" ELSE "closed"]
    /\ UNCHANGED <<micOwner, speaking, encState, serve, hold, admitted, control,
                   mic, watch, endState>>

BugRemoveAnyStops(s) ==
    /\ leave[s] = "remove"
    /\ sessions' = sessions \ {s} /\ caps' = caps \ {s}
    /\ leave' = [leave EXCEPT ![s] = "encoder"]
    /\ UNCHANGED <<micOwner, speaking, encState, serve, hold, admitted, control,
                   mic, watch, endState>>

Remove(s) ==
    /\ leave[s] = "remove"
    /\ sessions' = sessions \ {s} /\ caps' = caps \ {s}
    /\ leave' = [leave EXCEPT ![s] = IF sessions' = {} THEN "encoder" ELSE "closed"]
    /\ UNCHANGED <<micOwner, speaking, encState, serve, hold, admitted, control,
                   mic, watch, endState>>

\* removeSession, under encMu, as far as closeEncoderLocked gives it up.
StopEncoder(s) ==
    /\ leave[s] = "encoder"
    /\ sinking' = FALSE /\ enc' = None
    /\ leave' = [leave EXCEPT ![s] = IF enc = None THEN "speaker" ELSE "drain"]
    /\ UNCHANGED <<srvState, wantKey, keyRecent, frame, serve, hold, admitted,
                   control, mic, watch, endState>>

\* The old encoder has closed and its pump has ended.
Drained(s) ==
    /\ leave[s] = "drain" /\ leave' = [leave EXCEPT ![s] = "speaker"]
    /\ UNCHANGED <<srvState, encState, serve, hold, admitted, control, mic,
                   watch, endState>>

StopSpeaker(s) ==
    /\ leave[s] = "speaker" /\ leave' = [leave EXCEPT ![s] = "closed"]
    /\ speaking' = FALSE
    /\ UNCHANGED <<sessions, caps, micOwner, encState, serve, hold, admitted,
                   control, mic, watch, endState>>

\* Nothing refers to the session any more: its name stands for a new viewer.
Forgotten(s) ==
    /\ leave[s] = "closed" /\ serve[s] \in {"in", "refused"} /\ ~control[s]
    /\ mic[s] \in {"none", "ended"} /\ s \notin caps \cup ending
    /\ serve' = [serve EXCEPT ![s] = "none"] /\ leave' = [leave EXCEPT ![s] = "open"]
    /\ hold' = [hold EXCEPT ![s] = NoHold]
    /\ admitted' = [admitted EXCEPT ![s] = NoHold]
    /\ mic' = [mic EXCEPT ![s] = "none"]
    /\ watch' = [watch EXCEPT ![s] = "connecting"]
    /\ UNCHANGED <<srvState, encState, control, endState>>

-----------------------------------------------------------------------------
(* EndHold and Close: the sessions are listed under mu, then closed.       *)

EndHold(h) ==
    /\ h \in Holds \ over /\ over' = over \cup {h}
    /\ ending' = ending \cup {s \in sessions : hold[s] = h}
    /\ UNCHANGED <<srvState, encState, sesState, shut>>

CloseAll ==
    /\ ~shut /\ shut' = TRUE /\ ending' = ending \cup sessions
    /\ UNCHANGED <<srvState, encState, sesState, over>>

CloseNext(s) ==
    /\ s \in ending /\ ending' = ending \ {s}
    /\ BeginClose(s) \/ (leave[s] # "open" /\ UNCHANGED leave)
    /\ UNCHANGED <<srvState, encState, serve, hold, admitted, control, mic,
                   watch, over, shut>>

-----------------------------------------------------------------------------
(* The capture loop: Frame.                                                *)

\* Every viewer connected so far has a keyframe to start on.
KeyframeSent == watch' = [s \in Sessions |->
                    IF watch[s] = "waiting" THEN "playing" ELSE watch[s]]

\* Opening an encoder, which may fail and is tried again with the next frame;
\* its first picture is a keyframe.
OpenEncoder(size) ==
    \/ enc' = size /\ wantKey' = FALSE /\ KeyframeSent
    \/ enc' = None /\ UNCHANGED <<wantKey, watch>>

\* A frame of the size the encoder has, or the first since it closed.
BugFrameDropsKey(size) ==
    /\ frame = "idle" /\ sinking /\ enc \in {None, size}
    /\ IF enc = None THEN OpenEncoder(size)
       ELSE wantKey' = FALSE /\ UNCHANGED <<enc, watch>>
    /\ UNCHANGED <<srvState, sinking, keyRecent, frame, serve, leave, hold,
                   admitted, control, mic, endState>>

Frame(size) ==
    /\ frame = "idle" /\ sinking /\ enc \in {None, size}
    /\ IF enc = None THEN OpenEncoder(size)
       ELSE /\ wantKey' = FALSE /\ UNCHANGED enc
            /\ IF wantKey THEN KeyframeSent ELSE UNCHANGED watch
    /\ UNCHANGED <<srvState, sinking, keyRecent, frame, serve, leave, hold,
                   admitted, control, mic, endState>>

\* The picture changed size: the encoder closes, with encMu given up, ...
BugFrameReopensOld(size) ==
    /\ frame = "idle" /\ sinking /\ enc # size
    /\ enc' = None /\ frame' = enc
    /\ UNCHANGED <<srvState, sinking, wantKey, keyRecent, sesState, endState>>

FrameResized(size) ==
    /\ frame = "idle" /\ sinking /\ enc \notin {None, size}
    /\ enc' = None /\ frame' = size
    /\ UNCHANGED <<srvState, sinking, wantKey, keyRecent, sesState, endState>>

\* ... and the same call goes on to open the next.
FrameReopens ==
    /\ frame # "idle" /\ OpenEncoder(frame) /\ frame' = "idle"
    /\ UNCHANGED <<srvState, sinking, keyRecent, serve, leave, hold, admitted,
                   control, mic, endState>>

-----------------------------------------------------------------------------
(* A connected viewer: keyframes, control messages, the microphone.        *)

\* requestKeyframe: at most one in 300 ms.
RequestKeyframe ==
    IF keyRecent THEN UNCHANGED <<wantKey, keyRecent>>
                 ELSE wantKey' = TRUE /\ keyRecent' = TRUE

KeyTick ==
    /\ keyRecent /\ keyRecent' = FALSE
    /\ UNCHANGED <<srvState, sinking, enc, wantKey, frame, sesState, endState>>

\* The peer connection's handler for Connected; the viewer starts waiting.
Connected(s) ==
    /\ serve[s] = "in" /\ leave[s] = "open" /\ watch[s] = "connecting"
    /\ watch' = [watch EXCEPT ![s] = "waiting"] /\ RequestKeyframe
    /\ UNCHANGED <<srvState, sinking, enc, frame, serve, leave, hold, admitted,
                   control, mic, endState>>

\* A viewer with no picture asks again (readRTCP).
PictureLoss(s) ==
    /\ leave[s] = "open" /\ watch[s] = "waiting" /\ RequestKeyframe
    /\ UNCHANGED <<srvState, sinking, enc, frame, sesState, endState>>

\* A "bitrate" message arrives; onControl handles it on a goroutine that
\* closing the peer connection does not wait for.
ControlArrives(s) ==
    /\ Talking /\ watch[s] # "connecting" /\ leave[s] = "open" /\ ~control[s]
    /\ control' = [control EXCEPT ![s] = TRUE]
    /\ UNCHANGED <<srvState, encState, serve, leave, hold, admitted, mic, watch,
                   endState>>

OnControl(s) ==
    /\ control[s] /\ control' = [control EXCEPT ![s] = FALSE]
    /\ \/ caps' = caps \cup {s} /\ UNCHANGED <<wantKey, keyRecent>>
       \/ RequestKeyframe /\ UNCHANGED caps
    /\ UNCHANGED <<sessions, micOwner, speaking, sinking, enc, frame, serve,
                   leave, hold, admitted, mic, watch, endState>>

\* micReader.run begins: claimMic.
MicStart(s) ==
    /\ Talking /\ watch[s] # "connecting" /\ mic[s] = "none"
    /\ IF micOwner \in {None, s}
       THEN mic' = [mic EXCEPT ![s] = "sending"] /\ micOwner' = s
       ELSE mic' = [mic EXCEPT ![s] = "dropped"] /\ UNCHANGED micOwner
    /\ UNCHANGED <<sessions, caps, speaking, encState, serve, leave, hold,
                   admitted, control, watch, endState>>

\* The track ends with the peer connection: releaseMic.
BugMicEnd(s) ==
    /\ mic[s] \in {"sending", "dropped"} /\ leave[s] # "open"
    /\ mic' = [mic EXCEPT ![s] = "ended"]
    /\ micOwner' = None
    /\ UNCHANGED <<sessions, caps, speaking, encState, serve, leave, hold,
                   admitted, control, watch, endState>>

MicEnd(s) ==
    /\ mic[s] \in {"sending", "dropped"} /\ leave[s] # "open"
    /\ mic' = [mic EXCEPT ![s] = "ended"]
    /\ micOwner' = IF micOwner = s THEN None ELSE micOwner
    /\ UNCHANGED <<sessions, caps, speaking, encState, serve, leave, hold,
                   admitted, control, watch, endState>>

-----------------------------------------------------------------------------
Serving(s) ==
    \/ Hello(s) \/ OfferFails(s) \/ Register(s) \/ Tap(s) \/ StartSpeaker(s)
    \/ Name(s) \/ Connected(s) \/ PictureLoss(s) \/ ControlArrives(s)
    \/ OnControl(s) \/ MicStart(s) \/ MicEnd(s)

Closing(s) ==
    \/ Leave(s) \/ Remove(s) \/ StopEncoder(s) \/ Drained(s) \/ StopSpeaker(s)
    \/ Forgotten(s) \/ CloseNext(s)

Next ==
    \/ \E s \in Sessions : Serving(s) \/ Closing(s)
    \/ \E size \in Sizes : Frame(size) \/ FrameResized(size)
    \/ FrameReopens \/ KeyTick \/ CloseAll
    \/ \E h \in Holds : EndHold(h)

Spec == Init /\ [][Next]_vars

\* Goroutines that have begun go on, the capture delivers frames and an
\* encoder can be opened sooner or later, and a viewer with no picture asks.
Fairness ==
    /\ WF_vars(\E size \in Sizes : Frame(size) \/ FrameResized(size))
    /\ WF_vars(FrameReopens) /\ WF_vars(KeyTick)
    /\ \A s \in Sessions :
        /\ WF_vars(Tap(s) \/ StartSpeaker(s) \/ Name(s))
        /\ WF_vars(Remove(s) \/ StopEncoder(s) \/ Drained(s) \/ StopSpeaker(s))
        /\ WF_vars(PictureLoss(s))
        /\ WF_vars(CloseNext(s))

LiveSpec == Spec /\ Fairness

-----------------------------------------------------------------------------
(* Properties.                                                             *)

\* No addSession, removeSession or Frame is half-way.
Settled ==
    frame = "idle" /\ \A s \in Sessions : ~Starting(s) /\ ~Stopping(s)

\* However arrivals and departures overlap, the tap on the capture loop and
\* the speaker loop do not outlive the last viewer (removeSession: "stops
\* encoding after the last one").
TapEnds == Settled /\ ~shut /\ sessions = {} => ~sinking /\ ~speaking

\* "Only one viewer's mic is passed on at a time": whenever tracks start and
\* sessions close, the one session whose sound reaches the phone is the owner,
\* and nobody is the owner once its track is over.
MicExclusive == \A s \in Sessions : mic[s] = "sending" <=> micOwner = s

\* When nobody arrives in the middle of the last departure, the picture and
\* the sound run exactly while someone is there, with any number of others
\* arriving at once, leaving, or failing to arrive.
FollowsViewers ==
    Settled /\ ~shut =>
        /\ sinking <=> sessions # {}
        /\ speaking <=> sessions # {}

\* Nor is the picture taken away from those who stay.
TapKept == [][sinking /\ ~sinking' => sessions = {} \/ shut]_vars

\* A connected viewer gets a keyframe to start on, however many ask and
\* whatever is dropped by the limit on keyframes, unless it leaves first.
ViewerStarts ==
    \A s \in Sessions :
        (watch[s] = "waiting" /\ ~shut) ~> (watch[s] # "waiting" \/ leave[s] # "open" \/ shut)

\* Package comment: "the first session taps the capture loop's raw frames".
PictureForViewers == Settled /\ sessions # {} => sinking
=============================================================================
