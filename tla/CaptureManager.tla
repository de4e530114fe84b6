--------------------------- MODULE CaptureManager ---------------------------
(* Keeping a capture running (capture.go, nosignal.go,                       *)
(* capture_reset_linux.go): Run finds the device, starts a loop that reads   *)
(* pictures, and starts over when the device goes, a setting changes or a    *)
(* request resets it over USB. It waits five seconds for the old loop and    *)
(* then goes on without it. What becomes of a picture is FrameBuffer's.      *)
EXTENDS Naturals

CONSTANTS Loops,       \* capture goroutines; two, so that one may outlive its capture
          Resets,      \* requests to reset the device
          Settings,    \* what Width, Height and FPS may say
          MaxStill,    \* maxConsecutiveBlack
          NoLoop

ASSUME CaptureConstants ==
    /\ MaxStill \in Nat \ {0}
    /\ Settings # {} /\ NoLoop \notin Loops
    /\ \E l, m \in Loops : l # m

VARIABLES
    dongle,     \* the device is plugged in and bound
    capStatus,   \* FrameBuffer.status
    wanted,      \* the settings: FrameBuffer's width, height, fps
    unsaid,      \* settings changed and not yet notified
    token,       \* settingsChanged, a channel of one
    asking,      \* per reset request: "no", "waiting", "done"
    stopped,     \* cm.ctx
    phase,       \* Run: "detect", "open", "opened", "watch", "drain", "pause", "end"
    reason,      \* why monitorCapture returned
    cur,         \* the loop of this capture
    loop,        \* per loop: on, told to stop, settings, device lost, still
    mixed        \* history: the status of the capture watched is not what its loop said
                 \* last, for Run, or a loop given up on, has written it since

bufVars == <<capStatus, mixed>>
askVars == <<wanted, unsaid, token, asking, stopped>>
runVarsC == <<phase, reason, cur>>
captureVars == <<dongle, bufVars, askVars, runVarsC, loop>>

AnySetting == CHOOSE s \in Settings : TRUE
OffLoop == [on |-> FALSE, told |-> FALSE, set |-> AnySetting, lost |-> FALSE, still |-> 0,
            at |-> "top"]

CaptureInit ==
    /\ dongle \in BOOLEAN /\ capStatus = "connecting" /\ mixed = FALSE
    /\ wanted = AnySetting /\ unsaid = FALSE /\ token = FALSE
    /\ asking = [r \in Resets |-> "no"] /\ stopped = FALSE
    /\ phase = "detect" /\ reason = "none" /\ cur = NoLoop
    /\ loop = [l \in Loops |-> OffLoop]

-----------------------------------------------------------------------------
(* Run                                                                       *)

\* The device is found, also when the context has ended meanwhile; one that
\* is not is looked for again until then.
DetectDevice ==
    /\ phase = "detect"
    /\ \/ dongle /\ phase' = "open" /\ capStatus' = "connected"
       \/ ~dongle /\ stopped /\ phase' = "end" /\ capStatus' = "connecting"
       \/ ~dongle /\ ~stopped /\ phase' = "detect" /\ capStatus' = "connecting"
    /\ UNCHANGED <<dongle, mixed, askVars, reason, cur, loop>>

\* StartCapture reads the settings and starts a loop, which runs from then on.
\* It fails while the device is away, or another loop still streams from it.
StartCapture ==
    /\ phase = "open"
    /\ LET busy == \E l \in Loops : loop[l].on /\ ~loop[l].lost
           l == CHOOSE l \in Loops : ~loop[l].on
       IN  IF dongle /\ ~busy
           THEN /\ loop' = [loop EXCEPT ![l] = [OffLoop EXCEPT !.on = TRUE, !.set = wanted,
                                                              !.told = stopped]]
                /\ cur' = l /\ phase' = "opened"
           ELSE /\ phase' = IF stopped THEN "end" ELSE "detect"
                /\ UNCHANGED <<loop, cur>>
    /\ UNCHANGED <<dongle, bufVars, askVars, reason>>

\* Back from StartCapture, Run says connected, whatever the loop has come to
\* see and say by then.
CaptureStarted ==
    /\ phase = "opened" /\ phase' = "watch"
    /\ capStatus' = "connected"
    /\ mixed' = (~loop[cur].on \/ loop[cur].still >= MaxStill)
    /\ UNCHANGED <<dongle, askVars, reason, cur, loop>>

Leave(why) ==
    /\ phase' = "drain" /\ reason' = why
    /\ mixed' = FALSE
    /\ UNCHANGED <<cur, capStatus>>

\* captureCancel, after monitorCapture has returned. What the loop was set to
\* is of no more interest.
Told == [loop EXCEPT ![cur].told = @ \/ loop[cur].on, ![cur].set = AnySetting]

MonitorEnds ==
    /\ phase = "watch"
    /\ \/ stopped /\ Leave("shutdown") /\ UNCHANGED token
       \/ ~loop[cur].on /\ Leave("disconnect") /\ UNCHANGED token
       \/ token /\ Leave("settings") /\ token' = FALSE
    /\ loop' = Told
    /\ UNCHANGED <<dongle, wanted, unsaid, asking, stopped>>

\* resetCaptureUSB unbinds the device and binds it again; the second write
\* may fail, or the first, or the device not be found in sysfs.
MonitorResets ==
    /\ phase = "watch"
    /\ \E r \in Resets :
          asking[r] = "waiting" /\ asking' = [asking EXCEPT ![r] = "done"]
    /\ Leave("reset")
    /\ \/ loop' = Told /\ UNCHANGED dongle
       \/ \E rebound \in BOOLEAN :
             /\ loop' = [l \in Loops |-> [Told[l] EXCEPT !.lost = @ \/ loop[l].on]]
             /\ dongle' = (dongle /\ rebound)
    /\ UNCHANGED <<wanted, unsaid, token, stopped>>

\* The loop has ended, or five seconds are over; a second loop left behind
\* would be beyond Loops.
Drained ==
    /\ phase = "drain"
    /\ \/ ~loop[cur].on
       \/ \A l \in Loops \ {cur} : ~loop[l].on
    /\ cur' = NoLoop /\ reason' = "none"
    /\ phase' = CASE reason = "shutdown" -> "end"
                  [] reason = "disconnect" -> "pause"
                  [] OTHER -> "detect"
    /\ capStatus' = IF reason = "reset" THEN "disconnected"
                    ELSE IF reason = "settings" THEN "connecting" ELSE capStatus
    /\ UNCHANGED <<dongle, mixed, askVars, loop>>

Pause ==
    /\ phase = "pause"
    /\ phase' = IF stopped THEN "end" ELSE "detect"
    /\ UNCHANGED <<dongle, bufVars, askVars, reason, cur, loop>>

CaptureRun ==
    \/ DetectDevice \/ StartCapture \/ CaptureStarted \/ MonitorEnds \/ MonitorResets
    \/ Drained \/ Pause

-----------------------------------------------------------------------------
(* The loop                                                                  *)

\* The status is the buffer's, whichever loop writes it.
WriteStatus(l, status) ==
    /\ capStatus' = status
    /\ mixed' = (phase = "watch" /\ l # cur)

LoopTop(l) ==
    /\ loop[l].on /\ loop[l].at = "top"
    /\ loop' = [loop EXCEPT ![l] = IF @.told THEN OffLoop ELSE [@ EXCEPT !.at = "read"]]
    /\ UNCHANGED <<dongle, bufVars, askVars, runVarsC>>

\* A read fails when its device is gone, and may fail while it is there. Any
\* failure may be the last of maxConsecutiveErrors, which clears the buffer
\* and ends the loop.
ReadFails(l) ==
    /\ loop[l].on /\ loop[l].at = "read"
    /\ \/ loop' = [loop EXCEPT ![l].at = "top"] /\ UNCHANGED bufVars
       \/ loop' = [loop EXCEPT ![l] = OffLoop] /\ WriteStatus(l, "disconnected")
    /\ UNCHANGED <<dongle, askVars, runVarsC>>

\* Mutant: the signal that comes back later than at once is not told.
BugSignalBackUnsaid(l, still) ==
    /\ loop[l].on /\ loop[l].at = "read" /\ dongle /\ ~loop[l].lost
    /\ LET n == IF ~still THEN 0
                ELSE IF loop[l].still > MaxStill THEN loop[l].still ELSE loop[l].still + 1
       IN  /\ loop' = [loop EXCEPT ![l].still = n, ![l].at = "top"]
           /\ \/ still /\ n = MaxStill /\ WriteStatus(l, "no_signal")
              \/ ~still /\ loop[l].still = MaxStill /\ WriteStatus(l, "connected")
              \/ still /\ n # MaxStill /\ UNCHANGED bufVars
              \/ ~still /\ loop[l].still # MaxStill /\ UNCHANGED bufVars
    /\ UNCHANGED <<dongle, askVars, runVarsC>>

\* A picture, dark and the same as the last one (which the dongle's own No
\* Signal screen is made to be) or not.
ReadPicture(l, still) ==
    /\ loop[l].on /\ loop[l].at = "read" /\ dongle /\ ~loop[l].lost
    /\ LET n == IF ~still THEN 0
                ELSE IF loop[l].still > MaxStill THEN loop[l].still ELSE loop[l].still + 1
       IN  /\ loop' = [loop EXCEPT ![l].still = n, ![l].at = "top"]
           /\ \/ still /\ n = MaxStill /\ WriteStatus(l, "no_signal")
              \/ ~still /\ loop[l].still >= MaxStill /\ WriteStatus(l, "connected")
              \/ still /\ n # MaxStill /\ UNCHANGED bufVars
              \/ ~still /\ loop[l].still < MaxStill /\ UNCHANGED bufVars
    /\ UNCHANGED <<dongle, askVars, runVarsC>>

CaptureLoop(l) == LoopTop(l) \/ ReadFails(l) \/ \E still \in BOOLEAN : ReadPicture(l, still)

-----------------------------------------------------------------------------
(* Requests, and the world                                                   *)

\* Mutant: a setting is stored and nobody notified.
BugSetTellsNobody ==
    /\ wanted' \in Settings \ {wanted}
    /\ UNCHANGED <<dongle, bufVars, unsaid, token, asking, stopped, runVarsC, loop>>

\* A settings request stores what changed and then notifies, which does
\* nothing while a notification is waiting.
SetSettings ==
    /\ wanted' \in Settings \ {wanted} /\ unsaid' = TRUE
    /\ UNCHANGED <<dongle, bufVars, token, asking, stopped, runVarsC, loop>>

NotifySettingsChanged ==
    /\ unsaid
    /\ token' = TRUE /\ unsaid' = FALSE
    /\ UNCHANGED <<dongle, bufVars, wanted, asking, stopped, runVarsC, loop>>

AskReset(r) ==
    /\ asking[r] = "no"
    /\ asking' = [asking EXCEPT ![r] = "waiting"]
    /\ UNCHANGED <<dongle, bufVars, wanted, unsaid, token, stopped, runVarsC, loop>>

\* Mutant: a request is refused only while a capture runs.
BugNobodyRefuses(r) ==
    /\ asking[r] = "waiting" /\ stopped /\ phase = "watch"
    /\ asking' = [asking EXCEPT ![r] = "done"]
    /\ UNCHANGED <<dongle, bufVars, wanted, unsaid, token, stopped, runVarsC, loop>>

RefuseReset(r) ==
    /\ asking[r] = "waiting" /\ stopped
    /\ asking' = [asking EXCEPT ![r] = "done"]
    /\ UNCHANGED <<dongle, bufVars, wanted, unsaid, token, stopped, runVarsC, loop>>

CaptureShutdown ==
    /\ ~stopped
    /\ stopped' = TRUE
    /\ loop' = [l \in Loops |-> [loop[l] EXCEPT !.told = @ \/ loop[l].on]]
    /\ UNCHANGED <<dongle, bufVars, wanted, unsaid, token, asking, runVarsC>>

DongleUnplugged ==
    /\ dongle
    /\ dongle' = FALSE
    /\ loop' = [l \in Loops |-> [loop[l] EXCEPT !.lost = @ \/ loop[l].on]]
    /\ UNCHANGED <<bufVars, askVars, runVarsC>>

DonglePlugged ==
    /\ ~dongle
    /\ dongle' = TRUE
    /\ UNCHANGED <<bufVars, askVars, runVarsC, loop>>

CaptureNext ==
    \/ CaptureRun \/ \E l \in Loops : CaptureLoop(l)
    \/ SetSettings \/ NotifySettingsChanged
    \/ \E r \in Resets : AskReset(r) \/ RefuseReset(r)
    \/ CaptureShutdown \/ DongleUnplugged \/ DonglePlugged

\* A blocked read returns in the end, with a picture or an error. A select
\* chooses at random among what is ready, so a request that is waiting every
\* time the monitor looks is taken some time.
CaptureFairness ==
    /\ WF_captureVars(CaptureRun) /\ WF_captureVars(NotifySettingsChanged)
    /\ SF_captureVars(MonitorResets)
    /\ \A l \in Loops : WF_captureVars(CaptureLoop(l))
    /\ \A r \in Resets : WF_captureVars(RefuseReset(r))

CaptureSpec == CaptureInit /\ [][CaptureNext]_captureVars
CaptureLive == CaptureSpec /\ CaptureFairness

-----------------------------------------------------------------------------
CaptureTypeOK ==
    /\ dongle \in BOOLEAN /\ mixed \in BOOLEAN /\ stopped \in BOOLEAN
    /\ capStatus \in {"connecting", "connected", "no_signal", "disconnected"}
    /\ wanted \in Settings /\ unsaid \in BOOLEAN /\ token \in BOOLEAN
    /\ asking \in [Resets -> {"no", "waiting", "done"}]
    /\ phase \in {"detect", "open", "opened", "watch", "drain", "pause", "end"}
    /\ reason \in {"none", "shutdown", "disconnect", "settings", "reset"}
    /\ cur \in Loops \cup {NoLoop}
    /\ loop \in [Loops -> [on : BOOLEAN, told : BOOLEAN, set : Settings, lost : BOOLEAN,
                           still : 0..MaxStill + 1, at : {"top", "read"}]]

\* While a capture is watched, the status says what its loop has seen: no
\* signal after MaxStill dark pictures in a row and until one that is not,
\* connected otherwise, disconnected once it has given the device up. Only one
\* who has written the status since may have made it another: a loop Run no
\* longer waits for, or Run, whose "connected" comes after the loop was started
\* and may cover what it said first (capture.go:1548-1564) - and then only
\* until the loop speaks again.
StatusAgrees ==
    phase = "watch" /\ ~mixed =>
        IF loop[cur].on
        THEN capStatus = IF loop[cur].still >= MaxStill THEN "no_signal" ELSE "connected"
        ELSE stopped \/ capStatus = "disconnected"

\* No change of the settings is lost, however changes, resets and losses of
\* the device fall together: once set, the capture runs with settings as new,
\* unless the device goes, the settings change again or roadie ends.
SettingsApplied ==
    \A g \in Settings :
        (wanted = g) ~> (\/ wanted # g \/ ~dongle \/ stopped
                         \/ phase \in {"opened", "watch"} /\ loop[cur].on /\ loop[cur].set = g)

\* A request to reset the device is answered, or refused at the end, however
\* often the capture restarts meanwhile: unless the device is away, when
\* nobody takes the request (capture.go:1680-1683).
ResetAnswered ==
    \A r \in Resets : asking[r] = "waiting" ~> asking[r] # "waiting" \/ ~dongle
=============================================================================
