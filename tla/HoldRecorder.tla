---------------------------- MODULE HoldRecorder ----------------------------
(* The hold recorder (record.go) and the disk it leaves recordings on, over  *)
(* ends and starts of roadie. One hold; a second recording of it is begun by *)
(* an input that was let through before the hold ended, or when roadie       *)
(* starts again while the hold lasts. Frames and what a step lists are left  *)
(* out.                                                                      *)
EXTENDS FiniteSets

CONSTANTS Recordings, NoRec

ASSUME RecorderConstants ==
    /\ NoRec \notin Recordings
    /\ Recordings \cap {"retry", "none", "part"} = {}

VARIABLES
    running,     \* the process
    holdOn,      \* the gate: the hold lasts
    holdEnding,  \* the gate's OnEnd is still to be called
    inputHeard,  \* an input that asked who holds the device, and has yet to lock mu
    active,      \* r.active of the hold
    stepOpen,    \* per recording: a step is open
    timer,       \* the settle timer
    pc, upload,  \* per recording, its finish goroutine; and retry's
    zip, side,   \* on disk: whose zip, "part" of one, or none; the sidecar
    begun,
    stored       \* at the station's Record Store

procVars == <<holdEnding, inputHeard, active, stepOpen, timer, pc, upload>>
diskVars == <<zip, side>>
recorderVars == <<running, holdOn, procVars, diskVars, begun, stored>>

Senders == Recordings \cup {"retry"}

RecorderInit ==
    /\ running = TRUE /\ holdOn = TRUE /\ holdEnding = FALSE /\ inputHeard = FALSE
    /\ active = NoRec /\ stepOpen = [n \in Recordings |-> FALSE] /\ timer = FALSE
    /\ pc = [t \in Senders |-> "no"] /\ upload = [t \in Senders |-> "none"]
    /\ zip = "none" /\ side = FALSE /\ begun = {} /\ stored = {}

-----------------------------------------------------------------------------
(* The recording                                                             *)

\* input asks who holds the device, and then takes the lock.
InputHeard ==
    /\ running /\ holdOn /\ ~inputHeard
    /\ inputHeard' = TRUE
    /\ UNCHANGED <<running, holdOn, holdEnding, active, stepOpen, timer, pc, upload, diskVars,
                   begun, stored>>

InputRecorded ==
    /\ inputHeard
    /\ \E n \in Recordings :
          /\ IF active = NoRec THEN n \notin begun ELSE n = active
          /\ active' = n /\ begun' = begun \cup {n}
          /\ stepOpen' = [stepOpen EXCEPT ![n] = TRUE]
    /\ inputHeard' = FALSE /\ timer' = TRUE
    /\ UNCHANGED <<running, holdOn, holdEnding, pc, upload, diskVars, stored>>

\* The burst is over: settled, or the next input's closeStep.
settled ==
    /\ timer
    /\ timer' = FALSE
    /\ stepOpen' = IF active = NoRec THEN stepOpen ELSE [stepOpen EXCEPT ![active] = FALSE]
    /\ UNCHANGED <<running, holdOn, holdEnding, inputHeard, active, pc, upload, diskVars,
                   begun, stored>>

HoldEnds ==
    /\ holdOn
    /\ holdOn' = FALSE /\ holdEnding' = running
    /\ UNCHANGED <<running, inputHeard, active, stepOpen, timer, pc, upload, diskVars, begun,
                   stored>>

end ==
    IF active = NoRec THEN UNCHANGED <<active, stepOpen, timer, pc>>
    ELSE /\ active' = NoRec /\ timer' = FALSE
         /\ stepOpen' = [stepOpen EXCEPT ![active] = FALSE]
         /\ pc' = [pc EXCEPT ![active] = "zip"]

HoldEnded ==
    /\ holdEnding
    /\ holdEnding' = FALSE /\ end
    /\ UNCHANGED <<running, holdOn, inputHeard, upload, diskVars, begun, stored>>

\* At the shutdown, before the tunnel and the viewers are gone. Nobody waits for
\* what it has started.
endAll ==
    /\ running /\ active # NoRec
    /\ end
    /\ UNCHANGED <<running, holdOn, holdEnding, inputHeard, upload, diskVars, begun, stored>>

-----------------------------------------------------------------------------
(* finish, send and retry                                                    *)

At(t, where) == running /\ pc[t] = where
Go(t, where) == pc' = [pc EXCEPT ![t] = where]
idleVars == <<running, holdOn, holdEnding, inputHeard, active, stepOpen, timer, begun>>

\* os.WriteFile empties the file first. It may fail, before and after that.
WriteZip(n) ==
    /\ \/ At(n, "zip") /\ Go(n, "fill") /\ zip' = "part"
       \/ At(n, "fill") /\ Go(n, "side") /\ zip' = n
       \/ pc[n] \in {"zip", "fill"} /\ running /\ Go(n, "no") /\ UNCHANGED zip
    /\ UNCHANGED <<idleVars, upload, side, stored>>

\* Whether this is written is not looked at.
WriteSide(n) ==
    /\ At(n, "side") /\ Go(n, "read")
    /\ side' \in {side, TRUE}
    /\ UNCHANGED <<idleVars, upload, zip, stored>>

ReadZip(t) ==
    /\ At(t, "read")
    /\ IF zip = "none" THEN Go(t, "no") /\ UNCHANGED upload
       ELSE Go(t, "upload") /\ upload' = [upload EXCEPT ![t] = zip]
    /\ UNCHANGED <<idleVars, diskVars, stored>>

\* Mutant: a failed upload is removed from the disk all the same.
BugUploadAlwaysRemoves(t) ==
    /\ At(t, "upload")
    /\ Go(t, "remove")
    /\ stored' \in {stored, stored \cup ({upload[t]} \cap Recordings)}
    /\ upload' = [upload EXCEPT ![t] = "none"]
    /\ UNCHANGED <<idleVars, diskVars>>

\* An upload that fails may have reached the station all the same.
Upload(t) ==
    /\ At(t, "upload")
    /\ \/ Go(t, "remove") /\ stored' = stored \cup ({upload[t]} \cap Recordings)
       \/ Go(t, "no") /\ stored' \in {stored, stored \cup ({upload[t]} \cap Recordings)}
    /\ upload' = [upload EXCEPT ![t] = "none"]
    /\ UNCHANGED <<idleVars, diskVars>>

RemoveZip(t) ==
    /\ At(t, "remove") /\ Go(t, "removeSide")
    /\ zip' = "none"
    /\ UNCHANGED <<idleVars, upload, side, stored>>

RemoveSide(t) ==
    /\ At(t, "removeSide") /\ Go(t, "no")
    /\ side' = FALSE
    /\ UNCHANGED <<idleVars, upload, zip, stored>>

\* At the start, for each sidecar: one whose zip is gone is removed, one
\* whose station left the policy is left.
RetryKept ==
    /\ At("retry", "list")
    /\ \/ side /\ zip # "none" /\ Go("retry", "read")
       \/ side /\ zip = "none" /\ Go("retry", "removeSide")
       \/ Go("retry", "no")
    /\ UNCHANGED <<idleVars, upload, diskVars, stored>>

Send(t) == ReadZip(t) \/ Upload(t) \/ RemoveZip(t) \/ RemoveSide(t)

-----------------------------------------------------------------------------
(* The process ends, killed or through with its shutdown, and starts again   *)

Exit ==
    /\ running
    /\ running' = FALSE
    /\ holdEnding' = FALSE /\ inputHeard' = FALSE /\ active' = NoRec /\ timer' = FALSE
    /\ pc' = [t \in Senders |-> "no"] /\ upload' = [t \in Senders |-> "none"]
    /\ UNCHANGED <<holdOn, stepOpen, diskVars, begun, stored>>

Start ==
    /\ ~running
    /\ running' = TRUE
    /\ Go("retry", "list")
    /\ UNCHANGED <<holdOn, holdEnding, inputHeard, active, stepOpen, timer, upload, diskVars,
                   begun, stored>>

RecorderNext ==
    \/ InputHeard \/ InputRecorded \/ settled \/ HoldEnds \/ HoldEnded \/ endAll
    \/ \E n \in Recordings : WriteZip(n) \/ WriteSide(n)
    \/ \E t \in Senders : Send(t)
    \/ RetryKept \/ Exit \/ Start

RecorderSpec == RecorderInit /\ [][RecorderNext]_recorderVars

-----------------------------------------------------------------------------
RecorderTypeOK ==
    /\ {running, holdOn, holdEnding, inputHeard, timer, side} \subseteq BOOLEAN
    /\ active \in Recordings \cup {NoRec}
    /\ stepOpen \in [Recordings -> BOOLEAN]
    /\ pc \in [Senders -> {"no", "list", "zip", "fill", "side", "read", "upload",
                           "remove", "removeSide"}]
    /\ upload \in [Senders -> Recordings \cup {"part", "none"}]
    /\ zip \in Recordings \cup {"part", "none"}
    /\ begun \subseteq Recordings /\ stored \subseteq Recordings

\* What has become of a recording. One kept with a step still open would not
\* hold all the inputs it heard.
Fate(n) ==
    IF n \notin begun THEN "none"
    ELSE IF n \in stored THEN "delivered"
    ELSE IF zip = n /\ side THEN IF stepOpen[n] THEN "torn" ELSE "kept"
    ELSE IF active = n THEN "going"
    ELSE IF \/ pc[n] \in {"zip", "fill", "side"}
            \/ pc[n] = "read" /\ zip = n
            \/ \E t \in Senders : pc[t] = "upload" /\ upload[t] = n
         THEN "closing"
    ELSE "lost"

Delivery == INSTANCE RecordingDelivery WITH fate <- [n \in Recordings |-> Fate(n)], up <- running

\* The recorder implements RecordingDelivery: through failing writes, failing
\* uploads, and roadie ending between any two steps, a recording whose zip
\* and sidecar are on disk stays there until the station has it, with every
\* input it heard; one that goes on is lost only with roadie itself. What was
\* closed and is still being written is lost with roadie too, at its shutdown
\* as well (endAll, and then Exit), which main.go:518-519 says it is not.
KeepsRecordings == Delivery!DeliverySpec
=============================================================================
