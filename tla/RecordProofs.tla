---------------------------- MODULE RecordProofs ----------------------------
(* Proofs about what records and plays: HoldRecorder implements              *)
(* RecordingDelivery, what a listener of the phone's audio is told, and what *)
(* of a microphone's sound reaches the phone. For any recordings, listeners, *)
(* sources, talkers and lengths of the queue.                                *)
EXTENDS HoldRecorder, PhoneAudio, GadgetMic, SequenceTheorems, TLAPS

-----------------------------------------------------------------------------
(* HoldRecorder: what becomes of a recording.                                *)

(* What the refinement needs to know. A recording not begun, or still going  *)
(* on, has nothing on its way to the disk or the station; so no step of it   *)
(* opens once it is on its way, and none is kept torn. The rest holds while  *)
(* only one recording has begun: its zip and its sidecar are written once,   *)
(* in that order, and removed only when the station has it. Nothing is on its *)
(* way while roadie does not run.                                            *)

Fresh(n) == /\ pc[n] = "no" /\ zip # n /\ n \notin stored
            /\ \A t \in Senders : upload[t] # n

FreshStaysBehind ==
    /\ \A n \in Recordings : n \notin begun \/ n = active => Fresh(n)
    /\ active \in Recordings => active \in begun

StepsClosed == \A n \in Recordings : pc[n] # "no" \/ zip = n => ~stepOpen[n]

OwnSteps == /\ pc["retry"] \notin {"zip", "fill", "side"}
            /\ \A n \in Recordings : pc[n] # "list"
            /\ ~running => /\ active = NoRec /\ ~inputHeard /\ ~holdEnding
                           /\ \A t \in Senders : pc[t] = "no"

Written(n) ==
    /\ n \notin begun \/ active = n \/ pc[n] = "zip" => zip = "none" /\ ~side /\ n \notin stored
    /\ pc[n] = "fill" => zip = "part"
    /\ zip = "part" => /\ ~side /\ n \notin stored
                       /\ \A t \in Senders : pc[t] \notin {"read", "upload", "remove", "removeSide"}
    /\ side => zip = n \/ n \in stored

Sending(n) ==
    /\ pc[n] \in {"side", "read"} => zip = n \/ n \in stored
    /\ pc["retry"] = "read" => (zip = n /\ side) \/ n \in stored
    /\ \A t \in Senders : pc[t] = "upload" => upload[t] = n /\ (zip = n \/ n \in stored)
    /\ \A t \in Senders : pc[t] \in {"remove", "removeSide"} => n \in stored

AloneInOrder == \A n \in Recordings : begun \subseteq {n} => Written(n) /\ Sending(n)

RecorderIInv ==
    RecorderTypeOK /\ FreshStaysBehind /\ StepsClosed /\ OwnSteps /\ AloneInOrder

LEMMA RecorderInitiates == RecorderInit => RecorderIInv
  BY RecorderConstants
     DEF RecorderInit, RecorderIInv, RecorderTypeOK, FreshStaysBehind, Fresh, StepsClosed,
         OwnSteps, AloneInOrder, Written, Sending, Senders

LEMMA EndKeeps ==
    ASSUME RecorderIInv, end, UNCHANGED <<upload, diskVars, begun, stored, inputHeard>>,
           running, running' = running, holdOn' \in BOOLEAN, holdEnding' \in BOOLEAN
    PROVE  RecorderIInv'
<1>1. RecorderTypeOK'
  BY RecorderConstants DEF end, RecorderIInv, RecorderTypeOK, diskVars, Senders
<1>2. FreshStaysBehind'
  BY RecorderConstants
     DEF end, RecorderIInv, RecorderTypeOK, diskVars, Senders, FreshStaysBehind, Fresh
<1>3. StepsClosed'
  BY RecorderConstants
     DEF end, RecorderIInv, RecorderTypeOK, diskVars, Senders, StepsClosed
<1>4. OwnSteps'
  BY RecorderConstants
     DEF end, RecorderIInv, RecorderTypeOK, diskVars, Senders, OwnSteps
<1>5. AloneInOrder'
  BY RecorderConstants
     DEF end, RecorderIInv, RecorderTypeOK, diskVars, Senders, FreshStaysBehind, Fresh,
         AloneInOrder, Written, Sending
<1> QED BY <1>1, <1>2, <1>3, <1>4, <1>5 DEF RecorderIInv

LEMMA RecorderStep == RecorderIInv /\ [RecorderNext]_recorderVars => RecorderIInv'
<1>1. SUFFICES ASSUME RecorderIInv, [RecorderNext]_recorderVars PROVE RecorderIInv'
  OBVIOUS
<1> USE RecorderConstants
    DEF RecorderIInv, RecorderTypeOK, FreshStaysBehind, Fresh, StepsClosed, OwnSteps, AloneInOrder,
        Written, Sending, Senders, diskVars, idleVars, At, Go
<1>2. CASE InputHeard
  BY <1>1, <1>2 DEF InputHeard
<1>3. CASE InputRecorded
  <2> USE <1>1, <1>3 DEF InputRecorded
  <2>1. RecorderTypeOK' OBVIOUS
  <2>2. FreshStaysBehind' OBVIOUS
  <2>3. StepsClosed' OBVIOUS
  <2>4. OwnSteps' OBVIOUS
  <2>5. AloneInOrder' OBVIOUS
  <2> QED BY <2>1, <2>2, <2>3, <2>4, <2>5
<1>4. CASE settled
  <2> USE <1>1, <1>4 DEF settled
  <2>1. RecorderTypeOK' OBVIOUS
  <2>2. FreshStaysBehind' OBVIOUS
  <2>3. StepsClosed' OBVIOUS
  <2>4. OwnSteps' OBVIOUS
  <2>5. AloneInOrder' OBVIOUS
  <2> QED BY <2>1, <2>2, <2>3, <2>4, <2>5
<1>5. CASE HoldEnds
  BY <1>1, <1>5 DEF HoldEnds
<1>6. CASE HoldEnded
  BY <1>1, <1>6, EndKeeps DEF HoldEnded
<1>7. CASE endAll
  BY <1>1, <1>7, EndKeeps DEF endAll
<1>8. ASSUME NEW n \in Recordings, WriteZip(n) PROVE RecorderIInv'
  <2> USE <1>1, <1>8 DEF WriteZip
  <2>1. RecorderTypeOK' OBVIOUS
  <2>2. FreshStaysBehind' OBVIOUS
  <2>3. StepsClosed' OBVIOUS
  <2>4. OwnSteps' OBVIOUS
  <2>5. AloneInOrder' OBVIOUS
  <2> QED BY <2>1, <2>2, <2>3, <2>4, <2>5
<1>9. ASSUME NEW n \in Recordings, WriteSide(n) PROVE RecorderIInv'
  <2> USE <1>1, <1>9 DEF WriteSide
  <2>1. RecorderTypeOK' OBVIOUS
  <2>2. FreshStaysBehind' OBVIOUS
  <2>3. StepsClosed' OBVIOUS
  <2>4. OwnSteps' OBVIOUS
  <2>5. ASSUME NEW m \in Recordings, begun \subseteq {m} PROVE m = n /\ Written(m) /\ Sending(m)
    BY <2>5
  <2>6. ASSUME NEW m \in Recordings, begun' \subseteq {m} PROVE Written(m)' /\ Sending(m)'
    <3>1. n = m /\ begun \subseteq {m}
      BY <2>5, <2>6
    <3>2. CASE side' = side
      BY <2>5, <3>1, <3>2
    <3>3. CASE side' = TRUE
      BY <2>5, <3>1, <3>3
    <3> QED BY <3>2, <3>3
  <2> QED BY <2>1, <2>2, <2>3, <2>4, <2>6
<1>10. ASSUME NEW t \in Senders, ReadZip(t) PROVE RecorderIInv'
  <2> USE <1>1, <1>10 DEF ReadZip
  <2>1. RecorderTypeOK' OBVIOUS
  <2>2. FreshStaysBehind' OBVIOUS
  <2>3. StepsClosed' OBVIOUS
  <2>4. OwnSteps' OBVIOUS
  <2>5. AloneInOrder' OBVIOUS
  <2> QED BY <2>1, <2>2, <2>3, <2>4, <2>5
<1>11. ASSUME NEW t \in Senders, Upload(t) PROVE RecorderIInv'
  <2> USE <1>1, <1>11 DEF Upload
  <2>1. RecorderTypeOK' OBVIOUS
  <2>2. FreshStaysBehind' OBVIOUS
  <2>3. StepsClosed' OBVIOUS
  <2>4. OwnSteps' OBVIOUS
  <2>5. AloneInOrder' OBVIOUS
  <2> QED BY <2>1, <2>2, <2>3, <2>4, <2>5
<1>12. ASSUME NEW t \in Senders, RemoveZip(t) PROVE RecorderIInv'
  <2> USE <1>1, <1>12 DEF RemoveZip
  <2>1. RecorderTypeOK' OBVIOUS
  <2>2. FreshStaysBehind' OBVIOUS
  <2>3. StepsClosed' OBVIOUS
  <2>4. OwnSteps' OBVIOUS
  <2>5. AloneInOrder' OBVIOUS
  <2> QED BY <2>1, <2>2, <2>3, <2>4, <2>5
<1>13. ASSUME NEW t \in Senders, RemoveSide(t) PROVE RecorderIInv'
  <2> USE <1>1, <1>13 DEF RemoveSide
  <2>1. RecorderTypeOK' OBVIOUS
  <2>2. FreshStaysBehind' OBVIOUS
  <2>3. StepsClosed' OBVIOUS
  <2>4. OwnSteps' OBVIOUS
  <2>5. AloneInOrder' OBVIOUS
  <2> QED BY <2>1, <2>2, <2>3, <2>4, <2>5
<1>14. CASE RetryKept
  <2> USE <1>1, <1>14 DEF RetryKept
  <2>1. RecorderTypeOK' OBVIOUS
  <2>2. FreshStaysBehind' OBVIOUS
  <2>3. StepsClosed' OBVIOUS
  <2>4. OwnSteps' OBVIOUS
  <2>5. AloneInOrder' OBVIOUS
  <2> QED BY <2>1, <2>2, <2>3, <2>4, <2>5
<1>15. CASE Exit
  <2> USE <1>1, <1>15 DEF Exit
  <2>1. RecorderTypeOK' OBVIOUS
  <2>2. FreshStaysBehind' OBVIOUS
  <2>3. StepsClosed' OBVIOUS
  <2>4. OwnSteps' OBVIOUS
  <2>5. AloneInOrder' OBVIOUS
  <2> QED BY <2>1, <2>2, <2>3, <2>4, <2>5
<1>16. CASE Start
  <2> USE <1>1, <1>16 DEF Start
  <2>1. RecorderTypeOK' OBVIOUS
  <2>2. FreshStaysBehind' OBVIOUS
  <2>3. StepsClosed' OBVIOUS
  <2>4. OwnSteps' OBVIOUS
  <2>5. AloneInOrder' OBVIOUS
  <2> QED BY <2>1, <2>2, <2>3, <2>4, <2>5
<1>17. CASE UNCHANGED recorderVars
  BY <1>1, <1>17 DEF recorderVars, procVars
<1> QED
  BY <1>1, <1>2, <1>3, <1>4, <1>5, <1>6, <1>7, <1>8, <1>9, <1>10, <1>11, <1>12, <1>13, <1>14,
     <1>15, <1>16, <1>17
  DEF RecorderNext, Send

LEMMA RecorderInvariant == RecorderSpec => []RecorderIInv
  BY RecorderInitiates, RecorderStep, PTL DEF RecorderSpec

(* What a step does to the recordings' fates.                                *)

\* No recording is kept with a step open.
LEMMA FatesAsPromised ==
    ASSUME RecorderIInv, NEW n \in Recordings
    PROVE  Fate(n) \in Delivery!Fates /\ (Fate(n) = "none" <=> n \notin begun)
  BY DEF RecorderIInv, StepsClosed, Fate, Delivery!Fates

\* Begun and delivered are for good.
LEMMA ForGood ==
    ASSUME RecorderIInv, RecorderNext
    PROVE  begun \subseteq begun' /\ stored \subseteq stored'
<1> USE DEF idleVars
<1>1. ASSUME NEW t \in Senders, Send(t) PROVE begun' = begun /\ stored \subseteq stored'
  BY <1>1 DEF Send, ReadZip, Upload, RemoveZip, RemoveSide
<1> QED
  BY <1>1 DEF RecorderNext, InputHeard, InputRecorded, settled, HoldEnds, HoldEnded, endAll,
              WriteZip, WriteSide, RetryKept, Exit, Start

\* An input begins a recording, or belongs to the one that goes on.
LEMMA InputBegins ==
    ASSUME RecorderIInv, InputRecorded
    PROVE  \/ \E n \in Recordings : Delivery!Begin(n)
           \/ UNCHANGED running /\ \A n \in Recordings : Fate(n)' = Fate(n)
<1>0. UNCHANGED running
  BY DEF InputRecorded
<1>1. PICK n \in Recordings :
         /\ IF active = NoRec THEN n \notin begun ELSE n = active
         /\ active' = n /\ begun' = begun \cup {n}
         /\ stepOpen' = [stepOpen EXCEPT ![n] = TRUE]
  BY DEF InputRecorded
<1>2. ASSUME NEW m \in Recordings, m # n PROVE Fate(m)' = Fate(m)
  BY <1>1, <1>2, RecorderConstants DEF InputRecorded, diskVars, Fate, RecorderIInv, RecorderTypeOK
<1>3. Fate(n)' = "going"
  BY <1>1, RecorderConstants
     DEF InputRecorded, diskVars, Fate, RecorderIInv, FreshStaysBehind, Fresh
<1>4. CASE active = NoRec
  <2>1. Fate(n) = "none"
    BY <1>1, <1>4 DEF Fate
  <2> QED
    BY <1>0, <1>2, <1>3, <2>1 DEF Delivery!Begin, Delivery!Becomes
<1>5. CASE active # NoRec
  <2>1. Fate(n) = "going"
    BY <1>1, <1>5, RecorderConstants DEF Fate, RecorderIInv, FreshStaysBehind, Fresh
  <2> QED
    BY <1>0, <1>2, <1>3, <2>1
<1> QED BY <1>4, <1>5

\* What a step can make of the one recording of a hold: one that is kept is on
\* the disk until it is delivered, one that is lost is not found again, and the
\* end of roadie loses what is not on the disk.
Goes(n) ==
    /\ Fate(n) = "going" => Fate(n)' \in {"going", "closing", "lost"}
    /\ Fate(n) = "closing" => Fate(n)' # "going"
    /\ Fate(n) = "kept" => Fate(n)' \in {"kept", "delivered"}
    /\ Fate(n) = "lost" => Fate(n)' = "lost"
    /\ Fate(n) = "going" /\ Fate(n)' = "lost" => running' # running
    /\ running' # running =>
          Fate(n)' = IF running /\ Fate(n) \in {"going", "closing"} THEN "lost" ELSE Fate(n)

LEMMA KeptUntilDelivered ==
    ASSUME RecorderIInv, RecorderNext, ~InputRecorded, NEW n \in Recordings, begun = {n}
    PROVE  Goes(n)
<1>1. RecorderIInv' /\ Fate(n)' \in Delivery!Fates
  BY RecorderStep, FatesAsPromised DEF Fate, Delivery!Fates, RecorderIInv, StepsClosed
<1> USE RecorderConstants, <1>1
    DEF Goes, Fate, Delivery!Fates, RecorderIInv, RecorderTypeOK, FreshStaysBehind, Fresh,
        AloneInOrder, Written, Sending, Senders, diskVars, idleVars, At, Go
<1>2. CASE InputHeard
  BY <1>2 DEF InputHeard
<1>3. CASE settled
  BY <1>3 DEF settled
<1>4. CASE HoldEnds
  BY <1>4 DEF HoldEnds
<1>5. CASE HoldEnded
  BY <1>5 DEF HoldEnded, end
<1>6. CASE endAll
  BY <1>6 DEF endAll, end
<1>7. ASSUME NEW m \in Recordings, WriteZip(m) PROVE Goes(n)
  BY <1>7 DEF WriteZip
<1>8. ASSUME NEW m \in Recordings, WriteSide(m) PROVE Goes(n)
  <2>1. pc[m] = "side" /\ side' \in {side, TRUE} /\ zip' = zip /\ stored' = stored
    BY <1>8 DEF WriteSide
  <2>2. m = n /\ (zip = n \/ n \in stored)
    BY <2>1
  <2>3. Fate(n) # "lost"
    BY <2>1, <2>2
  <2>4. ASSUME zip = n, side PROVE zip' = n /\ side'
    BY <2>1, <2>4
  <2>5. UNCHANGED <<stepOpen, begun, running, active, upload>>
    BY <1>8 DEF WriteSide
  <2>6. pc' = [pc EXCEPT ![n] = "read"]
    BY <1>8, <2>2 DEF WriteSide
  <2>7. n \in stored => Goes(n)
    BY <2>1, <2>5
  <2>8. Fate(n) = "kept" /\ zip = n => Fate(n)' = "kept"
    BY <2>1, <2>4, <2>5
  <2>9. Fate(n) # "going"
    BY <2>1, <2>2
  <2>10. zip = n => Fate(n)' # "going"
    BY <2>1, <2>2, <2>5, <2>6
  <2> QED
    BY <2>2, <2>3, <2>5, <2>7, <2>8, <2>9, <2>10
<1>9. ASSUME NEW t \in Senders, ReadZip(t) PROVE Goes(n)
  BY <1>9 DEF ReadZip
<1>10. ASSUME NEW t \in Senders, Upload(t) PROVE Goes(n)
  BY <1>10 DEF Upload
<1>11. ASSUME NEW t \in Senders, RemoveZip(t) PROVE Goes(n)
  BY <1>11 DEF RemoveZip
<1>12. ASSUME NEW t \in Senders, RemoveSide(t) PROVE Goes(n)
  BY <1>12 DEF RemoveSide
<1>13. CASE RetryKept
  BY <1>13 DEF RetryKept
<1>14. CASE Exit
  BY <1>14 DEF Exit
<1>15. CASE Start
  <2>1. ~running /\ \A t \in Senders : pc[t] = "no"
    BY <1>15 DEF Start, OwnSteps
  <2>2. /\ UNCHANGED <<active, stepOpen, upload, zip, side, begun, stored>>
        /\ pc' = [pc EXCEPT !["retry"] = "list"]
    BY <1>15 DEF Start
  <2>3. \A t \in Senders : pc'[t] \in {"no", "list"}
    BY <2>1, <2>2
  <2>4. Fate(n)' = Fate(n)
    BY <2>1, <2>2, <2>3
  <2> HIDE DEF Fate
  <2> QED
    BY <2>1, <2>4
<1> HIDE DEF Goes, Fate, Delivery!Fates, RecorderIInv, AloneInOrder, FreshStaysBehind
<1> QED
  BY <1>2, <1>3, <1>4, <1>5, <1>6, <1>7, <1>8, <1>9, <1>10, <1>11, <1>12, <1>13, <1>14, <1>15
  DEF RecorderNext, Send

\* Every step of the recorder is one RecordingDelivery allows, or changes no
\* recording's fate.
LEMMA StepDelivers ==
    ASSUME RecorderIInv, [RecorderNext]_recorderVars
    PROVE  [Delivery!DeliveryNext]_(Delivery!deliveryVars)
<1> DEFINE fates == [n \in Recordings |-> Fate(n)]
           Promised == [Delivery!DeliveryNext]_<<fates, running>>
<1> SUFFICES Promised
  BY DEF Delivery!deliveryVars
<1>1. RecorderIInv'
  BY RecorderStep
<1>2. \A n \in Recordings : Fate(n)' \in Delivery!Fates /\ (Fate(n)' = "none" <=> n \notin begun')
  BY <1>1 DEF Fate, Delivery!Fates, RecorderIInv, StepsClosed
<1>3. CASE UNCHANGED recorderVars
  BY <1>3 DEF recorderVars, procVars, diskVars, Fate
<1>4. CASE InputRecorded
  BY <1>4, InputBegins DEF Delivery!DeliveryNext
<1>5. ASSUME RecorderNext, ~InputRecorded PROVE Promised
  <2>1. begun' = begun /\ stored \subseteq stored'
    BY <1>5, ForGood
       DEF RecorderNext, Send, ReadZip, Upload, RemoveZip, RemoveSide, InputHeard, settled,
           HoldEnds, HoldEnded, endAll, WriteZip, WriteSide, RetryKept, Exit, Start, idleVars
  <2>2. running \in BOOLEAN /\ running' \in BOOLEAN
    BY <1>1 DEF RecorderIInv, RecorderTypeOK
  <2>3. ASSUME running' # running,
               \A n \in Recordings :
                  Fate(n)' = IF running /\ Fate(n) \in {"going", "closing"} THEN "lost" ELSE Fate(n)
        PROVE  Promised
    <3>1. CASE running
      <4>1. running' = FALSE
        BY <2>2, <2>3, <3>1
      <4>2. fates' = [n \in Recordings |-> IF fates[n] \in {"going", "closing"} THEN "lost" ELSE fates[n]]
        BY <2>3, <3>1
      <4> QED
        BY <3>1, <4>1, <4>2 DEF Delivery!DeliveryNext, Delivery!RoadieEnds
    <3>2. CASE ~running
      <4>1. running' = TRUE
        BY <2>2, <2>3, <3>2
      <4>2. fates' = fates
        BY <2>3, <3>2
      <4> QED
        BY <3>2, <4>1, <4>2 DEF Delivery!DeliveryNext, Delivery!RoadieStarts
    <3> QED
      BY <3>1, <3>2
  <2>4. CASE begun = {}
    <3>1. \A n \in Recordings : Fate(n) = "none" /\ Fate(n)' = "none"
      BY <1>2, <2>1, <2>4, FatesAsPromised
    <3> QED
      BY <2>3, <3>1
  <2>5. ASSUME NEW n \in Recordings, begun = {n} PROVE Promised
    <3>1. \A m \in Recordings : m # n => Fate(m) = "none" /\ Fate(m)' = "none"
      BY <1>2, <2>1, <2>5, FatesAsPromised
    <3>2. Fate(n) \in Delivery!Fates \ {"none"} /\ Fate(n)' \in Delivery!Fates \ {"none"}
      BY <1>2, <2>1, <2>5, FatesAsPromised
    <3>3. Goes(n) /\ (Fate(n) = "delivered" => Fate(n)' = "delivered")
      BY <1>5, <2>1, <2>5, KeptUntilDelivered DEF Fate
    <3>4. CASE running' # running
      BY <2>3, <3>1, <3>3, <3>4 DEF Goes
    <3>5. ASSUME running' = running,
                 NEW to \in Delivery!Fates, Fate(n)' = to,
                 \/ Fate(n) = to
                 \/ Delivery!Becomes(n, {"going"}, "closing") \/ Delivery!Becomes(n, {"closing"}, "kept")
                 \/ Delivery!Becomes(n, {"closing", "kept"}, "delivered")
                 \/ Delivery!Becomes(n, {"closing"}, "lost")
          PROVE  Promised
      <4>1. CASE Fate(n) = to
        <5>1. fates' = fates
          BY <3>1, <3>5, <4>1
        <5> QED
          BY <3>5, <5>1
      <4> QED
        BY <3>5, <4>1
           DEF Delivery!DeliveryNext, Delivery!Finish, Delivery!Keep, Delivery!Deliver, Delivery!DiskFails
    <3>6. CASE running' = running
      <4>1. fates' = [fates EXCEPT ![n] = Fate(n)']
        BY <3>1
      <4>2. \/ Fate(n)' = Fate(n)
            \/ Fate(n) = "going" /\ Fate(n)' = "closing"
            \/ Fate(n) = "closing" /\ Fate(n)' = "kept"
            \/ Fate(n) \in {"closing", "kept"} /\ Fate(n)' = "delivered"
            \/ Fate(n) = "closing" /\ Fate(n)' = "lost"
        BY <3>2, <3>3, <3>6 DEF Goes, Delivery!Fates
      <4> QED
        BY <3>2, <3>5, <3>6, <4>1, <4>2 DEF Delivery!Becomes
    <3> QED
      BY <3>4, <3>6
  <2>6. ASSUME NEW m \in begun, NEW n \in begun, m # n PROVE Promised
    <3>1. m \in Recordings /\ n \in Recordings /\ Fate(m) # "none" /\ Fate(n) # "none"
      BY <2>6, FatesAsPromised DEF RecorderIInv, RecorderTypeOK
    <3>2. \A r \in Recordings : /\ Fate(r) \in {"none", "delivered"} => Fate(r)' = Fate(r)
                                /\ Fate(r)' = "none" => Fate(r) = "none"
      BY <1>2, <2>1, FatesAsPromised DEF Fate
    <3>3. fates' \in [Recordings -> Delivery!Fates]
      BY <1>2
    <3>4. Delivery!Disturbed
      BY <2>2, <2>6, <3>1, <3>2, <3>3 DEF Delivery!Disturbed
    <3> QED
      BY <3>4 DEF Delivery!DeliveryNext
  <2> QED
    BY <2>4, <2>5, <2>6 DEF RecorderIInv, RecorderTypeOK
<1> QED
  BY <1>3, <1>4, <1>5

\* The recorder implements RecordingDelivery (KeepsRecordings): whatever
\* writes and uploads fail, the recording of a hold that is wholly on the disk
\* stays there until the station has it, and roadie's end, wherever it falls,
\* loses only one that goes on or is still being closed (record.go:25-32, 238).
THEOREM RecordingsAreKept == RecorderSpec => KeepsRecordings
<1>1. RecorderInit => Delivery!DeliveryInit
  BY DEF RecorderInit, Delivery!DeliveryInit, Fate
<1>2. RecorderIInv /\ [RecorderNext]_recorderVars
        => [Delivery!DeliveryNext]_(Delivery!deliveryVars)
  BY StepDelivers
<1> QED
  BY <1>1, <1>2, RecorderInvariant, PTL DEF RecorderSpec, KeepsRecordings, Delivery!DeliverySpec

\* Type correctness of the recorder.
THEOREM RecorderIsTyped == RecorderSpec => []RecorderTypeOK
<1>1. RecorderIInv => RecorderTypeOK
  BY DEF RecorderIInv
<1>2. QED
  BY <1>1, RecorderInvariant, PTL

-----------------------------------------------------------------------------
(* PhoneAudio: each listener is told of a source before it plays.            *)

Formats == {UsbFormat} \cup HdmiFormats

AudioTyped ==
    /\ source \in [Sources -> [active : BOOLEAN, params : Formats \cup {NoFormat},
                               chunks : Seq(Formats \cup {NoFormat})]]
    /\ \A s \in Sources : source[s].params \in FormatsOf(s) \cup {NoFormat} /\ Len(source[s].chunks) <= 1
    /\ current \in Sources \cup {NoSource}
    /\ out \in [active : BOOLEAN, params : Formats \cup {NoFormat}]
    /\ listener \in [Listeners -> [at : {"away", "accepted", "told", "playing"}, told : Formats \cup {NoFormat},
                        chunks : Seq(Formats \cup {NoFormat}), open : BOOLEAN]]
    /\ \A l \in Listeners : listener[l].open \/ sure[l] => listener[l].at = "playing"

SwitchesTyped == usbHeld \in BOOLEAN /\ reformatted \in BOOLEAN /\ sure \in [Listeners -> BOOLEAN]

\* All that a sequence holds is in one format.
AllIn(chunks, f) == \A i \in 1..Len(chunks) : chunks[i] = f

\* A source that never opened has sent nothing; one that is passed through is
\* what /audio is announced as; what waits for the mux is in its format.
SourcesHold ==
    /\ \A s \in Sources : source[s].params = NoFormat =>
          ~source[s].active /\ source[s].chunks = <<>> /\ current # s
    /\ current # NoSource => out.active
    /\ ~reformatted => \A s \in Sources :
          /\ AllIn(source[s].chunks, source[s].params)
          /\ current = s => out.params = source[s].params

\* A listener who is sure was told what its channel holds, and, while it is
\* open, what out is announced as.
ListenersHold ==
    ~reformatted => \A l \in Listeners : sure[l] =>
        /\ AllIn(listener[l].chunks, listener[l].told)
        /\ listener[l].open => listener[l].told = out.params

AudioIInv == AudioTyped /\ SwitchesTyped /\ SourcesHold /\ ListenersHold

LEMMA AppendAll ==
    ASSUME NEW S, NEW q \in Seq(S), NEW c \in S
    PROVE  /\ Append(q, c) \in Seq(S) /\ Len(Append(q, c)) = Len(q) + 1 /\ Append(q, c) # <<>>
           /\ AllIn(q, c) => AllIn(Append(q, c), c)
<1>1. Append(q, c) \in Seq(S) /\ Len(Append(q, c)) = Len(q) + 1
  OBVIOUS
<1>2. \A i \in 1..Len(q) + 1 : Append(q, c)[i] = IF i = Len(q) + 1 THEN c ELSE q[i]
  OBVIOUS
<1>3. ASSUME AllIn(q, c), NEW i \in 1..Len(Append(q, c)) PROVE Append(q, c)[i] = c
  <2>1. i = Len(q) + 1 \/ i \in 1..Len(q)
    BY <1>1, <1>3
  <2>2. QED
    BY <1>1, <1>2, <1>3, <2>1 DEF AllIn
<1>4. Append(q, c) # <<>>
  <2>1. Len(Append(q, c)) # Len(<<>>)
    BY <1>1
  <2>2. QED
    BY <2>1, Zenon
<1>5. QED
  BY <1>1, <1>3, <1>4 DEF AllIn

LEMMA TailAll ==
    ASSUME NEW S, NEW q \in Seq(S), q # <<>>, NEW f
    PROVE  /\ Tail(q) \in Seq(S) /\ Len(Tail(q)) = Len(q) - 1 /\ Head(q) \in S /\ Len(q) > 0
           /\ AllIn(q, f) => AllIn(Tail(q), f) /\ Head(q) = f
  BY DEF AllIn

LEMMA OfferKeeps ==
    ASSUME NEW S, NEW q \in Seq(S), NEW c \in S, NEW room \in {1, 2}
    PROVE  /\ Offer(q, c, room) \in Seq(S) /\ (Len(q) <= room => Len(Offer(q, c, room)) <= room)
           /\ Offer(q, c, room) # <<>>
           /\ AllIn(q, c) => AllIn(Offer(q, c, room), c)
<1>1. CASE Len(q) < room
  <2>1. Offer(q, c, room) = Append(q, c)
    BY <1>1 DEF Offer
  <2>2. QED
    BY <1>1, <2>1, AppendAll
<1>2. CASE ~(Len(q) < room)
  <2>1. Offer(q, c, room) = Append(Tail(q), c) /\ q # <<>>
    BY <1>2 DEF Offer
  <2>2. Tail(q) \in Seq(S) /\ Len(Tail(q)) = Len(q) - 1 /\ (AllIn(q, c) => AllIn(Tail(q), c))
    BY <2>1, TailAll
  <2>3. /\ Append(Tail(q), c) \in Seq(S) /\ Len(Append(Tail(q), c)) = Len(Tail(q)) + 1 /\ Append(Tail(q), c) # <<>>
        /\ AllIn(Tail(q), c) => AllIn(Append(Tail(q), c), c)
    BY <2>2, AppendAll
  <2>4. QED
    BY <2>1, <2>2, <2>3
<1>3. QED
  BY <1>1, <1>2


LEMMA SourceNames == NoSource \notin Sources /\ "usb" # "hdmi"
<1>1. NoSource # "usb" /\ NoSource # "hdmi"
  BY Zenon DEF NoSource
<1>2. QED
  BY <1>1 DEF Sources

LEMMA AudioInitiates == AudioInit => AudioIInv
<1>1. SUFFICES ASSUME AudioInit PROVE AudioIInv
  OBVIOUS
<1>2. SwitchesTyped
  BY <1>1, Zenon DEF AudioInit, SwitchesTyped
<1>3. AudioTyped
  BY <1>1 DEF AudioInit, AudioTyped, Away, FormatsOf
<1>4. SourcesHold
  BY <1>1, SourceNames DEF AudioInit, SourcesHold, AllIn
<1>5. ListenersHold
  BY <1>1 DEF AudioInit, ListenersHold
<1>6. QED
  BY <1>2, <1>3, <1>4, <1>5 DEF AudioIInv

LEMMA SwitchesStep == SwitchesTyped /\ [AudioNext]_audioVars => SwitchesTyped'
  BY Zenon DEF SwitchesTyped, AudioNext, audioVars, StartSource, SourceChunk, EndSource, MuxUSB, MuxHDMI,
        UsbHoldEnds, MuxTick, Connect, ReadParams, Subscribe, Receive, LeaveAudio, Take, PassOn, SetParams, Restart

\* What the sources do to what they hold.
LEMMA EmptyAll == \A f : AllIn(<<>>, f)
  BY DEF AllIn

Apart == SourcesHold /\ ListenersHold /\ AudioTyped

LEMMA SourcesKeep ==
    ASSUME AudioIInv, NEW src \in Sources, StartSource(src) \/ SourceChunk(src) \/ EndSource(src)
    PROVE  Apart'
<1>1. /\ UNCHANGED <<usbHeld, current, out, listener, sure>> /\ (~reformatted' => ~reformatted)
      /\ AudioTyped /\ SourcesHold /\ ListenersHold
  <2>1. UNCHANGED <<usbHeld, current, out, listener, sure>>
    BY DEF StartSource, SourceChunk, EndSource
  <2>2. ~reformatted' => ~reformatted
    BY Zenon DEF StartSource, SourceChunk, EndSource
  <2>3. QED
    BY <2>1, <2>2 DEF AudioIInv
<1>2. ListenersHold'
  BY <1>1 DEF ListenersHold
<1>3. /\ source[src] \in [active : BOOLEAN, params : Formats \cup {NoFormat}, chunks : Seq(Formats \cup {NoFormat})]
      /\ source[src].params \in FormatsOf(src) \cup {NoFormat} /\ Len(source[src].chunks) <= 1
      /\ FormatsOf(src) \subseteq Formats /\ NoFormat \notin Formats
  BY <1>1, AudioConstants DEF AudioTyped, FormatsOf, Formats
<1>4. CASE StartSource(src)
  <2>1. PICK f \in FormatsOf(src) :
          /\ source' = [source EXCEPT ![src].active = TRUE, ![src].params = f]
          /\ reformatted' = (reformatted \/ /\ source[src].params \notin {f, NoFormat}
                                            /\ current = src \/ source[src].chunks # <<>>)
    BY <1>4 DEF StartSource
  <2>2. /\ \A s \in Sources : s # src => source'[s] = source[s]
        /\ source'[src].active = TRUE /\ source'[src].params = f /\ source'[src].chunks = source[src].chunks
        /\ source' \in [Sources -> [active : BOOLEAN, params : Formats \cup {NoFormat},
                               chunks : Seq(Formats \cup {NoFormat})]]
    BY <1>1, <1>3, <2>1 DEF AudioTyped
  <2>3. AudioTyped'
    BY <1>1, <1>3, <2>1, <2>2 DEF AudioTyped
  <2>4. f # NoFormat
    BY <1>3, <2>1
  <2>5. ASSUME ~reformatted' PROVE source[src].params = f \/ (source[src].chunks = <<>> /\ current # src)
    <3>1. source[src].params \in {f, NoFormat} \/ (source[src].chunks = <<>> /\ current # src)
      BY <2>1, <2>5
    <3>2. QED
      BY <1>1, <3>1 DEF SourcesHold
  <2>6. SourcesHold'
    BY <1>1, <2>2, <2>4, <2>5, EmptyAll DEF SourcesHold
  <2>7. QED
    BY <1>2, <2>3, <2>6 DEF Apart
<1>5. CASE SourceChunk(src)
  <2>1. /\ source[src].active /\ source' = [source EXCEPT ![src].chunks = Offer(source[src].chunks, source[src].params, 1)]
    BY <1>5 DEF SourceChunk
  <2> DEFINE q == Offer(source[src].chunks, source[src].params, 1)
  <2>2. /\ q \in Seq(Formats \cup {NoFormat}) /\ Len(q) <= 1
        /\ AllIn(source[src].chunks, source[src].params) => AllIn(q, source[src].params)
    BY <1>3, OfferKeeps
  <2> HIDE DEF q
  <2>3. /\ \A s \in Sources : s # src => source'[s] = source[s]
        /\ source'[src].active = source[src].active /\ source'[src].params = source[src].params
        /\ source'[src].chunks = q
        /\ source' \in [Sources -> [active : BOOLEAN, params : Formats \cup {NoFormat},
                               chunks : Seq(Formats \cup {NoFormat})]]
    BY <1>1, <1>3, <2>1, <2>2 DEF AudioTyped, q
  <2>4. AudioTyped'
    BY <1>1, <1>3, <2>2, <2>3 DEF AudioTyped
  <2>5. SourcesHold'
    BY <1>1, <2>1, <2>2, <2>3 DEF SourcesHold
  <2>6. QED
    BY <1>2, <2>4, <2>5 DEF Apart
<1>6. CASE EndSource(src)
  <2>1. /\ source' = [source EXCEPT ![src].active = FALSE]
    BY <1>6 DEF EndSource
  <2>2. /\ \A s \in Sources : s # src => source'[s] = source[s]
        /\ source'[src].active = FALSE /\ source'[src].params = source[src].params
        /\ source'[src].chunks = source[src].chunks
        /\ source' \in [Sources -> [active : BOOLEAN, params : Formats \cup {NoFormat},
                               chunks : Seq(Formats \cup {NoFormat})]]
    BY <1>1, <1>3, <2>1 DEF AudioTyped
  <2>3. AudioTyped'
    BY <1>1, <1>3, <2>1, <2>2 DEF AudioTyped
  <2>4. SourcesHold'
    BY <1>1, <2>1, <2>2 DEF SourcesHold
  <2>5. QED
    BY <1>2, <2>3, <2>4 DEF Apart
<1>7. QED
  BY <1>4, <1>5, <1>6

\* A chunk taken from a source leaves its format behind.
LEMMA Taken ==
    ASSUME AudioTyped, SourcesHold, NEW src \in Sources, Take(src)
    PROVE  /\ Head(source[src].chunks) \in Formats \cup {NoFormat} /\ source[src].params \in Formats
           /\ ~reformatted => Head(source[src].chunks) = source[src].params
           /\ source' \in [Sources -> [active : BOOLEAN, params : Formats \cup {NoFormat},
                               chunks : Seq(Formats \cup {NoFormat})]]
           /\ \A s \in Sources : /\ source'[s].params = source[s].params /\ source'[s].active = source[s].active
                                 /\ source'[s].params \in FormatsOf(s) \cup {NoFormat}
                                 /\ Len(source'[s].chunks) <= 1
                                 /\ s # src => source'[s].chunks = source[s].chunks
                                 /\ ~reformatted => AllIn(source'[s].chunks, source'[s].params)
           /\ UNCHANGED reformatted
<1>1. /\ source[src] \in [active : BOOLEAN, params : Formats \cup {NoFormat}, chunks : Seq(Formats \cup {NoFormat})]
      /\ Len(source[src].chunks) <= 1 /\ source[src].chunks # <<>>
      /\ source' = [source EXCEPT ![src].chunks = Tail(source[src].chunks)] /\ UNCHANGED reformatted
  BY DEF AudioTyped, Take
<1> DEFINE q == Tail(source[src].chunks)
<1>2. /\ q \in Seq(Formats \cup {NoFormat}) /\ Len(q) <= 1 /\ Head(source[src].chunks) \in Formats \cup {NoFormat}
      /\ AllIn(source[src].chunks, source[src].params) =>
            AllIn(q, source[src].params) /\ Head(source[src].chunks) = source[src].params
  BY <1>1, TailAll
<1> HIDE DEF q
<1>3. source' = [source EXCEPT ![src].chunks = q]
  BY <1>1 DEF q
<1>4. /\ \A s \in Sources : s # src => source'[s] = source[s]
      /\ source'[src].active = source[src].active /\ source'[src].params = source[src].params
      /\ source'[src].chunks = q
      /\ source' \in [Sources -> [active : BOOLEAN, params : Formats \cup {NoFormat},
                             chunks : Seq(Formats \cup {NoFormat})]]
  BY <1>1, <1>2, <1>3 DEF AudioTyped
<1>5. source[src].params \in Formats
  BY <1>1 DEF SourcesHold
<1>6. \A s \in Sources : source[s].params \in FormatsOf(s) \cup {NoFormat} /\ Len(source[s].chunks) <= 1
  BY DEF AudioTyped
<1>7. ~reformatted => \A s \in Sources : AllIn(source[s].chunks, source[s].params)
  BY DEF SourcesHold
<1>8. QED
  BY <1>1, <1>2, <1>4, <1>5, <1>6, <1>7

\* What the mux passes on is in the format out is announced in.
LEMMA PassedOn ==
    ASSUME AudioIInv, NEW src \in Sources, Take(src), PassOn(src)
    PROVE  Apart'
<1>1. AudioTyped /\ SourcesHold /\ ListenersHold /\ SwitchesTyped
  BY DEF AudioIInv
<1> DEFINE c == Head(source[src].chunks)
           p == source[src].params
           changed == current # src /\ out.active /\ out.params # p
<1>2. /\ c \in Formats \cup {NoFormat} /\ p \in Formats /\ (~reformatted => c = p)
      /\ source' \in [Sources -> [active : BOOLEAN, params : Formats \cup {NoFormat},
                          chunks : Seq(Formats \cup {NoFormat})]]
      /\ \A s \in Sources : /\ source'[s].params = source[s].params /\ source'[s].active = source[s].active
                            /\ source'[s].params \in FormatsOf(s) \cup {NoFormat}
                            /\ Len(source'[s].chunks) <= 1
                            /\ s # src => source'[s].chunks = source[s].chunks
                            /\ ~reformatted => AllIn(source'[s].chunks, source'[s].params)
      /\ UNCHANGED reformatted
  BY <1>1, Taken
<1>3. /\ current' = src
      /\ listener' = [l \in Listeners |->
             IF changed THEN [listener[l] EXCEPT !.open = FALSE]
             ELSE IF listener[l].open THEN [listener[l] EXCEPT !.chunks = Offer(listener[l].chunks, c, 2)]
             ELSE listener[l]]
  BY DEF PassOn, Subscribed
<1>4. /\ current = src => UNCHANGED <<out, sure>>
      /\ current # src /\ ~out.active => SetParams(p)
      /\ changed => Restart(p)
      /\ current # src /\ out.active /\ ~changed => UNCHANGED <<out, sure>> /\ out.params = p
  BY DEF PassOn
<1> HIDE DEF c, p, changed
<1>5. /\ out' \in [active : BOOLEAN, params : Formats \cup {NoFormat}] /\ out'.active
      /\ ~reformatted => out'.params = p
  <2>1. out \in [active : BOOLEAN, params : Formats \cup {NoFormat}]
    BY <1>1 DEF AudioTyped
  <2>2. current = src => out.active /\ (~reformatted => out.params = p)
    BY <1>1, SourceNames DEF SourcesHold, p
  <2>3. CASE current = src
    BY <1>4, <2>1, <2>2, <2>3
  <2>4. CASE current # src
    <3>1. \/ out' = [active |-> TRUE, params |-> p]
          \/ out' = out /\ out.active /\ out.params = p
      BY <1>4, <2>4 DEF SetParams, Restart, changed
    <3>2. CASE out' = [active |-> TRUE, params |-> p]
      BY <1>2, <3>2
    <3>3. CASE out' = out /\ out.active /\ out.params = p
      BY <2>1, <3>3
    <3>4. QED
      BY <3>1, <3>2, <3>3
  <2>5. QED
    BY <2>3, <2>4
<1>6. \A l \in Listeners : sure'[l] => sure[l] /\ (~reformatted /\ ~changed => out.params = p)
  <2>1. SUFFICES ASSUME NEW l \in Listeners, sure'[l]
                 PROVE  sure[l] /\ (~reformatted /\ ~changed => out.params = p)
    OBVIOUS
  <2>2. CASE current = src
    <3>1. UNCHANGED sure
      BY <1>4, <2>2
    <3>2. ~reformatted => out.params = p
      BY <1>1, <2>2 DEF SourcesHold, p
    <3>3. QED
      BY <2>1, <3>1, <3>2, Zenon
  <2>3. CASE current # src /\ ~out.active
    <3>1. sure' = [k \in Listeners |-> sure[k] /\ p = out.params]
      BY <1>4, <2>3 DEF SetParams
    <3>2. QED
      BY <2>1, <3>1, Zenon
  <2>4. CASE current # src /\ out.active
    <3>1. UNCHANGED sure /\ (~changed => out.params = p)
      BY <1>4, <2>4 DEF Restart
    <3>2. QED
      BY <2>1, <3>1, Zenon
  <2>5. QED
    BY <2>2, <2>3, <2>4
<1>7. \A l \in Listeners :
        /\ listener'[l] \in [at : {"away", "accepted", "told", "playing"}, told : Formats \cup {NoFormat},
                             chunks : Seq(Formats \cup {NoFormat}), open : BOOLEAN]
        /\ listener'[l].at = listener[l].at /\ listener'[l].told = listener[l].told
        /\ listener'[l].open => listener[l].open /\ ~changed
        /\ \/ listener'[l].chunks = listener[l].chunks
           \/ /\ listener[l].open /\ ~changed
              /\ AllIn(listener[l].chunks, c) => AllIn(listener'[l].chunks, c)
  <2>1. SUFFICES ASSUME NEW l \in Listeners
        PROVE /\ listener'[l] \in [at : {"away", "accepted", "told", "playing"}, told : Formats \cup {NoFormat},
                                   chunks : Seq(Formats \cup {NoFormat}), open : BOOLEAN]
              /\ listener'[l].at = listener[l].at /\ listener'[l].told = listener[l].told
              /\ listener'[l].open => listener[l].open /\ ~changed
              /\ \/ listener'[l].chunks = listener[l].chunks
                 \/ /\ listener[l].open /\ ~changed
                    /\ AllIn(listener[l].chunks, c) => AllIn(listener'[l].chunks, c)
    OBVIOUS
  <2>2. listener[l] \in [at : {"away", "accepted", "told", "playing"}, told : Formats \cup {NoFormat},
                         chunks : Seq(Formats \cup {NoFormat}), open : BOOLEAN]
    BY <1>1 DEF AudioTyped
  <2>3. CASE changed
    BY <1>3, <2>2, <2>3
  <2>4. CASE ~changed /\ ~listener[l].open
    BY <1>3, <2>2, <2>4
  <2>5. CASE ~changed /\ listener[l].open
    <3> DEFINE q == Offer(listener[l].chunks, c, 2)
    <3>1. q \in Seq(Formats \cup {NoFormat}) /\ (AllIn(listener[l].chunks, c) => AllIn(q, c))
      BY <1>2, <2>2, OfferKeeps
    <3>2. listener'[l] = [listener[l] EXCEPT !.chunks = q]
      BY <1>3, <2>5
    <3> HIDE DEF q
    <3>3. QED
      BY <2>2, <2>5, <3>1, <3>2
  <2>6. QED
    BY <2>3, <2>4, <2>5
<1>8. AudioTyped'
  <2>1. DOMAIN listener' = Listeners /\ listener' = [l \in Listeners |-> listener'[l]]
    BY <1>3
  <2>2. listener' \in [Listeners -> [at : {"away", "accepted", "told", "playing"}, told : Formats \cup {NoFormat},
                                     chunks : Seq(Formats \cup {NoFormat}), open : BOOLEAN]]
    BY <1>7, <2>1
  <2>3. \A l \in Listeners : listener'[l].open \/ sure'[l] => listener'[l].at = "playing"
    BY <1>1, <1>6, <1>7 DEF AudioTyped
  <2>4. QED
    BY <1>2, <1>3, <1>5, <2>2, <2>3 DEF AudioTyped
<1>9. SourcesHold'
  <2>1. \A s \in Sources : source'[s].params = NoFormat =>
          ~source'[s].active /\ source'[s].chunks = <<>> /\ current' # s
    BY <1>1, <1>2, <1>3, AudioConstants DEF SourcesHold, p, Formats
  <2>2. QED
    BY <1>2, <1>3, <1>5, <2>1 DEF SourcesHold, p
<1>10. ListenersHold'
  <2>1. SUFFICES ASSUME ~reformatted, NEW l \in Listeners, sure'[l]
                 PROVE  /\ AllIn(listener'[l].chunks, listener'[l].told)
                        /\ listener'[l].open => listener'[l].told = out'.params
    BY <1>2 DEF ListenersHold
  <2>2. sure[l] /\ (~changed => out.params = p)
    BY <1>6, <2>1
  <2>3. AllIn(listener[l].chunks, listener[l].told) /\ (listener[l].open => listener[l].told = out.params)
    BY <1>1, <2>1, <2>2 DEF ListenersHold
  <2>4. QED
    BY <1>2, <1>5, <1>7, <2>1, <2>2, <2>3
<1>11. QED
  BY <1>8, <1>9, <1>10 DEF Apart

\* The mux's other steps.
LEMMA MuxKeeps ==
    ASSUME AudioIInv, MuxUSB \/ MuxHDMI \/ UsbHoldEnds \/ MuxTick
    PROVE  Apart'
<1>1. AudioTyped /\ SourcesHold /\ ListenersHold /\ SwitchesTyped
  BY DEF AudioIInv
<1>2. "usb" \in Sources /\ "hdmi" \in Sources
  BY DEF Sources
<1>3. CASE MuxUSB
  BY <1>2, <1>3, PassedOn DEF MuxUSB
<1>4. CASE MuxHDMI
  <2>1. CASE PassOn("hdmi")
    BY <1>2, <1>4, <2>1, PassedOn DEF MuxHDMI
  <2>2. CASE UNCHANGED <<current, out, sure, listener>>
    <3>1. Take("hdmi")
      BY <1>4 DEF MuxHDMI
    <3>2. AudioTyped'
      BY <1>1, <1>2, <2>2, <3>1, Taken DEF AudioTyped
    <3>3. SourcesHold'
      <4>1. /\ UNCHANGED reformatted /\ source["hdmi"].params # NoFormat
            /\ \A s \in Sources : /\ source'[s].params = source[s].params /\ source'[s].active = source[s].active
                                  /\ s # "hdmi" => source'[s].chunks = source[s].chunks
                                  /\ ~reformatted => AllIn(source'[s].chunks, source'[s].params)
        BY <1>1, <1>2, <3>1, Taken, AudioConstants DEF Formats
      <4>2. QED
        BY <1>1, <2>2, <4>1 DEF SourcesHold
    <3>4. ListenersHold'
      BY <1>1, <2>2, <3>1 DEF Take, ListenersHold
    <3>5. QED
      BY <3>2, <3>3, <3>4 DEF Apart
  <2>3. QED
    BY <1>4, <2>1, <2>2 DEF MuxHDMI
<1>5. CASE UsbHoldEnds
  BY <1>1, <1>5 DEF UsbHoldEnds, Apart, AudioTyped, SourcesHold, ListenersHold
<1>6. ASSUME NEW src \in Sources, ~out.active, source[src].active, SetParams(source[src].params),
             UNCHANGED <<source, current, listener, reformatted>>
      PROVE  Apart'
  <2>1. /\ out' = [active |-> TRUE, params |-> source[src].params]
        /\ sure' = [l \in Listeners |-> sure[l] /\ source[src].params = out.params]
    BY <1>6 DEF SetParams
  <2>2. source[src].params \in Formats \cup {NoFormat}
    BY <1>1 DEF AudioTyped
  <2>3. \A l \in Listeners : sure'[l] => sure[l] /\ out'.params = out.params
    <3>1. \A l \in Listeners : sure'[l] => sure[l] /\ source[src].params = out.params
      BY <2>1, Zenon
    <3>2. QED
      BY <2>1, <3>1
  <2>4. AudioTyped'
    BY <1>1, <1>6, <2>1, <2>2, <2>3 DEF AudioTyped
  <2>5. current = NoSource /\ current \notin Sources
    BY <1>1, <1>6, SourceNames DEF SourcesHold
  <2>6. SourcesHold'
    BY <1>1, <1>6, <2>1, <2>5 DEF SourcesHold
  <2>7. ListenersHold'
    BY <1>1, <1>6, <2>1, <2>3 DEF ListenersHold
  <2>8. QED
    BY <2>4, <2>6, <2>7 DEF Apart
<1>7. CASE MuxTick
  <2>1. CASE /\ out' = [out EXCEPT !.active = FALSE] /\ current' = NoSource /\ UNCHANGED sure
             /\ UNCHANGED <<source, usbHeld, listener, reformatted>>
    <3>1. out' \in [active : BOOLEAN, params : Formats \cup {NoFormat}] /\ out'.params = out.params
      BY <1>1, <2>1 DEF AudioTyped
    <3>2. AudioTyped'
      BY <1>1, <2>1, <3>1 DEF AudioTyped
    <3>3. SourcesHold'
      BY <1>1, <2>1, <3>1, SourceNames DEF SourcesHold
    <3>4. ListenersHold'
      BY <1>1, <2>1, <3>1 DEF ListenersHold
    <3>5. QED
      BY <3>2, <3>3, <3>4 DEF Apart
  <2>2. QED
    BY <1>2, <1>6, <1>7, <2>1 DEF MuxTick
<1>8. QED
  BY <1>3, <1>4, <1>5, <1>7

LEMMA ListenersKeep ==
    ASSUME AudioIInv, NEW l \in Listeners,
           Connect(l) \/ ReadParams(l) \/ Subscribe(l) \/ Receive(l) \/ LeaveAudio(l)
    PROVE  Apart'
<1>1. AudioTyped /\ SourcesHold /\ ListenersHold /\ SwitchesTyped
  BY DEF AudioIInv
<1>2. UNCHANGED <<source, usbHeld, current, out, reformatted>>
  BY DEF Connect, ReadParams, Subscribe, Receive, LeaveAudio
<1> DEFINE Typed == [at : {"away", "accepted", "told", "playing"}, told : Formats \cup {NoFormat},
                     chunks : Seq(Formats \cup {NoFormat}), open : BOOLEAN]
<1>3. listener \in [Listeners -> Typed] /\ listener[l] \in Typed /\ out.params \in Formats \cup {NoFormat}
  BY <1>1 DEF AudioTyped
<1>4. SourcesHold'
  BY <1>1, <1>2 DEF SourcesHold
<1>5. SUFFICES ASSUME NEW r \in Typed, listener' = [listener EXCEPT ![l] = r],
                      \A k \in Listeners : k # l => sure'[k] = sure[k],
                      r.open \/ sure'[l] => r.at = "playing",
                      ~reformatted /\ sure'[l] => AllIn(r.chunks, r.told) /\ (r.open => r.told = out.params)
               PROVE  Apart'
  <2>1. CASE Connect(l)
    <3> DEFINE r == [listener[l] EXCEPT !.at = "accepted"]
    <3>1. listener' = [listener EXCEPT ![l] = r] /\ listener[l].at = "away" /\ UNCHANGED sure
      BY <2>1 DEF Connect
    <3>2. r \in Typed /\ r.at = "accepted" /\ r.open = listener[l].open
      BY <1>3
    <3>3. ~r.open /\ ~sure'[l]
      BY <1>1, <3>1, <3>2 DEF AudioTyped
    <3>4. QED
      BY <1>5, <3>1, <3>2, <3>3
  <2>2. CASE ReadParams(l)
    <3> DEFINE r == [listener[l] EXCEPT !.at = "told", !.told = out.params]
    <3>1. listener' = [listener EXCEPT ![l] = r] /\ listener[l].at = "accepted" /\ UNCHANGED sure
      BY <1>3, <2>2 DEF ReadParams
    <3>2. r \in Typed /\ r.at = "told" /\ r.open = listener[l].open
      BY <1>3
    <3>3. ~r.open /\ ~sure'[l]
      BY <1>1, <3>1, <3>2 DEF AudioTyped
    <3>4. QED
      BY <1>5, <3>1, <3>2, <3>3
  <2>3. CASE Subscribe(l)
    <3> DEFINE r == [listener[l] EXCEPT !.at = "playing", !.open = TRUE, !.chunks = <<>>]
    <3>1. /\ listener' = [listener EXCEPT ![l] = r]
          /\ sure' = [sure EXCEPT ![l] = listener[l].told = out.params]
      BY <1>3, <2>3 DEF Subscribe
    <3>2. r \in Typed /\ r.at = "playing" /\ r.chunks = <<>> /\ r.told = listener[l].told
      <4>1. <<>> \in Seq(Formats \cup {NoFormat})
        OBVIOUS
      <4> DEFINE none == <<>>
      <4> HIDE DEF none
      <4>2. none \in Seq(Formats \cup {NoFormat})
        BY <4>1 DEF none
      <4>3. r = [listener[l] EXCEPT !.at = "playing", !.open = TRUE, !.chunks = none]
        BY DEF none
      <4>4. r \in Typed /\ r.at = "playing" /\ r.chunks = none /\ r.told = listener[l].told
        BY <1>3, <4>2, <4>3
      <4>5. QED
        BY <4>4 DEF none
    <3>3. sure'[l] => r.told = out.params
      <4>1. sure'[l] => listener[l].told = out.params
        BY <1>1, <3>1, Zenon DEF SwitchesTyped
      <4>2. QED
        BY <3>2, <4>1
    <3>4. \A k \in Listeners : k # l => sure'[k] = sure[k]
      BY <1>1, <3>1, Zenon DEF SwitchesTyped
    <3> HIDE DEF r
    <3>5. QED
      BY <1>5, <3>1, <3>2, <3>3, <3>4, EmptyAll
  <2>4. CASE Receive(l)
    <3> DEFINE q == Tail(listener[l].chunks)
               r == [listener[l] EXCEPT !.chunks = q]
    <3>1. /\ listener' = [listener EXCEPT ![l] = r] /\ listener[l].chunks # <<>> /\ UNCHANGED sure
      BY <1>3, <2>4 DEF Receive
    <3>2. /\ q \in Seq(Formats \cup {NoFormat})
          /\ AllIn(listener[l].chunks, listener[l].told) => AllIn(q, listener[l].told)
      BY <1>3, <3>1, TailAll
    <3> HIDE DEF q
    <3>3. r \in Typed /\ r.at = listener[l].at /\ r.chunks = q /\ r.told = listener[l].told /\ r.open = listener[l].open
      BY <1>3, <3>2
    <3>4. r.open \/ sure'[l] => r.at = "playing"
      BY <1>1, <3>1, <3>3 DEF AudioTyped
    <3>5. ~reformatted /\ sure'[l] => AllIn(r.chunks, r.told) /\ (r.open => r.told = out.params)
      BY <1>1, <3>1, <3>2, <3>3 DEF ListenersHold
    <3> HIDE DEF r
    <3>6. QED
      BY <1>5, <3>1, <3>3, <3>4, <3>5
  <2>5. CASE LeaveAudio(l)
    <3>1. /\ listener' = [listener EXCEPT ![l] = Away] /\ sure' = [sure EXCEPT ![l] = FALSE]
      BY <2>5 DEF LeaveAudio
    <3>2. Away \in Typed /\ ~Away.open
      BY DEF Away
    <3>3. ~sure'[l] /\ \A k \in Listeners : k # l => sure'[k] = sure[k]
      BY <1>1, <3>1, Zenon DEF SwitchesTyped
    <3>4. QED
      BY <1>5, <3>1, <3>2, <3>3
  <2>6. QED
    BY <2>1, <2>2, <2>3, <2>4, <2>5
<1>6. /\ listener' \in [Listeners -> Typed] /\ listener'[l] = r
      /\ \A k \in Listeners : k # l => listener'[k] = listener[k]
  BY <1>3, <1>5
<1>7. AudioTyped'
  <2>1. \A k \in Listeners : listener'[k].open \/ sure'[k] => listener'[k].at = "playing"
    BY <1>1, <1>5, <1>6 DEF AudioTyped
  <2>2. QED
    BY <1>1, <1>2, <1>6, <2>1 DEF AudioTyped
<1>8. ListenersHold'
  BY <1>1, <1>2, <1>5, <1>6 DEF ListenersHold
<1>9. QED
  BY <1>4, <1>7, <1>8 DEF Apart

LEMMA AudioStep == AudioIInv /\ [AudioNext]_audioVars => AudioIInv'
<1>1. SUFFICES ASSUME AudioIInv, [AudioNext]_audioVars PROVE Apart'
  BY SwitchesStep DEF AudioIInv, Apart
<1>2. CASE UNCHANGED audioVars
  BY <1>1, <1>2 DEF AudioIInv, Apart, audioVars, AudioTyped, SourcesHold, ListenersHold
<1>3. CASE AudioNext
  BY <1>1, <1>3, SourcesKeep, MuxKeeps, ListenersKeep DEF AudioNext
<1>4. QED
  BY <1>1, <1>2, <1>3

LEMMA AudioInvariant == AudioSpec => []AudioIInv
  BY AudioInitiates, AudioStep, PTL DEF AudioSpec

\* A listener gets chunks in the format it was told, for any set of listeners
\* and of formats the dongle may offer.
THEOREM ToldBeforeItPlays == AudioSpec => []DecodesAsTold
<1>1. AudioIInv => DecodesAsTold
  BY DEF AudioIInv, ListenersHold, AllIn, DecodesAsTold
<1>2. QED
  BY <1>1, AudioInvariant, PTL

\* Sources, mux and listeners keep to their types.
THEOREM AudioIsTyped == AudioSpec => []AudioTypeOK
<1>1. AudioTyped /\ SwitchesTyped => AudioTypeOK
  <2>1. SwitchesTyped => usbHeld \in BOOLEAN /\ reformatted \in BOOLEAN /\ sure \in [Listeners -> BOOLEAN]
    BY DEF SwitchesTyped
  <2>2. SUFFICES ASSUME AudioTyped
        PROVE  /\ \A s \in Sources : /\ source[s].active \in BOOLEAN
                                     /\ source[s].params \in FormatsOf(s) \cup {NoFormat}
                                     /\ Len(source[s].chunks) <= 1
               /\ current \in Sources \cup {NoSource}
               /\ out \in [active : BOOLEAN, params : {UsbFormat, NoFormat} \cup HdmiFormats]
               /\ \A l \in Listeners :
                     /\ listener[l].at \in {"away", "accepted", "told", "playing"}
                     /\ listener[l].told \in {UsbFormat, NoFormat} \cup HdmiFormats
                     /\ listener[l].open => listener[l].at = "playing"
    BY <2>1, Zenon DEF AudioTypeOK
  <2>3. \A s \in Sources : source[s].active \in BOOLEAN
    BY <2>2 DEF AudioTyped
  <2>4. \A l \in Listeners :
          /\ listener[l].at \in {"away", "accepted", "told", "playing"}
          /\ listener[l].told \in {UsbFormat, NoFormat} \cup HdmiFormats
          /\ listener[l].open => listener[l].at = "playing"
    BY <2>2 DEF AudioTyped, Formats
  <2>5. out \in [active : BOOLEAN, params : {UsbFormat, NoFormat} \cup HdmiFormats]
    BY <2>2 DEF AudioTyped, Formats
  <2>6. QED
    BY <2>2, <2>3, <2>4, <2>5 DEF AudioTyped
<1>2. QED
  BY <1>1, AudioInvariant, PTL DEF AudioIInv

-----------------------------------------------------------------------------
(* GadgetMic: no frame is heard late.                                        *)

QueueTyped == queue \in Seq(0..Ancient) /\ Len(queue) <= MaxQueue

MicTyped ==
    /\ lastTaken \in 0..Ancient /\ opened \in 0..Ancient /\ silent \in 0..Ancient /\ delay \in 0..MaxDelay
    /\ stream \in {"closed", "open", "waiting", "ended"}

MicFlags == /\ playing \in BOOLEAN /\ pending \in BOOLEAN /\ due \in BOOLEAN
            /\ recording \in BOOLEAN /\ device \in BOOLEAN /\ ended \in BOOLEAN

\* While the stream is open, nothing is taken without being written, so the
\* Wait that times out finds what was taken last as old as the silence.
TakenWhen == stream = "open" => lastTaken >= silent \/ lastTaken >= opened

\* No piece is older than a.
NoneOlder(a) == \A i \in 1..Len(queue) : queue[i] <= a

\* Once the phone has taken nothing for StaleAfter, every Wait that times out
\* empties the queue: before the next one is due it holds only what came since.
OldGone ==
    Pumping /\ silent > StaleAfter /\ opened > StaleAfter =>
        /\ ~due => NoneOlder(0)
        /\ silent > StaleAfter + 1 /\ opened > StaleAfter + 1 => NoneOlder(1)

MicIInv == QueueTyped /\ MicTyped /\ MicFlags /\ TakenWhen /\ OldGone

LEMMA Bounds ==
    /\ Prefill \in Nat /\ MaxQueue \in Nat /\ StaleAfter \in Nat /\ MaxDelay \in Nat
    /\ Prefill > 0 /\ MaxQueue > 0 /\ StaleAfter > 0 /\ MaxDelay > 0
    /\ Ancient = StaleAfter + 2 /\ Ancient \in Nat
  BY MicConstants DEF Ancient

LEMMA Ageing ==
    ASSUME NEW t \in 0..Ancient
    PROVE  /\ Aged(t) \in 0..Ancient /\ Aged(t) <= t + 1 /\ Aged(t) >= t
           /\ Aged(t) = IF t < Ancient THEN t + 1 ELSE t
  BY Bounds DEF Aged

LEMMA MicInitiates == MicInit => MicIInv
<1>1. MicInit => QueueTyped /\ MicTyped
  BY Bounds DEF MicInit, QueueTyped, MicTyped
<1>2. MicInit => MicFlags
  BY Zenon DEF MicInit, MicFlags
<1>3. MicInit => TakenWhen /\ OldGone
  BY DEF MicInit, TakenWhen, OldGone, Pumping
<1>4. QED
  BY <1>1, <1>2, <1>3 DEF MicIInv

LEMMA FlagsKept == MicFlags /\ [MicNext]_micVars => MicFlags'
  BY Zenon DEF MicFlags, MicNext, micVars, queueVars, streamVars, worldVars, WriteMic, WaitTimesOut, WritePeriod, PumpFails,
        OpenStream, DelayOver, KeepOpenEnds, MicShutdown, PhoneRecords, CardComesOrGoes, MicTick, take, idle, Pumping, RetryOpen

\* What is left of a sequence without its first pieces.
LEMMA AfterTheFirst ==
    ASSUME NEW S, NEW q \in Seq(S), NEW n \in Nat, n <= Len(q)
    PROVE  LET r == SubSeq(q, n + 1, Len(q))
           IN  r \in Seq(S) /\ Len(r) = Len(q) - n /\ \A i \in 1..Len(r) : i + n \in 1..Len(q) /\ r[i] = q[i + n]
<1> DEFINE r == SubSeq(q, n + 1, Len(q))
<1>1. Len(q) \in Nat /\ n + 1 \in 1..Len(q) + 1 /\ Len(q) \in (n + 1) - 1..Len(q)
  OBVIOUS
<1>2. /\ r \in Seq(S) /\ Len(r) = Len(q) - (n + 1) + 1
      /\ \A i \in 1..Len(q) - (n + 1) + 1 : r[i] = q[n + 1 + i - 1]
  BY <1>1, SubSeqProperties
<1> HIDE DEF r
<1>3. Len(r) = Len(q) - n
  BY <1>1, <1>2
<1>4. ASSUME NEW i \in 1..Len(r) PROVE i + n \in 1..Len(q) /\ r[i] = q[i + n]
  <2>1. i \in 1..Len(q) - (n + 1) + 1 /\ n + 1 + i - 1 = i + n
    BY <1>1, <1>3, <1>4
  <2>2. r[i] = q[i + n]
    BY <1>2, <2>1
  <2>3. i + n \in 1..Len(q)
    BY <1>1, <1>3, <1>4
  <2>4. QED
    BY <2>2, <2>3
<1>5. QED
  BY <1>2, <1>3, <1>4 DEF r

LEMMA RestOfQueue ==
    ASSUME NEW q \in Seq(0..Ancient), NEW n \in Nat, n <= Len(q), NEW a \in Nat, \A i \in 1..Len(q) : q[i] <= a
    PROVE  \A i \in 1..Len(SubSeq(q, n + 1, Len(q))) : SubSeq(q, n + 1, Len(q))[i] <= a
<1> DEFINE r == SubSeq(q, n + 1, Len(q))
<1>1. Len(r) = Len(q) - n /\ \A i \in 1..Len(r) : i + n \in 1..Len(q) /\ r[i] = q[i + n]
  BY AfterTheFirst
<1> HIDE DEF r
<1>2. \A i \in 1..Len(r) : r[i] <= a
  BY <1>1
<1>3. QED
  BY <1>2 DEF r

\* The newest of what a sequence held and what is new.
LEMMA Queued ==
    ASSUME queue \in Seq(0..Ancient), Len(queue) <= MaxQueue, WriteMic
    PROVE  /\ queue' \in Seq(0..Ancient) /\ Len(queue') <= MaxQueue
           /\ \A a \in Nat : NoneOlder(a) => NoneOlder(a)'
<1>1. PICK n \in 1..MaxQueue + 1 :
         LET all == queue \o [i \in 1..n |-> 0]
             excess == Len(all) - MaxQueue
         IN  queue' = IF excess > 0 THEN SubSeq(all, excess + 1, Len(all)) ELSE all
  BY DEF WriteMic
<1> DEFINE new == [i \in 1..n |-> 0]
           all == queue \o new
           excess == Len(all) - MaxQueue
<1>2. n \in Nat /\ 0 \in 0..Ancient
  BY <1>1, Bounds
<1>3. new \in Seq(0..Ancient) /\ Len(new) = n /\ \A i \in 1..n : new[i] = 0
  BY <1>2
<1> HIDE DEF new
<1>4. /\ all \in Seq(0..Ancient) /\ Len(all) = Len(queue) + n
      /\ \A i \in 1..Len(all) : all[i] = IF i <= Len(queue) THEN queue[i] ELSE new[i - Len(queue)]
  BY <1>2, <1>3
<1>5. queue' = IF excess > 0 THEN SubSeq(all, excess + 1, Len(all)) ELSE all
  BY <1>1 DEF new
<1>6. ASSUME NEW a \in Nat, NoneOlder(a), NEW i \in 1..Len(all) PROVE all[i] <= a
  <2>1. Len(queue) \in Nat /\ i \in Nat /\ i <= Len(queue) + n
    BY <1>2, <1>4, <1>6
  <2>2. CASE i <= Len(queue)
    BY <1>4, <1>6, <2>1, <2>2 DEF NoneOlder
  <2>3. CASE ~(i <= Len(queue))
    <3>1. i - Len(queue) \in 1..n
      BY <1>2, <1>6, <2>1, <2>3
    <3>2. all[i] = 0
      BY <1>3, <1>4, <1>6, <2>3, <3>1
    <3>3. QED
      BY <1>6, <3>2
  <2>4. QED
    BY <2>2, <2>3
<1> HIDE DEF all
<1>7. Len(all) \in Nat /\ MaxQueue \in Nat /\ MaxQueue > 0
  BY <1>4, Bounds
<1>8. CASE excess > 0
  <2>1. queue' = SubSeq(all, excess + 1, Len(all))
    BY <1>5, <1>8
  <2>2. excess \in Nat /\ excess <= Len(all)
    BY <1>7, <1>8
  <2>3. queue' \in Seq(0..Ancient) /\ Len(queue') = Len(all) - excess
    BY <1>4, <2>1, <2>2, AfterTheFirst
  <2>4. ASSUME NEW a \in Nat, NoneOlder(a) PROVE NoneOlder(a)'
    <3>1. \A i \in 1..Len(all) : all[i] <= a
      BY <1>6, <2>4
    <3>2. QED
      BY <1>4, <2>1, <2>2, <3>1, RestOfQueue DEF NoneOlder
  <2>5. Len(queue') <= MaxQueue
    BY <1>7, <2>3
  <2>6. QED
    BY <2>3, <2>4, <2>5
<1>9. CASE ~(excess > 0)
  <2>1. queue' = all /\ Len(all) <= MaxQueue
    BY <1>5, <1>7, <1>9
  <2>2. QED
    BY <1>4, <1>6, <2>1 DEF NoneOlder
<1>10. QED
  BY <1>8, <1>9

\* What each step does to the queue, and to the clocks.
LEMMA QueueSteps ==
    /\ WritePeriod => \/ queue' = queue
                      \/ \E n \in {0, 1} : (queue # <<>> \/ n = 0) /\ queue' = SubSeq(queue, n + 1, Len(queue))
    /\ WaitTimesOut => queue' = queue \/ queue' = <<>>
    /\ ~WriteMic /\ ~WritePeriod /\ ~WaitTimesOut /\ ~MicTick /\ [MicNext]_micVars => queue' = queue
<1>1. WritePeriod => \/ queue' = queue
                      \/ \E n \in {0, 1} : (queue # <<>> \/ n = 0) /\ queue' = SubSeq(queue, n + 1, Len(queue))
  <2>1. SUFFICES ASSUME WritePeriod, ~pending
                 PROVE  \E n \in {0, 1} : (queue # <<>> \/ n = 0) /\ queue' = SubSeq(queue, n + 1, Len(queue))
    BY DEF WritePeriod
  <2> DEFINE play == playing \/ Len(queue) >= Prefill
             got == IF play /\ queue # <<>> THEN 1 ELSE 0
  <2>2. queue' = SubSeq(queue, got + 1, Len(queue))
    BY <2>1 DEF WritePeriod, take
  <2>3. got \in {0, 1} /\ (queue # <<>> \/ got = 0)
    OBVIOUS
  <2> HIDE DEF got
  <2>4. QED
    BY <2>2, <2>3
<1>2. WaitTimesOut => queue' = queue \/ queue' = <<>>
  BY DEF WaitTimesOut, idle
<1>3. ~WriteMic /\ ~WritePeriod /\ ~WaitTimesOut /\ ~MicTick /\ [MicNext]_micVars => queue' = queue
  BY DEF MicNext, PumpFails, OpenStream, DelayOver, KeepOpenEnds, MicShutdown, PhoneRecords, CardComesOrGoes, micVars, queueVars
<1>4. QED
  BY <1>1, <1>2, <1>3

LEMMA Pieces ==
    ASSUME NEW S, NEW q \in Seq(S)
    PROVE  DOMAIN q = 1..Len(q) /\ Len(q) \in Nat /\ \A i \in 1..Len(q) : q[i] \in S
  OBVIOUS

LEMMA Ticked ==
    ASSUME QueueTyped, MicTick
    PROVE  /\ queue' \in Seq(0..Ancient) /\ Len(queue') = Len(queue)
           /\ \A i \in 1..Len(queue') : queue[i] \in 0..Ancient /\ queue'[i] = Aged(queue[i])
<1>0. queue \in Seq(0..Ancient)
  BY DEF QueueTyped
<1>1. DOMAIN queue = 1..Len(queue) /\ Len(queue) \in Nat /\ \A i \in 1..Len(queue) : queue[i] \in 0..Ancient
  BY <1>0, Pieces
<1>2. queue' = [i \in 1..Len(queue) |-> Aged(queue[i])]
  BY <1>1 DEF MicTick
<1>3. \A i \in 1..Len(queue) : Aged(queue[i]) \in 0..Ancient
  BY <1>1, Ageing
<1>4. QED
  BY <1>1, <1>2, <1>3

LEMMA QueueStep == QueueTyped /\ [MicNext]_micVars => QueueTyped'
<1>1. SUFFICES ASSUME QueueTyped, [MicNext]_micVars PROVE QueueTyped'
  OBVIOUS
<1>2. CASE WriteMic
  BY <1>1, <1>2, Queued DEF QueueTyped
<1>3. CASE WritePeriod
  <2>1. CASE queue' = queue
    BY <1>1, <2>1 DEF QueueTyped
  <2>2. ASSUME NEW n \in {0, 1}, queue # <<>> \/ n = 0, queue' = SubSeq(queue, n + 1, Len(queue)) PROVE QueueTyped'
    <3>1. n \in Nat /\ n <= Len(queue) /\ Len(queue) \in Nat /\ MaxQueue \in Nat
      BY <1>1, <2>2, Bounds DEF QueueTyped
    <3>2. queue' \in Seq(0..Ancient) /\ Len(queue') = Len(queue) - n
      BY <1>1, <2>2, <3>1, AfterTheFirst DEF QueueTyped
    <3>3. QED
      BY <1>1, <3>1, <3>2 DEF QueueTyped
  <2>3. QED
    BY <1>3, <2>1, <2>2, QueueSteps
<1>4. CASE WaitTimesOut
  <2>1. <<>> \in Seq(0..Ancient) /\ Len(<<>>) = 0
    OBVIOUS
  <2>2. CASE queue' = <<>>
    BY <2>1, <2>2, Bounds DEF QueueTyped
  <2>3. QED
    BY <1>1, <1>4, <2>2, QueueSteps DEF QueueTyped
<1>5. CASE MicTick
  BY <1>1, <1>5, Ticked DEF QueueTyped
<1>6. QED
  BY <1>1, <1>2, <1>3, <1>4, <1>5, QueueSteps DEF QueueTyped

LEMMA ClockSteps ==
    /\ WriteMic \/ WaitTimesOut \/ DelayOver \/ MicShutdown \/ PhoneRecords \/ CardComesOrGoes \/ UNCHANGED micVars =>
          UNCHANGED <<lastTaken, opened, silent, delay>>
    /\ DelayOver => stream' = "closed"
    /\ KeepOpenEnds => UNCHANGED <<lastTaken, opened, silent, delay>> /\ stream' = "ended"
    /\ WriteMic \/ WaitTimesOut \/ WritePeriod \/ MicShutdown \/ PhoneRecords \/ CardComesOrGoes \/ MicTick \/ UNCHANGED micVars =>
          UNCHANGED stream
    /\ WritePeriod => lastTaken' \in {0, lastTaken} /\ silent' = 0 /\ UNCHANGED <<opened, delay>>
    /\ PumpFails => UNCHANGED <<lastTaken, opened, silent>> /\ stream' \in {"closed", "waiting"}
                    /\ (delay' \in {0, delay} \/ (delay < MaxDelay /\ delay' = delay + 1))
    /\ OpenStream => /\ silent' = silent
                     /\ \/ UNCHANGED <<lastTaken, opened>> /\ stream' = "waiting"
                        \/ lastTaken' = 0 /\ opened' = 0 /\ stream' = "open"
                     /\ (delay' = delay \/ (delay < MaxDelay /\ delay' = delay + 1))
    /\ MicTick => lastTaken' = Aged(lastTaken) /\ opened' = Aged(opened) /\ silent' = Aged(silent) /\ delay' = delay
<1> USE DEF queueVars, streamVars
<1>1. WriteMic \/ WaitTimesOut \/ DelayOver \/ MicShutdown \/ PhoneRecords \/ CardComesOrGoes \/ UNCHANGED micVars =>
          UNCHANGED <<lastTaken, opened, silent, delay>>
  BY DEF WriteMic, WaitTimesOut, idle, DelayOver, MicShutdown, PhoneRecords, CardComesOrGoes, micVars
<1>2. KeepOpenEnds => UNCHANGED <<lastTaken, opened, silent, delay>> /\ stream' = "ended"
  BY DEF KeepOpenEnds
<1>3. WriteMic \/ WaitTimesOut \/ WritePeriod \/ MicShutdown \/ PhoneRecords \/ CardComesOrGoes \/ MicTick \/ UNCHANGED micVars =>
          UNCHANGED stream
  BY DEF WriteMic, WaitTimesOut, WritePeriod, MicShutdown, PhoneRecords, CardComesOrGoes, MicTick, micVars
<1>4. WritePeriod => lastTaken' \in {0, lastTaken} /\ silent' = 0 /\ UNCHANGED <<opened, delay>>
  BY DEF WritePeriod, take
<1>5. PumpFails => UNCHANGED <<lastTaken, opened, silent>> /\ stream' \in {"closed", "waiting"}
                    /\ (delay' \in {0, delay} \/ (delay < MaxDelay /\ delay' = delay + 1))
  BY DEF PumpFails, RetryOpen
<1>6. OpenStream => /\ silent' = silent
                    /\ \/ UNCHANGED <<lastTaken, opened>> /\ stream' = "waiting"
                       \/ lastTaken' = 0 /\ opened' = 0 /\ stream' = "open"
                    /\ (delay' = delay \/ (delay < MaxDelay /\ delay' = delay + 1))
  BY DEF OpenStream, RetryOpen
<1>7. MicTick => lastTaken' = Aged(lastTaken) /\ opened' = Aged(opened) /\ silent' = Aged(silent) /\ delay' = delay
  BY DEF MicTick
<1>8. DelayOver => stream' = "closed"
  BY DEF DelayOver
<1>9. QED
  BY <1>1, <1>2, <1>3, <1>4, <1>5, <1>6, <1>7, <1>8, Zenon

LEMMA ClocksStep == MicTyped /\ [MicNext]_micVars => MicTyped'
<1>1. SUFFICES ASSUME MicTyped, [MicNext]_micVars PROVE MicTyped'
  OBVIOUS
<1>2. MaxDelay \in Nat /\ Ancient \in Nat
  BY Bounds
<1>3. CASE WriteMic \/ WaitTimesOut \/ DelayOver \/ MicShutdown \/ PhoneRecords \/ CardComesOrGoes \/ UNCHANGED micVars \/ KeepOpenEnds
  <2>1. /\ UNCHANGED <<lastTaken, opened, silent, delay>>
        /\ stream' \in {stream, "closed", "ended"}
    BY <1>3, ClockSteps
  <2>2. QED
    BY <1>1, <2>1 DEF MicTyped
<1>4. CASE WritePeriod
  <2>1. lastTaken' \in {0, lastTaken} /\ silent' = 0 /\ UNCHANGED <<opened, delay, stream>>
    BY <1>4, ClockSteps
  <2>2. QED
    BY <1>1, <1>2, <2>1 DEF MicTyped
<1>5. CASE PumpFails
  <2>1. /\ UNCHANGED <<lastTaken, opened, silent>> /\ stream' \in {"closed", "waiting"}
        /\ delay' \in {0, delay} \/ (delay < MaxDelay /\ delay' = delay + 1)
    BY <1>5, ClockSteps
  <2>2. QED
    BY <1>1, <1>2, <2>1 DEF MicTyped
<1>6. CASE OpenStream
  <2>1. /\ silent' = silent /\ lastTaken' \in {0, lastTaken} /\ opened' \in {0, opened} /\ stream' \in {"open", "waiting"}
        /\ delay' = delay \/ (delay < MaxDelay /\ delay' = delay + 1)
    BY <1>6, ClockSteps
  <2>2. QED
    BY <1>1, <1>2, <2>1 DEF MicTyped
<1>7. CASE MicTick
  <2>1. lastTaken' = Aged(lastTaken) /\ opened' = Aged(opened) /\ silent' = Aged(silent) /\ delay' = delay /\ stream' = stream
    BY <1>7, ClockSteps
  <2>2. QED
    BY <1>1, <2>1, Ageing DEF MicTyped
<1>8. QED
  BY <1>1, <1>3, <1>4, <1>5, <1>6, <1>7 DEF MicNext

LEMMA TakenStep == MicTyped /\ TakenWhen /\ [MicNext]_micVars => TakenWhen'
<1>1. SUFFICES ASSUME MicTyped, TakenWhen, [MicNext]_micVars PROVE TakenWhen'
  OBVIOUS
<1>2. MaxDelay \in Nat /\ Ancient \in Nat
  BY Bounds
<1>3. CASE WriteMic \/ WaitTimesOut \/ DelayOver \/ MicShutdown \/ PhoneRecords \/ CardComesOrGoes \/ UNCHANGED micVars \/ KeepOpenEnds
  <2>1. /\ UNCHANGED <<lastTaken, opened, silent>>
        /\ stream' \in {stream, "closed", "ended"}
    BY <1>3, ClockSteps
  <2>2. QED
    BY <1>1, <2>1 DEF TakenWhen
<1>4. CASE WritePeriod
  <2>1. lastTaken' \in {0, lastTaken} /\ silent' = 0
    BY <1>4, ClockSteps
  <2>2. QED
    BY <1>1, <1>2, <2>1 DEF MicTyped, TakenWhen
<1>5. CASE PumpFails
  BY <1>5, ClockSteps DEF TakenWhen
<1>6. CASE OpenStream
  <2>1. stream' = "waiting" \/ (lastTaken' = 0 /\ opened' = 0)
    BY <1>6, ClockSteps
  <2>2. QED
    BY <2>1 DEF TakenWhen
<1>7. CASE MicTick
  <2>1. lastTaken' = Aged(lastTaken) /\ opened' = Aged(opened) /\ silent' = Aged(silent) /\ stream' = stream
    BY <1>7, ClockSteps
  <2>2. \A t \in 0..Ancient : Aged(t) = IF t < Ancient THEN t + 1 ELSE t
    BY Ageing
  <2>3. QED
    BY <1>1, <1>2, <2>1, <2>2 DEF MicTyped, TakenWhen
<1>8. QED
  BY <1>1, <1>3, <1>4, <1>5, <1>6, <1>7 DEF MicNext

\* Whether pump runs, and what due is, after each step that leaves them.
LEMMA PumpSteps ==
    /\ Pumping' /\ ~OpenStream /\ [MicNext]_micVars => Pumping
    /\ WritePeriod => silent' = 0
    /\ WaitTimesOut => Pumping /\ ~due'
    /\ WriteMic \/ MicShutdown \/ PhoneRecords \/ CardComesOrGoes \/ UNCHANGED micVars => due' = due
    /\ PumpFails \/ DelayOver \/ KeepOpenEnds => ~Pumping'
    /\ MicTick => ~due /\ due' = Pumping
<1> USE DEF queueVars, streamVars
<1>1. Pumping' /\ ~OpenStream /\ [MicNext]_micVars => Pumping
  <2>1. SUFFICES ASSUME ~OpenStream, [MicNext]_micVars, stream' = "open", ~ended' PROVE stream = "open" /\ ~ended
    BY DEF Pumping
  <2>2. ~ended
    BY <2>1, Zenon DEF MicNext, micVars, WriteMic, WaitTimesOut, WritePeriod, PumpFails, OpenStream, DelayOver,
          KeepOpenEnds, MicShutdown, PhoneRecords, CardComesOrGoes, MicTick
  <2>3. stream = "open"
    BY <2>1, ClockSteps DEF MicNext
  <2>4. QED
    BY <2>2, <2>3
<1>2. WritePeriod => silent' = 0
  BY DEF WritePeriod
<1>3. WaitTimesOut => Pumping /\ ~due'
  BY DEF WaitTimesOut
<1>4. WriteMic \/ MicShutdown \/ PhoneRecords \/ CardComesOrGoes \/ UNCHANGED micVars => due' = due
  BY DEF WriteMic, MicShutdown, PhoneRecords, CardComesOrGoes, micVars
<1>5. PumpFails \/ DelayOver \/ KeepOpenEnds => ~Pumping'
  BY ClockSteps DEF Pumping
<1>6. MicTick => ~due /\ due' = Pumping
  BY Zenon DEF MicTick
<1>7. QED
  BY <1>1, <1>2, <1>3, <1>4, <1>5, <1>6, Zenon

LEMMA OldStep == MicIInv /\ [MicNext]_micVars => OldGone'
<1>1. SUFFICES ASSUME QueueTyped, MicTyped, TakenWhen, OldGone, [MicNext]_micVars,
                      Pumping', silent' > StaleAfter, opened' > StaleAfter
               PROVE  /\ ~due' => NoneOlder(0)'
                      /\ silent' > StaleAfter + 1 /\ opened' > StaleAfter + 1 => NoneOlder(1)'
  BY DEF MicIInv, OldGone
<1>2. /\ StaleAfter \in Nat /\ StaleAfter > 0 /\ Ancient = StaleAfter + 2
      /\ lastTaken \in Nat /\ opened \in Nat /\ silent \in Nat
  BY <1>1, Bounds DEF MicTyped
<1>3. ASSUME UNCHANGED <<silent, opened>>, Pumping
      PROVE  /\ ~due => NoneOlder(0)
             /\ silent' > StaleAfter + 1 /\ opened' > StaleAfter + 1 => NoneOlder(1)
  BY <1>1, <1>3 DEF OldGone
<1>4. CASE WriteMic
  <2>1. /\ UNCHANGED <<silent, opened>> /\ Pumping /\ due' = due
    BY <1>1, <1>4, ClockSteps, PumpSteps DEF OpenStream, WriteMic
  <2>2. \A a \in Nat : NoneOlder(a) => NoneOlder(a)'
    BY <1>1, <1>4, Queued DEF QueueTyped
  <2>3. (NoneOlder(0) => NoneOlder(0)') /\ (NoneOlder(1) => NoneOlder(1)')
    BY <2>2
  <2>4. QED
    BY <1>3, <2>1, <2>3
<1>5. CASE MicShutdown \/ PhoneRecords \/ CardComesOrGoes \/ UNCHANGED micVars
  <2>1. /\ UNCHANGED <<silent, opened, queue>> /\ due' = due /\ (Pumping' => Pumping)
    <3>1. UNCHANGED <<silent, opened>> /\ due' = due
      BY <1>5, ClockSteps, PumpSteps
    <3>2. UNCHANGED queue
      BY <1>5 DEF MicShutdown, PhoneRecords, CardComesOrGoes, micVars, queueVars
    <3>3. Pumping' => Pumping
      BY <1>5, Zenon DEF Pumping, MicShutdown, PhoneRecords, CardComesOrGoes, micVars, streamVars
    <3>4. QED
      BY <3>1, <3>2, <3>3
  <2>2. (NoneOlder(0) => NoneOlder(0)') /\ (NoneOlder(1) => NoneOlder(1)')
    BY <2>1 DEF NoneOlder
  <2>3. QED
    BY <1>1, <1>3, <2>1, <2>2
<1>6. CASE WaitTimesOut
  <2>1. UNCHANGED <<silent, opened>> /\ stream = "open"
    BY <1>6, ClockSteps, PumpSteps DEF Pumping
  <2>2. lastTaken > StaleAfter
    BY <1>1, <1>2, <2>1 DEF TakenWhen
  <2>3. queue' = <<>>
    BY <1>6, <2>2 DEF WaitTimesOut, idle
  <2>4. Len(queue') = 0
    BY <2>3
  <2>5. NoneOlder(0)' /\ NoneOlder(1)'
    BY <2>4 DEF NoneOlder
  <2>6. QED
    BY <2>5
<1>7. CASE WritePeriod
  BY <1>1, <1>2, <1>7, ClockSteps
<1>8. CASE OpenStream
  <2>1. stream' = "waiting" \/ opened' = 0
    BY <1>8, ClockSteps
  <2>2. QED
    BY <1>1, <1>2, <2>1 DEF Pumping
<1>9. CASE PumpFails \/ DelayOver \/ KeepOpenEnds
  BY <1>1, <1>9, PumpSteps
<1>10. CASE MicTick
  <2>1. /\ opened' = Aged(opened) /\ silent' = Aged(silent) /\ ~due /\ Pumping /\ due'
    <3>1. Pumping
      BY <1>10, Zenon, <1>1, ClockSteps DEF MicTick, Pumping
    <3>2. QED
      BY <1>10, <3>1, ClockSteps, PumpSteps
  <2>2. \A t \in 0..Ancient : Aged(t) <= t + 1
    BY Ageing
  <2>3. ASSUME silent' > StaleAfter + 1, opened' > StaleAfter + 1 PROVE NoneOlder(1)'
    <3>1. silent > StaleAfter /\ opened > StaleAfter
      <4>1. Aged(silent) <= silent + 1 /\ Aged(opened) <= opened + 1
        BY <1>1, <2>2 DEF MicTyped
      <4>2. Aged(silent) \in Nat /\ Aged(opened) \in Nat
        BY <1>1, <1>2, Ageing DEF MicTyped
      <4>3. QED
        BY <1>2, <2>1, <2>3, <4>1, <4>2
    <3>2. NoneOlder(0)
      BY <1>1, <2>1, <3>1 DEF OldGone
    <3>3. Len(queue') = Len(queue) /\ \A i \in 1..Len(queue') : queue[i] \in 0..Ancient /\ queue'[i] = Aged(queue[i])
      BY <1>1, <1>10, Ticked
    <3>4. \A i \in 1..Len(queue') : queue'[i] <= 1
      <4>1. SUFFICES ASSUME NEW i \in 1..Len(queue') PROVE queue'[i] <= 1
        OBVIOUS
      <4>2. queue[i] \in 0..Ancient /\ queue[i] <= 0 /\ queue'[i] = Aged(queue[i])
        BY <3>2, <3>3 DEF NoneOlder
      <4>3. queue[i] = 0
        BY <1>2, <4>2
      <4>4. Aged(0) <= 1
        BY <1>2 DEF Aged
      <4>5. QED
        BY <4>2, <4>3, <4>4
    <3>5. QED
      BY <3>4 DEF NoneOlder
  <2>4. QED
    BY <2>1, <2>3
<1>11. QED
  BY <1>1, <1>4, <1>5, <1>6, <1>7, <1>8, <1>9, <1>10 DEF MicNext

LEMMA MicStep == MicIInv /\ [MicNext]_micVars => MicIInv'
  BY QueueStep, ClocksStep, FlagsKept, TakenStep, OldStep DEF MicIInv

LEMMA MicInvariant == MicSpec => []MicIInv
  BY MicInitiates, MicStep, PTL DEF MicSpec

\* A phone that records again hears nothing old, whatever the lengths of the
\* buffer and of the silence after which it is thrown away.
THEOREM HeardIsFresh == MicSpec => HeardFresh
<1>1. ASSUME MicIInv, [MicNext]_micVars
      PROVE  [WritePeriod /\ ~pending /\ silent > StaleAfter + 1 /\ opened > StaleAfter + 1 =>
                 \A i \in DOMAIN queue : queue[i] <= 1]_micVars
  <2>1. SUFFICES ASSUME WritePeriod, silent > StaleAfter + 1, opened > StaleAfter + 1, NEW i \in DOMAIN queue
                 PROVE  queue[i] <= 1
    OBVIOUS
  <2>2. Pumping
    BY <2>1 DEF WritePeriod
  <2>3. silent > StaleAfter /\ opened > StaleAfter
    BY <1>1, <2>1, Bounds DEF MicIInv, MicTyped
  <2>4. NoneOlder(1)
    BY <1>1, <2>1, <2>2, <2>3 DEF MicIInv, OldGone
  <2>5. queue \in Seq(0..Ancient)
    BY <1>1 DEF MicIInv, QueueTyped
  <2>6. QED
    BY <2>1, <2>4, <2>5 DEF NoneOlder
<1>2. QED
  BY <1>1, MicInvariant, PTL DEF MicSpec, HeardFresh

\* Queue, clocks and stream keep to their types.
THEOREM MicIsTyped == MicSpec => []MicTypeOK
<1>1. MicIInv => MicTypeOK
  <2>1. SUFFICES ASSUME MicIInv PROVE MicTypeOK
    OBVIOUS
  <2>2. {playing, pending, due, recording, device, ended} \subseteq BOOLEAN
    BY <2>1 DEF MicIInv, MicFlags
  <2>3. queue \in Seq(0..Ancient) /\ Len(queue) <= MaxQueue
    BY <2>1 DEF MicIInv, QueueTyped
  <2>4. \A i \in DOMAIN queue : queue[i] \in 0..Ancient
    BY <2>3, Pieces
  <2>5. MicTyped
    BY <2>1 DEF MicIInv
  <2>6. {lastTaken, opened} \subseteq 0..Ancient /\ delay \in 0..MaxDelay /\ stream \in {"closed", "open", "waiting", "ended"}
    BY <2>5 DEF MicTyped
  <2>7. QED
    BY <2>2, <2>3, <2>4, <2>6, Zenon DEF MicTypeOK
<1>2. QED
  BY <1>1, MicInvariant, PTL
=============================================================================
