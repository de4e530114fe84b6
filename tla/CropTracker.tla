---------------------------- MODULE CropTracker ----------------------------
(* The crop in use (capture.go): each frame may detect where the picture is  *)
(* and which way it is turned, and the capture loop keeps the rectangle in   *)
(* use, while requests choose the crop and save crops (CropStore). A         *)
(* rectangle is told apart by its shape and by how much of the frame it      *)
(* covers; edge noise and frame sizes are left out, and so is which frames   *)
(* detect: any may.                                                          *)
EXTENDS Integers, FiniteSets

CONSTANTS Rects,      \* [turned : Turns, area : percent of the frame]
          NoRect

NotTurned == ""
Turns == {"portrait", "landscape", NotTurned}
Sides == {"portrait", "landscape"}
Uses  == {"auto", "off", "saved"}

ASSUME CropConstants == Rects \subseteq [turned : Turns, area : 0..100] /\ NoRect \notin Rects

VARIABLES
    \* FrameBuffer
    contentRect, turnedTo, orientPending, orientSeen,
    cropUse, savedCrops,
    \* runCapture
    framePc,      \* "read", "saved", "auto"
    activeCrop, usingSaved, pendingCrop, pendingCropSeen,
    detected,     \* this frame was detected
    \* history
    before,       \* the detection before contentRect
    asked         \* frames until what a request changed has taken effect

trackVars == <<contentRect, turnedTo, orientPending, orientSeen, before>>
chosenVars == <<cropUse, savedCrops>>
loopVars == <<framePc, activeCrop, usingSaved, pendingCrop, pendingCropSeen, detected>>
cropVars == <<trackVars, chosenVars, loopVars, asked>>

NoneSaved == [o \in Sides |-> NoRect]

CropInit ==
    /\ contentRect = NoRect /\ before = NoRect
    /\ turnedTo = NotTurned /\ orientPending = NotTurned /\ orientSeen = 0
    /\ cropUse = "auto" /\ savedCrops = NoneSaved
    /\ framePc = "read" /\ activeCrop = NoRect /\ usingSaved = FALSE
    /\ pendingCrop = NoRect /\ pendingCropSeen = 0 /\ detected = FALSE
    /\ asked = 0

\* Mutant: one detection is enough.
BugAgreeOnce == 1

cropAgreeCount == 2

-----------------------------------------------------------------------------
(* A frame                                                                   *)

trackOrientation(o) ==
    IF o \in {NotTurned, turnedTo}
    THEN orientPending' = NotTurned /\ orientSeen' = 0 /\ UNCHANGED turnedTo
    ELSE LET n == IF o = orientPending THEN orientSeen + 1 ELSE 1
         IN  IF n >= cropAgreeCount
             THEN turnedTo' = o /\ orientPending' = NotTurned /\ orientSeen' = 0
             ELSE orientPending' = o /\ orientSeen' = n /\ UNCHANGED turnedTo

\* SetContentRect, with what a frame that is not dark shows.
DetectFrame ==
    /\ framePc = "read"
    /\ \E r \in Rects :
          /\ contentRect' = r /\ before' = contentRect
          /\ trackOrientation(r.turned)
    /\ detected' = TRUE /\ framePc' = "saved"
    /\ UNCHANGED <<chosenVars, activeCrop, usingSaved, pendingCrop, pendingCropSeen,
                   asked>>

PassFrame ==
    /\ framePc = "read"
    /\ framePc' = "saved"
    /\ UNCHANGED <<trackVars, chosenVars, activeCrop, usingSaved, pendingCrop, pendingCropSeen,
                   detected, asked>>

SavedInUse == IF cropUse = "saved" /\ turnedTo \in Sides THEN savedCrops[turnedTo] ELSE NoRect

\* The saved crop, if it is in use. One no longer in use is detected afresh.
SavedCropFor ==
    /\ framePc = "saved"
    /\ framePc' = "auto"
    /\ IF SavedInUse # NoRect
       THEN activeCrop' = SavedInUse /\ usingSaved' = TRUE
            /\ pendingCrop' = NoRect /\ pendingCropSeen' = 0
       ELSE activeCrop' = (IF usingSaved THEN NoRect ELSE activeCrop)
            /\ usingSaved' = FALSE /\ UNCHANGED <<pendingCrop, pendingCropSeen>>
    /\ UNCHANGED <<trackVars, chosenVars, detected, asked>>

isMajorCropChange(from, to) ==
    \/ from = NoRect
    \/ from.area - to.area > 20 \/ to.area - from.area > 20
    \/ (from.turned = "landscape") # (to.turned = "landscape")

\* Mutant: the count of agreeing detections starts one too high.
BugPendCountsOn(r, n) == pendingCrop' = r /\ pendingCropSeen' = n + 1

Pend(r, n) == pendingCrop' = r /\ pendingCropSeen' = n

\* Auto-crop follows a detection when it is the first, or the same twice.
FollowDetection(r) ==
    IF r = NoRect \/ ~isMajorCropChange(activeCrop, r)
    THEN Pend(NoRect, 0) /\ UNCHANGED activeCrop
    ELSE IF activeCrop = NoRect THEN activeCrop' = r /\ Pend(NoRect, 0)
    ELSE IF r # pendingCrop THEN Pend(r, 1) /\ UNCHANGED activeCrop
    ELSE IF pendingCropSeen + 1 >= cropAgreeCount THEN activeCrop' = r /\ Pend(NoRect, 0)
    ELSE Pend(r, pendingCropSeen + 1) /\ UNCHANGED activeCrop

\* CropMode is read again here: it may have changed since the step before.
AutoCrop ==
    /\ framePc = "auto"
    /\ framePc' = "read"
    /\ IF usingSaved THEN UNCHANGED <<activeCrop, pendingCrop, pendingCropSeen>>
       ELSE IF SavedInUse # NoRect \/ cropUse = "off"
       THEN activeCrop' = NoRect /\ UNCHANGED <<pendingCrop, pendingCropSeen>>
       ELSE IF detected THEN FollowDetection(contentRect)
       ELSE UNCHANGED <<activeCrop, pendingCrop, pendingCropSeen>>
    /\ asked' = IF asked > 0 THEN asked - 1 ELSE 0
    /\ detected' = FALSE
    /\ UNCHANGED <<trackVars, chosenVars, usingSaved>>

\* The capture starts over: the loop begins with nothing, and takes its first
\* frame to be where the picture was last detected.
CaptureRestarts ==
    /\ framePc = "read"
    /\ activeCrop' = NoRect /\ usingSaved' = FALSE
    /\ pendingCrop' = NoRect /\ pendingCropSeen' = 0
    /\ detected' = TRUE /\ framePc' = "saved" /\ asked' = 2
    /\ UNCHANGED <<trackVars, chosenVars>>

-----------------------------------------------------------------------------
(* Requests, and a restart                                                   *)

SetCropUse ==
    /\ cropUse' \in Uses \ {cropUse}
    /\ asked' = 2
    /\ UNCHANGED <<trackVars, savedCrops, loopVars>>

\* NoRect clears it.
SetSavedCrop ==
    /\ \E o \in Sides : \E r \in {q \in Rects : q.turned \in {o, NotTurned}} \cup {NoRect} :
          savedCrops' = [savedCrops EXCEPT ![o] = r]
    /\ asked' = 2
    /\ UNCHANGED <<trackVars, cropUse, loopVars>>

\* Roadie starts again, with what was saved. With one crop, in use, the
\* picture is presumed to be turned that way.
CropRestart ==
    LET ways == {o \in Sides : savedCrops[o] # NoRect}
    IN  /\ turnedTo' = IF cropUse = "saved" /\ Cardinality(ways) = 1
                       THEN CHOOSE o \in ways : TRUE ELSE NotTurned
        /\ contentRect' = NoRect /\ before' = NoRect /\ orientPending' = NotTurned /\ orientSeen' = 0
        /\ framePc' = "read" /\ activeCrop' = NoRect /\ usingSaved' = FALSE
        /\ pendingCrop' = NoRect /\ pendingCropSeen' = 0 /\ detected' = FALSE
        /\ asked' = 2
        /\ UNCHANGED chosenVars

CropNext ==
    \/ DetectFrame \/ PassFrame \/ SavedCropFor \/ AutoCrop \/ CaptureRestarts
    \/ SetCropUse \/ SetSavedCrop \/ CropRestart

CropSpec == CropInit /\ [][CropNext]_cropVars

-----------------------------------------------------------------------------
CropTypeOK ==
    /\ {contentRect, before, activeCrop, pendingCrop} \subseteq Rects \cup {NoRect}
    /\ {turnedTo, orientPending} \subseteq Turns /\ orientSeen \in 0..1
    /\ cropUse \in Uses /\ savedCrops \in [Sides -> Rects \cup {NoRect}]
    /\ framePc \in {"read", "saved", "auto"} /\ pendingCropSeen \in 0..1
    /\ {usingSaved, detected} \subseteq BOOLEAN /\ asked \in 0..2

\* One odd frame changes no crop (capture.go:511-513, 1364-1370): without a
\* request, the crop in use is replaced by another only when two detections
\* in a row saw that rectangle, or saw the picture turned so that it is the
\* saved one, or no saved one is left to use.
OneFrameTurnsNothing ==
    [][asked = 0 /\ asked' = 0 /\ activeCrop # NoRect /\ activeCrop' # activeCrop =>
          \/ contentRect = before /\ activeCrop' = contentRect
          \/ /\ framePc = "saved" /\ before # NoRect
             /\ contentRect.turned = turnedTo /\ before.turned = turnedTo]_cropVars
=============================================================================
