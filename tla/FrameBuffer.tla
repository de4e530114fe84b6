----------------------------- MODULE FrameBuffer -----------------------------
(***************************************************************************)
(* The captured picture and who may touch its memory (capture.go,          *)
(* capture_native_linux.go, v4l2/capture_linux.go): capture loops that     *)
(* take pictures out of the driver's buffers, callers that make JPEGs of   *)
(* the latest one on goroutines of their own, and the CaptureManager that  *)
(* stops one capture and starts the next.                                  *)
(*                                                                         *)
(* A picture is its number (rawFrame.seq), a JPEG the number of the        *)
(* picture it shows and the one it claims to show.  The driver's buffers   *)
(* are names.  Crop, status, no-signal detection and the pixels are left   *)
(* out; a loop that shows its blank frame for the dongle's No Signal       *)
(* screen is not, for that picture is no driver memory and yet keeps its   *)
(* buffer.  fb.mu is held for one step.                                    *)
(*                                                                         *)
(* A definition named Bug... is the one that follows it with a plausible   *)
(* mistake in it; no specification uses one.                               *)
(***************************************************************************)
EXTENDS Naturals, FiniteSets

CONSTANTS Buffers,      \* what a capture's node allocates
          Callers,      \* goroutines that ask for JPEGs
          None,         \* nobody: encMu is free
          Kinds,        \* the JPEGs kept of a picture: "cropped", "whole"
          SlowWork,     \* an encode may outlast Detach, a loop the manager's wait
          MaxErrors,    \* maxConsecutiveErrors
          MaxCaptures,  \* bound: captures started
          MaxPictures   \* bound: pictures taken

ASSUME ConstantsAssumption ==
    /\ IsFiniteSet(Buffers) /\ IsFiniteSet(Callers)
    /\ None \notin Callers
    /\ Kinds \subseteq {"cropped", "whole"}
    /\ SlowWork \in BOOLEAN
    /\ MaxErrors \in Nat \ {0} /\ MaxCaptures \in Nat /\ MaxPictures \in Nat

Captures == 1..MaxCaptures
Pictures == 1..MaxPictures
NoPicture == 0
NoKind == "none"

VARIABLES
    \* FrameBuffer, under mu: raw, rawSeq, every rawFrame so far, and
    \* current/rawJPEG with their numbers; and who holds encMu
    raw, rawSeq, pic, jpeg, encMu,
    \* the callers of Latest, LatestRaw and LatestAt
    job,
    \* runCapture's goroutines, and their readers: the buffers the driver has
    \* and the captures whose memory is mapped
    loop, queued, mapped,
    \* CaptureManager.Run: where it is, the capture it has started last, why it
    \* stops it; history: whether it has ever gone on without waiting for a
    \* loop, and whose last answer was older than the latest when it asked
    mgr, overlapped, outdated

buffer == <<raw, rawSeq, pic, jpeg>>
vars == <<buffer, encMu, job, loop, queued, mapped, mgr, overlapped, outdated>>

Picture == [from : Captures, buf : Buffers, pixels : {"driver", "copy", "blank"},
            given : BOOLEAN, pins : 0..Cardinality(Callers), stale : BOOLEAN]
NoFrame == [given |-> TRUE]
Job == [at : {"idle", "lock", "look", "encode", "encodeAt"}, kind : Kinds \cup {NoKind},
        pic : 0..MaxPictures, floor : 0..MaxPictures]
Loop == [at : {"off", "head", "read", "use", "detach", "drain", "close", "gone"},
         pic : 0..MaxPictures, errs : 0..(MaxErrors - 1)]

TypeOK ==
    /\ raw \in 0..MaxPictures /\ rawSeq \in 0..MaxPictures
    /\ pic \in [Pictures -> Picture \cup {NoFrame}]
    /\ \A n \in Pictures : pic[n] # NoFrame <=> n <= rawSeq
    /\ jpeg \in [Kinds -> [of : 0..MaxPictures, seq : 0..MaxPictures]]
    /\ encMu \in Callers \cup {None}
    /\ job \in [Callers -> Job]
    /\ loop \in [Captures -> Loop]
    /\ queued \in [Captures -> SUBSET Buffers] /\ mapped \subseteq Captures
    /\ mgr \in [at : {"start", "run", "wait", "over"}, cap : 0..MaxCaptures,
                why : {"none", "restart", "reset", "shutdown"}]
    /\ overlapped \in BOOLEAN /\ outdated \subseteq Callers

NoJPEG == [of |-> NoPicture, seq |-> NoPicture]
IdleJob == [at |-> "idle", kind |-> NoKind, pic |-> NoPicture, floor |-> NoPicture]

Init ==
    /\ raw = NoPicture /\ rawSeq = 0 /\ pic = [n \in Pictures |-> NoFrame]
    /\ jpeg = [k \in Kinds |-> NoJPEG] /\ encMu = None
    /\ job = [e \in Callers |-> IdleJob]
    /\ loop = [c \in Captures |-> [at |-> "off", pic |-> NoPicture, errs |-> 0]]
    /\ queued = [c \in Captures |-> {}] /\ mapped = {}
    /\ mgr = [at |-> "start", cap |-> 0, why |-> "none"]
    /\ overlapped = FALSE /\ outdated = {}

-----------------------------------------------------------------------------
(* Giving a picture's memory back.                                         *)

\* Picture n's release, if cond: its buffer is queued again, unless its
\* reader has closed.
Give(n, cond) ==
    queued' = IF cond /\ pic[n].from \in mapped
              THEN [queued EXCEPT ![pic[n].from] = @ \cup {pic[n].buf}]
              ELSE queued

Free(n) == pic[n].pins = 0
GoStale(n) == [pic EXCEPT ![n].stale = TRUE, ![n].given = @ \/ Free(n)]

\* Clear: the manager's after a reset, a loop's that cannot read any more.
Clear ==
    /\ raw' = NoPicture
    /\ IF raw = NoPicture THEN UNCHANGED <<pic, queued>>
       ELSE pic' = GoStale(raw) /\ Give(raw, Free(raw) /\ ~pic[raw].given)
    /\ jpeg' = [k \in Kinds |-> NoJPEG]

-----------------------------------------------------------------------------
(* The capture loop: runCapture.                                           *)

GoTo(c, at) == loop' = [loop EXCEPT ![c].at = at, ![c].pic = NoPicture]

\* The context of a capture is done once the manager has stopped it.
Cancelled(c) == c < mgr.cap \/ mgr.at # "run"

Head(c) ==
    /\ loop[c].at = "head"
    /\ GoTo(c, IF Cancelled(c) THEN "detach" ELSE "read")
    /\ UNCHANGED <<buffer, encMu, job, queued, mapped, mgr, overlapped, outdated>>

\* A picture is read and replaces the one before, which is let go of.
UpdateRaw(c) ==
    /\ loop[c].at = "read" /\ rawSeq < MaxPictures
    /\ \E b \in queued[c], pixels \in {"driver", "blank"} :
        LET n == rawSeq + 1
            new == [from |-> c, buf |-> b, pixels |-> pixels, given |-> FALSE,
                    pins |-> 0, stale |-> FALSE]
            prev == IF raw = NoPicture THEN pic ELSE GoStale(raw)
            taken == [queued EXCEPT ![c] = @ \ {b}]
            back == /\ raw # NoPicture /\ pic[raw].from \in mapped
                    /\ Free(raw) /\ ~pic[raw].given
        IN  /\ raw' = n /\ rawSeq' = n
            /\ pic' = [prev EXCEPT ![n] = new]
            /\ queued' = IF back THEN [taken EXCEPT ![pic[raw].from] = @ \cup {pic[raw].buf}]
                                 ELSE taken
            /\ loop' = [loop EXCEPT ![c] = [at |-> "use", pic |-> n, errs |-> 0]]
    /\ UNCHANGED <<jpeg, encMu, job, mapped, mgr, overlapped, outdated>>

\* A read fails or times out, or a frame is torn and given straight back.
ReadFails(c) ==
    /\ loop[c].at = "read"
    /\ IF loop[c].errs + 1 >= MaxErrors
       THEN Clear /\ GoTo(c, "detach")
       ELSE /\ loop' = [loop EXCEPT ![c].at = "head", ![c].errs = @ + 1]
            /\ UNCHANGED <<raw, pic, jpeg, queued>>
    /\ UNCHANGED <<rawSeq, encMu, job, mapped, mgr, overlapped, outdated>>

\* deliver has handed the picture to the encoder; while someone streams, its
\* JPEG is made too, cropped or both (UpdateCropped, UpdateBoth).
Deliver(c) ==
    /\ loop[c].at = "use" /\ GoTo(c, "head")
    /\ \E made \in {{}, Kinds \cap {"cropped"}, Kinds} :
        jpeg' = [k \in Kinds |-> IF k \in made THEN [of |-> loop[c].pic, seq |-> rawSeq]
                                 ELSE jpeg[k]]
    /\ UNCHANGED <<raw, rawSeq, pic, encMu, job, queued, mapped, mgr, overlapped, outdated>>

\* Detach: the latest picture, if it can be copied, ...
Detach(c) ==
    /\ loop[c].at = "detach"
    /\ IF raw = NoPicture \/ pic[raw].pixels = "blank"
       THEN GoTo(c, "close")
       ELSE loop' = [loop EXCEPT ![c].at = "drain", ![c].pic = raw]
    /\ UNCHANGED <<buffer, encMu, job, queued, mapped, mgr, overlapped, outdated>>

\* ... is copied once nobody encodes it, and its buffer is given back; the
\* wait ends early when another has replaced it or two seconds are over.
BugDetachDoesNotWait(c) ==
    LET n == loop[c].pic IN
    /\ loop[c].at = "drain" /\ GoTo(c, "close")
    /\ IF raw = n
       THEN pic' = [pic EXCEPT ![n].given = TRUE] /\ Give(n, ~pic[n].given)
       ELSE UNCHANGED <<pic, queued>>
    /\ UNCHANGED <<raw, rawSeq, jpeg, encMu, job, mapped, mgr, overlapped, outdated>>

DetachCopies(c) ==
    LET n == loop[c].pic IN
    /\ loop[c].at = "drain" /\ GoTo(c, "close")
    /\ IF raw = n /\ Free(n)
       THEN /\ pic' = [pic EXCEPT ![n].pixels = "copy", ![n].given = TRUE]
            /\ Give(n, ~pic[n].given)
       ELSE (raw # n \/ SlowWork) /\ UNCHANGED <<pic, queued>>
    /\ UNCHANGED <<raw, rawSeq, jpeg, encMu, job, mapped, mgr, overlapped, outdated>>

\* nativeReader.Close: nothing is queued from now on, and the driver's memory
\* is unmapped.
Close(c) ==
    /\ loop[c].at = "close" /\ GoTo(c, "gone")
    /\ mapped' = mapped \ {c} /\ queued' = [queued EXCEPT ![c] = {}]
    /\ UNCHANGED <<buffer, encMu, job, mgr, overlapped, outdated>>

CaptureLoop(c) ==
    \/ Head(c) \/ UpdateRaw(c) \/ ReadFails(c) \/ Deliver(c) \/ Detach(c)
    \/ DetachCopies(c) \/ Close(c)

-----------------------------------------------------------------------------
(* JPEGs on demand: Latest, LatestRaw and LatestAt.                        *)

\* Caller e is given a JPEG that shows picture n, having asked when picture
\* floor was the latest.
Answer(e, n, floor) ==
    /\ job' = [job EXCEPT ![e] = IdleJob]
    /\ outdated' = IF n \in 1..(floor - 1) THEN outdated \cup {e} ELSE outdated \ {e}

\* unpin.
BugUnpinKeeps(n) ==
    /\ pic' = [pic EXCEPT ![n].pins = @ - 1]
    /\ UNCHANGED queued

Unpin(n) ==
    LET done == pic[n].stale /\ pic[n].pins = 1 IN
    /\ pic' = [pic EXCEPT ![n].pins = @ - 1, ![n].given = @ \/ done]
    /\ Give(n, done /\ ~pic[n].given)

Pin(e, step) ==
    /\ pic' = [pic EXCEPT ![raw].pins = @ + 1]
    /\ job' = [job EXCEPT ![e].at = step, ![e].pic = raw]

\* Latest (cropped) and LatestRaw (whole): the JPEG there is, if it is of the
\* latest picture.
Latest(e, k) ==
    /\ job[e].at = "idle"
    /\ IF raw = NoPicture \/ (jpeg[k].of # NoPicture /\ jpeg[k].seq = raw)
       THEN Answer(e, jpeg[k].of, raw)
       ELSE /\ job' = [job EXCEPT ![e] = [at |-> "lock", kind |-> k,
                                          pic |-> NoPicture, floor |-> raw]]
            /\ UNCHANGED outdated
    /\ UNCHANGED <<buffer, encMu, loop, queued, mapped, mgr, overlapped>>

\* encodeLatest: encMu, then the picture that is the latest by now.
EncodeLatest(e) ==
    /\ job[e].at = "lock" /\ encMu = None
    /\ IF raw = NoPicture
       THEN Answer(e, NoPicture, job[e].floor) /\ UNCHANGED <<pic, encMu>>
       ELSE Pin(e, "look") /\ encMu' = e /\ UNCHANGED outdated
    /\ UNCHANGED <<raw, rawSeq, jpeg, loop, queued, mapped, mgr, overlapped>>

\* Another caller, or the loop, may have made it meanwhile.
Look(e) ==
    LET k == job[e].kind IN
    /\ job[e].at = "look"
    /\ IF jpeg[k].of # NoPicture /\ jpeg[k].seq = job[e].pic
       THEN Unpin(job[e].pic) /\ Answer(e, jpeg[k].of, job[e].floor) /\ encMu' = None
       ELSE /\ job' = [job EXCEPT ![e].at = "encode"]
            /\ UNCHANGED <<pic, queued, encMu, outdated>>
    /\ UNCHANGED <<raw, rawSeq, jpeg, loop, mapped, mgr, overlapped>>

\* encodeJPEG has read the picture's pixels and made the JPEG.
BugStoreAsLatest(e) ==
    LET n == job[e].pic IN
    /\ job[e].at = "encode"
    /\ jpeg' = [jpeg EXCEPT ![job[e].kind] = [of |-> n, seq |-> rawSeq]]
    /\ Unpin(n) /\ Answer(e, n, job[e].floor) /\ encMu' = None
    /\ UNCHANGED <<raw, rawSeq, loop, mapped, mgr, overlapped>>

Store(e) ==
    LET n == job[e].pic IN
    /\ job[e].at = "encode"
    /\ jpeg' = [jpeg EXCEPT ![job[e].kind] = [of |-> n, seq |-> n]]
    /\ Unpin(n) /\ Answer(e, n, job[e].floor) /\ encMu' = None
    /\ UNCHANGED <<raw, rawSeq, loop, mapped, mgr, overlapped>>

\* LatestAt: without encMu, and not kept.
LatestAt(e) ==
    /\ job[e].at = "idle" /\ raw # NoPicture /\ Pin(e, "encodeAt")
    /\ UNCHANGED <<raw, rawSeq, jpeg, encMu, loop, queued, mapped, mgr,
                   overlapped, outdated>>

LatestAtDone(e) ==
    /\ job[e].at = "encodeAt"
    /\ Unpin(job[e].pic) /\ job' = [job EXCEPT ![e] = IdleJob]
    /\ UNCHANGED <<raw, rawSeq, jpeg, encMu, loop, mapped, mgr, overlapped, outdated>>

Caller(e) ==
    \/ EncodeLatest(e) \/ Look(e) \/ Store(e) \/ LatestAt(e) \/ LatestAtDone(e)
    \/ \E k \in Kinds : Latest(e, k)

-----------------------------------------------------------------------------
(* CaptureManager.Run.                                                     *)

\* A device is found and StartCapture succeeds.
StartCapture ==
    /\ mgr.at = "start" /\ mgr.cap < MaxCaptures
    /\ LET c == mgr.cap + 1
       IN  /\ mgr' = [at |-> "run", cap |-> c, why |-> "none"]
           /\ loop' = [loop EXCEPT ![c].at = "head"]
           /\ queued' = [queued EXCEPT ![c] = Buffers] /\ mapped' = mapped \cup {c}
    /\ UNCHANGED <<buffer, encMu, job, overlapped, outdated>>

\* monitorCapture returns (a restart: the loop is done, or the settings have
\* changed), and the capture is cancelled.
Stop ==
    /\ mgr.at = "run"
    /\ \E why \in {"restart", "reset", "shutdown"} :
           mgr' = [mgr EXCEPT !.at = "wait", !.why = why]
    /\ UNCHANGED <<buffer, encMu, job, loop, queued, mapped, overlapped, outdated>>

\* The loop is done, or five seconds are over; then on to the next capture,
\* after a reset with an empty buffer.
BugGoOnAtOnce ==
    /\ mgr.at = "wait"
    /\ mgr' = [mgr EXCEPT !.at = IF mgr.why = "shutdown" THEN "over" ELSE "start",
                          !.why = "none"]
    /\ IF mgr.why = "reset" THEN Clear ELSE UNCHANGED <<raw, pic, jpeg, queued>>
    /\ UNCHANGED <<rawSeq, encMu, job, loop, mapped, overlapped, outdated>>

GoOn ==
    /\ mgr.at = "wait" /\ (loop[mgr.cap].at = "gone" \/ SlowWork)
    /\ overlapped' = (overlapped \/ loop[mgr.cap].at # "gone")
    /\ mgr' = [mgr EXCEPT !.at = IF mgr.why = "shutdown" THEN "over" ELSE "start",
                          !.why = "none"]
    /\ IF mgr.why = "reset" THEN Clear ELSE UNCHANGED <<raw, pic, jpeg, queued>>
    /\ UNCHANGED <<rawSeq, encMu, job, loop, mapped, outdated>>

Manager == StartCapture \/ Stop \/ GoOn

-----------------------------------------------------------------------------
Next ==
    \/ Manager
    \/ \E c \in Captures : CaptureLoop(c)
    \/ \E e \in Callers : Caller(e)

Spec == Init /\ [][Next]_vars

-----------------------------------------------------------------------------
(* Properties.                                                             *)

Encoding(e) == job[e].at \in {"look", "encode", "encodeAt"}

\* The picture's pixels are where they were: not in a buffer the driver has
\* been given back, and may be filling with another picture.
Intact(n) == pic[n].pixels = "driver" => ~pic[n].given

\* No buffer leaks and none is given back twice: while a capture is open, each
\* of its buffers is with the driver, or with one picture that is the latest
\* or is being encoded (rawFrame: "held until the next one arrives and nothing
\* is still encoding it; then its reader gets the memory back").
BuffersAccounted ==
    \A c \in mapped, b \in Buffers :
        LET keeping == {n \in 1..rawSeq : /\ pic[n].from = c /\ pic[n].buf = b
                                          /\ ~pic[n].given}
        IN  IF b \in queued[c] THEN keeping = {}
            ELSE \E n \in keeping :
                    /\ keeping = {n}
                    /\ n = raw \/ \E e \in Callers : Encoding(e) /\ job[e].pic = n

\* The latest picture, and one being encoded, is not in a buffer the driver
\* has back, whichever of the loop, Detach, Clear and the encodes lets go of
\* it last; also when a stuck loop goes on beside the next capture.
PicturesIntact ==
    /\ raw # NoPicture => Intact(raw)
    /\ \A e \in Callers : Encoding(e) => Intact(job[e].pic)

\* The loop hands its picture to the video encoder and makes a JPEG of it
\* without a pin: the manager's wait for the old loop is what keeps it.
LoopPictureIntact ==
    ~overlapped => \A c \in Captures : loop[c].at = "use" => Intact(loop[c].pic)

\* Latest "returns the cropped JPEG of the most recent frame": what a caller
\* gets shows no older a picture than the latest when it asked, whoever else
\* encodes, and however late their JPEGs are stored.
LatestIsFresh == ~overlapped => outdated = {}

\* rawFrame: "held until the next one arrives and nothing is still encoding
\* it; then its reader gets the memory back".  A picture being encoded from
\* the driver's memory still has that memory mapped.
EncodesMapped ==
    \A e \in Callers :
        job[e].at \in {"encode", "encodeAt"} /\ pic[job[e].pic].pixels = "driver"
            => pic[job[e].pic].from \in mapped
=============================================================================
