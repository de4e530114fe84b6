-------------------------- MODULE BroadcasterProofs --------------------------
(* Proofs about Broadcaster, for every set of viewers, picture sizes and     *)
(* holds.                                                                    *)
EXTENDS Broadcaster, TLAPS

(* The inductive invariant. Whether the tap is on follows from nothing the   *)
(* goroutines look at when they act: they decided earlier, under another     *)
(* lock. So a tap without a viewer must have a removal under way that will   *)
(* take it off, and, where nobody registers during a removal, viewers        *)
(* without a tap must have an arrival under way that will put it on.         *)

\* A session nobody serves yet is not closed under its arrival.
ArrivesOpen ==
    ~shut =>
        /\ \A s \in Sessions : serve[s] \notin {"in", "refused"} => leave[s] = "open"
        /\ \A s \in Sessions : Starting(s) \/ serve[s] = "name" => s \in sessions
        /\ \A s \in Sessions : hold[s] # NoHold => serve[s] = "in"
        /\ \A s \in ending : serve[s] = "in"

TapTakenOff == ~shut /\ sinking => sessions # {} \/ \E s \in Sessions : leave[s] = "encoder"
SpeakerStopped == ~shut /\ speaking => sessions # {} \/ \E s \in Sessions : Stopping(s)

RemovalAlone == Spaced /\ ~shut => \A s \in Sessions : Stopping(s) => sessions = {}
TapPutOn == Spaced /\ ~shut /\ sessions # {} => sinking \/ \E s \in Sessions : serve[s] = "tap"
SpeakerStarted == Spaced /\ ~shut /\ sessions # {} => speaking \/ \E s \in Sessions : Starting(s)

ViewersIInv ==
    /\ TypeOK /\ ArrivesOpen /\ TapTakenOff /\ SpeakerStopped
    /\ RemovalAlone /\ TapPutOn /\ SpeakerStarted

LEMMA ViewersInitiates == Init => ViewersIInv
<1>1. SUFFICES ASSUME Init PROVE ViewersIInv
  OBVIOUS
<1>2. TypeOK
  BY <1>1 DEF Init, TypeOK
<1>3. ArrivesOpen /\ RemovalAlone
  BY <1>1 DEF Init, ArrivesOpen, RemovalAlone, Starting, Stopping
<1>4. TapTakenOff /\ SpeakerStopped /\ TapPutOn /\ SpeakerStarted
  BY <1>1 DEF Init, TapTakenOff, SpeakerStopped, TapPutOn, SpeakerStarted
<1>5. QED
  BY <1>2, <1>3, <1>4 DEF ViewersIInv

LEMMA TypeStep == TypeOK /\ [Next]_vars => TypeOK'
<1>1. SUFFICES ASSUME TypeOK, [Next]_vars PROVE TypeOK'
  OBVIOUS
<1>2. ASSUME NEW s \in Sessions, Serving(s) PROVE TypeOK'
  <2>1. CASE Hello(s)
    BY <1>1, <2>1, ConstantsAssumption
       DEF TypeOK, Hello, srvState, encState, sesState, endState
  <2>2. CASE OfferFails(s)
    BY <1>1, <2>2, ConstantsAssumption
       DEF TypeOK, OfferFails, srvState, encState, sesState, endState
  <2>3. CASE Register(s)
    BY <1>1, <2>3, ConstantsAssumption
       DEF TypeOK, Register, srvState, encState, sesState, endState
  <2>4. CASE Tap(s)
    BY <1>1, <2>4, ConstantsAssumption
       DEF TypeOK, Tap, srvState, encState, sesState, endState
  <2>5. CASE StartSpeaker(s)
    BY <1>1, <2>5, ConstantsAssumption
       DEF TypeOK, StartSpeaker, srvState, encState, sesState, endState
  <2>6. CASE Name(s)
    BY <1>1, <2>6, ConstantsAssumption
       DEF TypeOK, Name, srvState, encState, sesState, endState
  <2>7. CASE Connected(s)
    BY <1>1, <2>7, ConstantsAssumption
       DEF TypeOK, Connected, RequestKeyframe, srvState, encState, sesState, endState
  <2>8. CASE PictureLoss(s)
    BY <1>1, <2>8, ConstantsAssumption
       DEF TypeOK, PictureLoss, RequestKeyframe, srvState, encState, sesState, endState
  <2>9. CASE ControlArrives(s)
    BY <1>1, <2>9, ConstantsAssumption
       DEF TypeOK, ControlArrives, srvState, encState, sesState, endState
  <2>10. CASE OnControl(s)
    BY <1>1, <2>10, ConstantsAssumption
       DEF TypeOK, OnControl, RequestKeyframe, srvState, encState, sesState, endState
  <2>11. CASE MicStart(s)
    BY <1>1, <2>11, ConstantsAssumption
       DEF TypeOK, MicStart, srvState, encState, sesState, endState
  <2>12. CASE MicEnd(s)
    BY <1>1, <2>12, ConstantsAssumption
       DEF TypeOK, MicEnd, srvState, encState, sesState, endState
  <2>13. QED
    BY <1>2, <2>1, <2>2, <2>3, <2>4, <2>5, <2>6, <2>7, <2>8, <2>9, <2>10, <2>11, <2>12 DEF Serving
<1>3. ASSUME NEW s \in Sessions, Closing(s) PROVE TypeOK'
  <2>1. CASE Leave(s)
    BY <1>1, <2>1, ConstantsAssumption
       DEF TypeOK, Leave, BeginClose, srvState, encState, sesState, endState
  <2>2. CASE Remove(s)
    BY <1>1, <2>2, ConstantsAssumption
       DEF TypeOK, Remove, srvState, encState, sesState, endState
  <2>3. CASE StopEncoder(s)
    BY <1>1, <2>3, ConstantsAssumption
       DEF TypeOK, StopEncoder, srvState, encState, sesState, endState
  <2>4. CASE Drained(s)
    BY <1>1, <2>4, ConstantsAssumption
       DEF TypeOK, Drained, srvState, encState, sesState, endState
  <2>5. CASE StopSpeaker(s)
    BY <1>1, <2>5, ConstantsAssumption
       DEF TypeOK, StopSpeaker, srvState, encState, sesState, endState
  <2>6. CASE Forgotten(s)
    BY <1>1, <2>6, ConstantsAssumption
       DEF TypeOK, Forgotten, srvState, encState, sesState, endState
  <2>7. CASE CloseNext(s)
    BY <1>1, <2>7, ConstantsAssumption
       DEF TypeOK, CloseNext, BeginClose, srvState, encState, sesState, endState
  <2>8. QED
    BY <1>3, <2>1, <2>2, <2>3, <2>4, <2>5, <2>6, <2>7 DEF Closing
<1>4. ASSUME NEW size \in Sizes, Frame(size) \/ FrameResized(size) PROVE TypeOK'
  BY <1>1, <1>4, ConstantsAssumption
     DEF TypeOK, Frame, FrameResized, OpenEncoder, KeyframeSent,
         srvState, encState, sesState, endState
<1>5. CASE FrameReopens
  BY <1>1, <1>5, ConstantsAssumption
     DEF TypeOK, FrameReopens, OpenEncoder, KeyframeSent, srvState, encState, sesState, endState
<1>6. CASE KeyTick \/ CloseAll \/ UNCHANGED vars
  BY <1>1, <1>6
     DEF TypeOK, KeyTick, CloseAll, vars, srvState, encState, sesState, endState
<1>7. ASSUME NEW h \in Holds, EndHold(h) PROVE TypeOK'
  BY <1>1, <1>7 DEF TypeOK, EndHold, srvState, encState, sesState, endState
<1>8. QED
  BY <1>1, <1>2, <1>3, <1>4, <1>5, <1>6, <1>7 DEF Next

(* What the other parts of the invariant speak of.                           *)
viewerVars == <<sessions, speaking, sinking, serve, leave, hold, ending, shut>>

\* A step that changes none of it keeps them.
LEMMA ViewersFrame ==
    ASSUME ViewersIInv, TypeOK', UNCHANGED viewerVars
    PROVE  ViewersIInv'
  BY DEF ViewersIInv, ArrivesOpen, TapTakenOff, SpeakerStopped, RemovalAlone, TapPutOn,
         SpeakerStarted, Starting, Stopping, viewerVars

LEMMA ArrivalStep ==
    ASSUME ViewersIInv, TypeOK', NEW s \in Sessions,
           Hello(s) \/ OfferFails(s) \/ Register(s) \/ Tap(s) \/ StartSpeaker(s) \/ Name(s)
    PROVE  ViewersIInv'
<1>1. CASE Hello(s)
  BY <1>1, ConstantsAssumption
     DEF Hello, ViewersIInv, TypeOK, ArrivesOpen, TapTakenOff, SpeakerStopped, RemovalAlone,
         TapPutOn, SpeakerStarted, Starting, Stopping, srvState, encState, endState
<1>2. CASE OfferFails(s)
  BY <1>2, ConstantsAssumption
     DEF OfferFails, ViewersIInv, TypeOK, ArrivesOpen, TapTakenOff, SpeakerStopped, RemovalAlone,
         TapPutOn, SpeakerStarted, Starting, Stopping, srvState, encState, endState
<1>3. CASE Register(s)
  BY <1>3, ConstantsAssumption
     DEF Register, ViewersIInv, TypeOK, ArrivesOpen, TapTakenOff, SpeakerStopped, RemovalAlone,
         TapPutOn, SpeakerStarted, Starting, Stopping, srvState, encState, endState
<1>4. CASE Tap(s)
  BY <1>4, ConstantsAssumption
     DEF Tap, ViewersIInv, TypeOK, ArrivesOpen, TapTakenOff, SpeakerStopped, RemovalAlone,
         TapPutOn, SpeakerStarted, Starting, Stopping, srvState, encState, endState
<1>5. CASE StartSpeaker(s)
  BY <1>5, ConstantsAssumption
     DEF StartSpeaker, ViewersIInv, TypeOK, ArrivesOpen, TapTakenOff, SpeakerStopped, RemovalAlone,
         TapPutOn, SpeakerStarted, Starting, Stopping, srvState, encState, endState
<1>6. CASE Name(s)
  BY <1>6, ConstantsAssumption
     DEF Name, ViewersIInv, TypeOK, ArrivesOpen, TapTakenOff, SpeakerStopped, RemovalAlone,
         TapPutOn, SpeakerStarted, Starting, Stopping, srvState, encState, endState
<1>7. QED
  BY <1>1, <1>2, <1>3, <1>4, <1>5, <1>6

LEMMA DepartureStep ==
    ASSUME ViewersIInv, TypeOK', NEW s \in Sessions, Closing(s)
    PROVE  ViewersIInv'
<1>1. CASE Leave(s)
  BY <1>1, ConstantsAssumption
     DEF Leave, BeginClose, ViewersIInv, TypeOK, ArrivesOpen, TapTakenOff, SpeakerStopped,
         RemovalAlone, TapPutOn, SpeakerStarted, Starting, Stopping, srvState, encState, endState
<1>2. CASE Remove(s)
  BY <1>2, ConstantsAssumption
     DEF Remove, ViewersIInv, TypeOK, ArrivesOpen, TapTakenOff, SpeakerStopped,
         RemovalAlone, TapPutOn, SpeakerStarted, Starting, Stopping, srvState, encState, endState
<1>3. CASE StopEncoder(s)
  BY <1>3, ConstantsAssumption
     DEF StopEncoder, ViewersIInv, TypeOK, ArrivesOpen, TapTakenOff, SpeakerStopped,
         RemovalAlone, TapPutOn, SpeakerStarted, Starting, Stopping, srvState, encState, endState
<1>4. CASE Drained(s)
  BY <1>4, ConstantsAssumption
     DEF Drained, ViewersIInv, TypeOK, ArrivesOpen, TapTakenOff, SpeakerStopped,
         RemovalAlone, TapPutOn, SpeakerStarted, Starting, Stopping, srvState, encState, endState
<1>5. CASE StopSpeaker(s)
  BY <1>5, ConstantsAssumption
     DEF StopSpeaker, ViewersIInv, TypeOK, ArrivesOpen, TapTakenOff, SpeakerStopped,
         RemovalAlone, TapPutOn, SpeakerStarted, Starting, Stopping, srvState, encState, endState
<1>6. CASE Forgotten(s)
  BY <1>6, ConstantsAssumption
     DEF Forgotten, ViewersIInv, TypeOK, ArrivesOpen, TapTakenOff, SpeakerStopped,
         RemovalAlone, TapPutOn, SpeakerStarted, Starting, Stopping, srvState, encState, endState
<1>7. CASE CloseNext(s)
  BY <1>7, ConstantsAssumption
     DEF CloseNext, BeginClose, ViewersIInv, TypeOK, ArrivesOpen, TapTakenOff, SpeakerStopped,
         RemovalAlone, TapPutOn, SpeakerStarted, Starting, Stopping, srvState, encState, endState
<1>8. QED
  BY <1>1, <1>2, <1>3, <1>4, <1>5, <1>6, <1>7 DEF Closing

LEMMA ViewersStep == ViewersIInv /\ [Next]_vars => ViewersIInv'
<1>1. SUFFICES ASSUME ViewersIInv, [Next]_vars PROVE ViewersIInv'
  OBVIOUS
<1>2. TypeOK'
  BY <1>1, TypeStep DEF ViewersIInv
<1>3. ASSUME NEW s \in Sessions, Serving(s) PROVE ViewersIInv'
  <2>1. CASE Connected(s) \/ PictureLoss(s) \/ ControlArrives(s) \/ OnControl(s) \/ MicStart(s)
             \/ MicEnd(s)
    <3>1. UNCHANGED viewerVars
      BY <2>1 DEF Connected, PictureLoss, ControlArrives, OnControl, MicStart, MicEnd,
                  RequestKeyframe, viewerVars, srvState, encState, sesState, endState
    <3>2. QED
      BY <1>1, <1>2, <3>1, ViewersFrame
  <2>2. QED
    BY <1>1, <1>2, <1>3, <2>1, ArrivalStep DEF Serving
<1>4. ASSUME NEW s \in Sessions, Closing(s) PROVE ViewersIInv'
  BY <1>1, <1>2, <1>4, DepartureStep
<1>5. ASSUME \/ \E size \in Sizes : Frame(size) \/ FrameResized(size)
             \/ FrameReopens \/ KeyTick \/ UNCHANGED vars
      PROVE  ViewersIInv'
  <2>1. UNCHANGED viewerVars
    BY <1>5 DEF Frame, FrameResized, FrameReopens, OpenEncoder, KeyframeSent, KeyTick, vars,
                viewerVars, srvState, encState, sesState, endState
  <2>2. QED
    BY <1>1, <1>2, <2>1, ViewersFrame
<1>6. CASE CloseAll
  BY <1>1, <1>2, <1>6
     DEF CloseAll, ViewersIInv, ArrivesOpen, TapTakenOff, SpeakerStopped, RemovalAlone, TapPutOn,
         SpeakerStarted
<1>7. ASSUME NEW h \in Holds, EndHold(h) PROVE ViewersIInv'
  BY <1>1, <1>2, <1>7, ConstantsAssumption
     DEF EndHold, ViewersIInv, TypeOK, ArrivesOpen, TapTakenOff, SpeakerStopped, RemovalAlone,
         TapPutOn, SpeakerStarted, Starting, Stopping, srvState, encState, sesState
<1>8. QED
  BY <1>1, <1>3, <1>4, <1>5, <1>6, <1>7 DEF Next

LEMMA ViewersInvariance == Spec => []ViewersIInv
<1>1. QED
  BY ViewersInitiates, ViewersStep, PTL DEF Spec

\* Every reachable state is well typed: each session is at one of the steps of
\* its arrival and of its removal, and holds one of the holds or none.
THEOREM ViewersTyped == Spec => []TypeOK
<1>1. ViewersIInv => TypeOK
  BY DEF ViewersIInv
<1>2. QED
  BY <1>1, ViewersInvariance, PTL

\* For any number of viewers: however their arrivals and departures overlap,
\* the tap on the capture loop and the speaker loop do not outlive the last.
THEOREM TapEndsWithLast == Spec => []TapEnds
<1>1. ViewersIInv => TapEnds
  BY DEF ViewersIInv, TapTakenOff, SpeakerStopped, TapEnds, Settled, Stopping
<1>2. QED
  BY <1>1, ViewersInvariance, PTL

\* Where nobody registers while the last viewer is being removed, picture and
\* sound run exactly while someone is there, ...
THEOREM PictureFollowsViewers == ASSUME Spaced PROVE Spec => []FollowsViewers
<1>1. ViewersIInv => FollowsViewers
  BY DEF ViewersIInv, TapTakenOff, SpeakerStopped, TapPutOn, SpeakerStarted, FollowsViewers,
         Settled, Starting, Stopping
<1>2. QED
  BY <1>1, ViewersInvariance, PTL

\* ... and the picture is not taken away from those who stay.
THEOREM PictureStays == ASSUME Spaced PROVE Spec => TapKept
<1>1. ViewersIInv /\ [Next]_vars => (sinking /\ ~sinking' => sessions = {} \/ shut)
  <2>1. SUFFICES ASSUME ViewersIInv, [Next]_vars, sinking, ~sinking' PROVE sessions = {} \/ shut
    OBVIOUS
  <2>2. \E s \in Sessions : StopEncoder(s)
    BY <2>1 DEF Next, Serving, Closing, Hello, OfferFails, Register, Tap, StartSpeaker, Name,
                Connected, PictureLoss, ControlArrives, OnControl, MicStart, MicEnd, Leave, Remove,
                Drained, StopSpeaker, Forgotten, CloseNext, Frame, FrameResized, FrameReopens,
                KeyTick, CloseAll, EndHold, vars, srvState, encState
  <2>3. QED
    BY <2>1, <2>2 DEF StopEncoder, ViewersIInv, RemovalAlone, Stopping
<1>2. QED
  BY <1>1, ViewersInvariance, PTL DEF Spec, TapKept

(* The microphone.                                                           *)
LEMMA MicStep == TypeOK /\ MicExclusive /\ [Next]_vars => MicExclusive'
<1>1. SUFFICES ASSUME TypeOK, MicExclusive, [Next]_vars PROVE MicExclusive'
  OBVIOUS
<1>2. ASSUME NEW s \in Sessions, MicStart(s) PROVE MicExclusive'
  BY <1>1, <1>2, ConstantsAssumption DEF MicStart, MicExclusive, TypeOK
<1>3. ASSUME NEW s \in Sessions, MicEnd(s) PROVE MicExclusive'
  BY <1>1, <1>3, ConstantsAssumption DEF MicEnd, MicExclusive, TypeOK
<1>4. ASSUME NEW s \in Sessions, Forgotten(s) PROVE MicExclusive'
  BY <1>1, <1>4 DEF Forgotten, MicExclusive, TypeOK, srvState
<1>5. ASSUME UNCHANGED <<mic, micOwner>> PROVE MicExclusive'
  BY <1>1, <1>5 DEF MicExclusive
<1>6. QED
  BY <1>1, <1>2, <1>3, <1>4, <1>5
     DEF Next, Serving, Closing, Hello, OfferFails, Register, Tap, StartSpeaker, Name, Connected,
         PictureLoss, ControlArrives, OnControl, Leave, Remove, StopEncoder, Drained, StopSpeaker,
         CloseNext, Frame, FrameResized, FrameReopens, KeyTick, CloseAll, EndHold, vars, srvState,
         sesState

\* For any number of viewers whose tracks start and end in any order: the one
\* whose sound reaches the phone is the owner of the microphone.
THEOREM OneMicrophone == Spec => []MicExclusive
<1>1. Init => MicExclusive /\ TypeOK
  BY ViewersInitiates, ConstantsAssumption DEF Init, MicExclusive, ViewersIInv
<1>2. QED
  BY <1>1, TypeStep, MicStep, PTL DEF Spec
=============================================================================
