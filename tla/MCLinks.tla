------------------------------ MODULE MCLinks ------------------------------
(* Instances of the two loops that keep a device up - the serial link to the *)
(* relay board, the capture - for TLC: a behaviour is one of either, the     *)
(* other resting. They share no state.                                       *)
EXTENDS RelayLink, CaptureManager

VARIABLE part   \* whose behaviour this is

linksVars == <<linkVars, captureVars, part>>

\* A capture that rests has no device to find.
LinksInit ==
    /\ LinkInit /\ CaptureInit
    /\ part \in {"link", "capture"}
    /\ part = "link" => ~dongle

LinksNext ==
    /\ UNCHANGED part
    /\ \/ part = "link" /\ LinkNext /\ UNCHANGED captureVars
       \/ part = "capture" /\ CaptureNext /\ UNCHANGED linkVars

InLink(A)    == part = "link" /\ A /\ UNCHANGED <<captureVars, part>>
InCapture(A) == part = "capture" /\ A /\ UNCHANGED <<linkVars, part>>

\* LinkFairness and CaptureFairness, each of the part at work.
LinksFairness ==
    /\ WF_linksVars(InLink(LinkRun))
    /\ WF_linksVars(InCapture(CaptureRun))
    /\ WF_linksVars(InCapture(NotifySettingsChanged))
    /\ SF_linksVars(InCapture(MonitorResets))
    /\ \A l \in Loops : WF_linksVars(InCapture(CaptureLoop(l)))
    /\ \A r \in Resets : WF_linksVars(InCapture(RefuseReset(r)))

LinksLive == LinksInit /\ [][LinksNext]_linksVars /\ LinksFairness

\* The variables of the part at work keep their types.
LinksTypeOK ==
    /\ part = "link" => RelayTypeOK
    /\ part = "capture" => CaptureTypeOK
=============================================================================
