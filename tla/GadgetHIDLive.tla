---------------------------- MODULE GadgetHIDLive ----------------------------
(* GadgetHID for liveness: from some point on the phone stays attached, no *)
(* new call is made and the process lives.                                 *)
EXTENDS GadgetHID

VARIABLE calm
liveVars == <<vars, calm>>

LiveInit == Init /\ calm = FALSE

CalmDown ==
    /\ ~calm /\ calm' = TRUE
    /\ gadget /\ host = "configured" /\ proc = "up"
    /\ UNCHANGED vars

\* What goes on when calm: the monitor, the phone collecting its reports, the
\* calls and the reset already begun.
Settling ==
    \/ Monitor
    \/ \E f \in Fns : \/ Collect(f) \/ SendMid(f) \/ SendLast(f)
                      \/ ResetForget(f) \/ ResetRelayClose(f)
    \/ ResetNext

LiveNext ==
    \/ CalmDown
    \/ ~calm /\ Next /\ UNCHANGED calm
    \/ calm /\ Settling /\ UNCHANGED calm

PollOpens(f) == PollSync(f) /\ dev'[f] = "open"

\* The monitor's goroutine runs, the phone polls its endpoints, calls finish,
\* and a node that can be opened is not refused for ever.
Fairness ==
    /\ WF_liveVars(Monitor /\ UNCHANGED calm)
    /\ WF_liveVars(ResetNext /\ UNCHANGED calm)
    /\ \A f \in Fns :
        /\ WF_liveVars(Collect(f) /\ UNCHANGED calm)
        /\ WF_liveVars(SendLast(f) /\ UNCHANGED calm)
        /\ WF_liveVars((ResetForget(f) \/ ResetRelayClose(f)) /\ UNCHANGED calm)
        /\ SF_liveVars(PollOpens(f) /\ UNCHANGED calm)

LiveSpec == LiveInit /\ [][LiveNext]_liveVars /\ Fairness

\* A state that did not land is resent until it does (hidFunction.dirty), and
\* no call is stuck: with the phone attached for good, nothing stays owed.
OwedLands == calm ~> [](\A f \in Fns : ~dirty[f] /\ call[f] = Idle)

\* In the end the phone holds what roadie holds, whatever the mixture of
\* failures, replugs, a suspended bus, kills and restarts that came before:
\* only a reset that forgot something it had sent is an exception.
PhoneConverges ==
    calm ~> [](\A f \in Fns : lost[f] # "reset" => phone[f] \subseteq held[f])

\* Nothing held from before the phone's last enumeration is kept, and so sent
\* with the next report: the replug was noticed even between two polls
\* (GadgetHID.reenumerated).
ReplugNoticed == calm ~> [](\A f \in Fns : carried[f] = {})
=============================================================================
