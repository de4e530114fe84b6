---------------------------- MODULE LinkProofs -----------------------------
(* Proofs about the two loops that keep a device up: RelayLink, for any set  *)
(* of descriptors and any bounds on faults and on pings outstanding;         *)
(* CaptureManager, for any set of loops, of requests and of settings and any *)
(* limit on dark pictures; and the two side by side, as MCLinks runs them.   *)
EXTENDS MCLinks, TLAPS

(***************************************************************************)
(* The relay link.                                                         *)
(***************************************************************************)

PortTypeOK ==
    /\ handles \subseteq Handles
    /\ {port, runPort, shutPort} \subseteq Handles \cup {NoPort}
    /\ missed \in 0..relayMissedPingLimit /\ quiet \in 0..relayMissedPingLimit

(* Descriptors. HandlesOwned alone does not say that Run, Shutdown and the   *)
(* controller own different ones, nor that Run opens one only when the       *)
(* controller has none; without that StorePort would lose the old one.       *)

OwnersApart ==
    /\ runPc \in {"find", "store", "pause"} => port = NoPort
    /\ runPc = "store" => runPort # NoPort
    /\ shutPc = "closing" => shutPort # NoPort /\ shutPort # port
    /\ runPc = "store" /\ shutPc = "closing" => runPort # shutPort

HandlesIInv == PortTypeOK /\ OwnersApart /\ HandlesOwned

(* Pings. A miss counts as one the relay did not answer, but the one that    *)
(* finds the port closed: there is no ping after that on this connection.    *)

MissesUnanswered ==
    /\ runPc \in {"watch", "ping", "send", "read"} => missed < relayMissedPingLimit
    /\ runPc = "watch" => quiet >= missed \/ (port = NoPort /\ quiet + 1 >= missed)
    /\ runPc \in {"ping", "send"} => quiet >= missed
    /\ runPc = "read" => quiet > missed

LinkIInv == HandlesIInv /\ MissesUnanswered /\ RecoverySparesAnswering

LEMMA LinkInitiates == LinkInit => LinkIInv
  BY LinkConstants
     DEF LinkInit, LinkIInv, HandlesIInv, PortTypeOK, OwnersApart, HandlesOwned, MissesUnanswered,
         RecoverySparesAnswering, relayMissedPingLimit

\* A miss is one more, and the third is answered with a recovery.
LEMMA MissCounts ==
    ASSUME missed \in 0..relayMissedPingLimit, missed < relayMissedPingLimit, Miss
    PROVE  /\ missed' = missed + 1 /\ missed' \in 0..relayMissedPingLimit
           /\ runPc' = IF missed' < relayMissedPingLimit THEN "watch" ELSE "recover"
  BY DEF Miss, relayMissedPingLimit

LEMMA RunStep == LinkIInv /\ LinkRun => LinkIInv'
<1>1. SUFFICES ASSUME LinkIInv, LinkRun PROVE LinkIInv'
  OBVIOUS
<1>2. CASE RunCancelled
  BY <1>1, <1>2, LinkConstants
     DEF RunCancelled, LinkIInv, HandlesIInv, PortTypeOK, OwnersApart, HandlesOwned,
         MissesUnanswered, RecoverySparesAnswering, portVars, shutVars
<1>3. CASE OpenPort
  BY <1>1, <1>3, LinkConstants
     DEF OpenPort, LinkIInv, HandlesIInv, PortTypeOK, OwnersApart, HandlesOwned,
         MissesUnanswered, RecoverySparesAnswering, portVars, shutVars
<1>4. CASE StorePort
  BY <1>1, <1>4, LinkConstants
     DEF StorePort, LinkIInv, HandlesIInv, PortTypeOK, OwnersApart, HandlesOwned,
         MissesUnanswered, RecoverySparesAnswering, portVars, shutVars
<1>5. CASE BindPath
  BY <1>1, <1>5, LinkConstants
     DEF BindPath, LinkIInv, HandlesIInv, PortTypeOK, OwnersApart, HandlesOwned,
         MissesUnanswered, RecoverySparesAnswering, portVars, shutVars, relayMissedPingLimit
<1>6. CASE Watch
  BY <1>1, <1>6, LinkConstants
     DEF Watch, LinkIInv, HandlesIInv, PortTypeOK, OwnersApart, HandlesOwned,
         MissesUnanswered, RecoverySparesAnswering, portVars, shutVars
<1>7. CASE PingTake
  <2>1. CASE port = NoPort /\ Miss /\ UNCHANGED <<runPort, inbuf>>
    BY <1>1, <1>7, <2>1, MissCounts, LinkConstants
       DEF PingTake, LinkIInv, HandlesIInv, PortTypeOK, OwnersApart, HandlesOwned,
           MissesUnanswered, RecoverySparesAnswering, portVars, shutVars, relayMissedPingLimit
  <2>2. CASE port # NoPort
    BY <1>1, <1>7, <2>2, LinkConstants
       DEF PingTake, LinkIInv, HandlesIInv, PortTypeOK, OwnersApart, HandlesOwned,
           MissesUnanswered, RecoverySparesAnswering, portVars, shutVars
  <2>3. QED
    BY <1>7, <2>1, <2>2 DEF PingTake
<1>8. CASE PingSend
  <2>1. CASE port = NoPort /\ Miss /\ UNCHANGED <<portVars, pinged, quiet>>
    BY <1>1, <1>8, <2>1, MissCounts, LinkConstants
       DEF PingSend, LinkIInv, HandlesIInv, PortTypeOK, OwnersApart, HandlesOwned,
           MissesUnanswered, RecoverySparesAnswering, portVars, shutVars, relayMissedPingLimit
  <2>2. CASE port # NoPort /\ port # good /\ DropPort /\ Miss /\ UNCHANGED <<pinged, quiet>>
    BY <1>1, <1>8, <2>2, MissCounts, LinkConstants
       DEF PingSend, DropPort, LinkIInv, HandlesIInv, PortTypeOK, OwnersApart, HandlesOwned,
           MissesUnanswered, RecoverySparesAnswering, portVars, shutVars, relayMissedPingLimit
  <2>3. CASE /\ runPc' = "read" /\ UNCHANGED <<portVars, missed>>
             /\ quiet' = IF quiet < relayMissedPingLimit THEN quiet + 1 ELSE quiet
    BY <1>1, <1>8, <2>3, LinkConstants
       DEF PingSend, LinkIInv, HandlesIInv, PortTypeOK, OwnersApart, HandlesOwned,
           MissesUnanswered, RecoverySparesAnswering, portVars, shutVars, relayMissedPingLimit
  <2>4. QED
    BY <1>8, <2>1, <2>2, <2>3 DEF PingSend
<1>9. CASE PingRead
  <2>1. UNCHANGED <<portVars, shutVars, runPort>> /\ runPc = "read"
    BY <1>9 DEF PingRead
  <2>2. CASE missed' = 0 /\ quiet' = 0 /\ runPc' = "watch"
    BY <1>1, <2>1, <2>2, LinkConstants
       DEF LinkIInv, HandlesIInv, PortTypeOK, OwnersApart, HandlesOwned,
           MissesUnanswered, RecoverySparesAnswering, portVars, shutVars, relayMissedPingLimit
  <2>3. CASE Miss /\ UNCHANGED quiet
    BY <1>1, <2>1, <2>3, MissCounts, LinkConstants
       DEF LinkIInv, HandlesIInv, PortTypeOK, OwnersApart, HandlesOwned,
           MissesUnanswered, RecoverySparesAnswering, portVars, shutVars, relayMissedPingLimit
  <2>4. QED
    BY <1>9, <2>2, <2>3 DEF PingRead, Answered
<1>10. CASE SoftReboot \/ ResetUSB \/ GiveUp \/ GiveUpWaited
  BY <1>1, <1>10
     DEF SoftReboot, ResetUSB, GiveUp, GiveUpWaited, LinkIInv, HandlesIInv, PortTypeOK, OwnersApart,
         HandlesOwned, MissesUnanswered, RecoverySparesAnswering, portVars, shutVars
<1>11. CASE ClosePort
  BY <1>1, <1>11, LinkConstants
     DEF ClosePort, LinkIInv, HandlesIInv, PortTypeOK, OwnersApart, HandlesOwned,
         MissesUnanswered, RecoverySparesAnswering, portVars, shutVars
<1>12. CASE Paused
  BY <1>1, <1>12
     DEF Paused, LinkIInv, HandlesIInv, PortTypeOK, OwnersApart, HandlesOwned,
         MissesUnanswered, RecoverySparesAnswering, portVars, shutVars
<1>13. QED
  BY <1>1, <1>2, <1>3, <1>4, <1>5, <1>6, <1>7, <1>8, <1>9, <1>10, <1>11, <1>12 DEF LinkRun

LEMMA LinkStep == LinkIInv /\ [LinkNext]_linkVars => LinkIInv'
<1>1. SUFFICES ASSUME LinkIInv, [LinkNext]_linkVars PROVE LinkIInv'
  OBVIOUS
<1>2. CASE LinkCommand
  BY <1>1, <1>2, LinkConstants
     DEF LinkCommand, DropPort, LinkIInv, HandlesIInv, PortTypeOK, OwnersApart, HandlesOwned,
         MissesUnanswered, RecoverySparesAnswering, shutVars, runVars
<1>3. CASE ShutdownTake
  BY <1>1, <1>3, LinkConstants
     DEF ShutdownTake, LinkIInv, HandlesIInv, PortTypeOK, OwnersApart, HandlesOwned,
         MissesUnanswered, RecoverySparesAnswering, runVars
<1>4. CASE ShutdownClose
  BY <1>1, <1>4, LinkConstants
     DEF ShutdownClose, LinkIInv, HandlesIInv, PortTypeOK, OwnersApart, HandlesOwned,
         MissesUnanswered, RecoverySparesAnswering, runVars
<1>5. CASE ShutdownCancel
  BY <1>1, <1>5
     DEF ShutdownCancel, LinkIInv, HandlesIInv, PortTypeOK, OwnersApart, HandlesOwned,
         MissesUnanswered, RecoverySparesAnswering, portVars, runVars
<1>6. CASE ResetSelf \/ RelayAnswers \/ RelayWedges \/ RelayUnplugged \/ RelayReturns
           \/ PowerChanges \/ UNCHANGED linkVars
  BY <1>1, <1>6
     DEF ResetSelf, RelayAnswers, RelayWedges, RelayUnplugged, RelayReturns, PowerChanges, linkVars,
         LinkIInv, HandlesIInv, PortTypeOK, OwnersApart, HandlesOwned, MissesUnanswered,
         RecoverySparesAnswering, portVars, shutVars, runVars
<1>7. QED
  BY <1>1, <1>2, <1>3, <1>4, <1>5, <1>6, RunStep DEF LinkNext

LEMMA LinkInvariance == LinkSpec => []LinkIInv
<1>1. QED
  BY LinkInitiates, LinkStep, PTL DEF LinkSpec

\* For any number of descriptors: whatever commands, Shutdown and Run do to
\* the port meanwhile, every one that is open has an owner who closes it.
THEOREM NoHandleLeaks == LinkSpec => []HandlesOwned
<1>1. LinkIInv => HandlesOwned
  BY DEF LinkIInv, HandlesIInv
<1>2. QED
  BY <1>1, LinkInvariance, PTL

\* For any number of faults and pings outstanding: a relay is recovered only
\* after it has left the pings of this connection unanswered.
THEOREM AnsweringIsSpared == LinkSpec => []RecoverySparesAnswering
<1>1. LinkIInv => RecoverySparesAnswering
  BY DEF LinkIInv
<1>2. QED
  BY <1>1, LinkInvariance, PTL

\* The rest of the link's state keeps its types too: what the relay has yet to
\* answer and how often the board fails stay within their bounds.
BoardTypeOK ==
    /\ relay \in {"up", "wedged", "gone"}
    /\ pinged \in 0..MaxDue /\ inbuf \subseteq {"ok", "silent"} /\ faults \in 0..MaxFaults
    /\ good \in Handles \cup {NoPort} /\ attempts \in 0..3

ControlTypeOK ==
    /\ powered \in BOOLEAN /\ bound \in BOOLEAN /\ boardSilent \in BOOLEAN
    /\ cancelled \in BOOLEAN
    /\ runPc \in {"find", "store", "bind", "watch", "ping", "send", "read", "recover",
                  "giveup", "close", "pause", "end"}
    /\ shutPc \in {"no", "cancelled", "closing", "done"}

LEMMA RelayTypeParts == RelayTypeOK <=> PortTypeOK /\ BoardTypeOK /\ ControlTypeOK
  BY DEF RelayTypeOK, PortTypeOK, BoardTypeOK, ControlTypeOK

LEMMA ControlTypeStep == ControlTypeOK /\ [LinkNext]_linkVars => ControlTypeOK'
<1>1. SUFFICES ASSUME ControlTypeOK, [LinkNext]_linkVars PROVE ControlTypeOK'
  OBVIOUS
<1> USE DEF boardVars, portVars, shutVars, runVars
<1>2. CASE RunCancelled \/ OpenPort \/ StorePort \/ BindPath \/ Watch
  BY <1>1, <1>2 DEF RunCancelled, OpenPort, StorePort, BindPath, Watch, ControlTypeOK
<1>3. CASE PingTake \/ PingSend \/ PingRead
  BY <1>1, <1>3 DEF PingTake, PingSend, DropPort, PingRead, Miss, Answered, ControlTypeOK
<1>4. CASE SoftReboot \/ ResetUSB \/ GiveUp \/ GiveUpWaited \/ ClosePort \/ Paused
  BY <1>1, <1>4 DEF SoftReboot, ResetUSB, GiveUp, GiveUpWaited, ClosePort, Paused, ControlTypeOK
<1>5. CASE LinkCommand
  BY <1>1, <1>5 DEF LinkCommand, DropPort, ControlTypeOK
<1>6. CASE ShutdownCancel \/ ShutdownTake \/ ShutdownClose
  BY <1>1, <1>6 DEF ShutdownCancel, ShutdownTake, ShutdownClose, ControlTypeOK
<1>7. CASE PowerChanges
  BY <1>1, <1>7 DEF PowerChanges, ControlTypeOK
<1>8. CASE ResetSelf \/ RelayAnswers \/ RelayWedges \/ RelayUnplugged \/ RelayReturns
           \/ UNCHANGED linkVars
  <2>1. UNCHANGED <<powered, bound, boardSilent, cancelled, runPc, shutPc>>
    BY <1>8 DEF ResetSelf, RelayAnswers, RelayWedges, RelayUnplugged, RelayReturns, linkVars
  <2>2. QED
    BY <1>1, <2>1 DEF ControlTypeOK
<1>9. QED
  BY <1>1, <1>2, <1>3, <1>4, <1>5, <1>6, <1>7, <1>8 DEF LinkNext, LinkRun

LEMMA BoardTypeStep == BoardTypeOK /\ [LinkNext]_linkVars => BoardTypeOK'
<1>1. SUFFICES ASSUME BoardTypeOK, [LinkNext]_linkVars PROVE BoardTypeOK'
  OBVIOUS
<1> USE DEF boardVars, portVars, shutVars, runVars
<1>2. MaxDue \in Nat /\ MaxFaults \in Nat
  BY LinkConstants
<1>3. CASE RunCancelled \/ OpenPort \/ StorePort \/ BindPath \/ Watch
  BY <1>1, <1>3 DEF RunCancelled, OpenPort, StorePort, BindPath, Watch, BoardTypeOK
<1>4. CASE PingTake \/ PingSend \/ PingRead
  <2>1. UNCHANGED <<relay, faults, good>>
    BY <1>4 DEF PingTake, PingSend, PingRead
  <2>2. inbuf' \in {inbuf, {}}
    BY <1>4 DEF PingTake, PingSend, PingRead
  <2>3. pinged' \in {pinged, IF pinged < MaxDue THEN pinged + 1 ELSE pinged}
    BY <1>4 DEF PingTake, PingSend, PingRead
  <2>4. attempts' \in {0, attempts, IF attempts < 3 THEN attempts + 1 ELSE 3}
    BY <1>4 DEF PingTake, PingSend, PingRead, Miss, Answered
  <2>5. QED
    BY <1>1, <1>2, <2>1, <2>2, <2>3, <2>4 DEF BoardTypeOK
<1>5. CASE SoftReboot \/ ResetUSB \/ GiveUp \/ GiveUpWaited \/ ClosePort \/ Paused
  <2>1. /\ UNCHANGED <<inbuf, faults, attempts>>
        /\ relay' \in {relay, "up"} /\ pinged' \in {pinged, 0} /\ good' \in {good, NoPort}
    BY <1>5 DEF SoftReboot, ResetUSB, GiveUp, GiveUpWaited, ClosePort, Paused
  <2>2. QED
    BY <1>1, <1>2, <2>1 DEF BoardTypeOK
<1>6. CASE LinkCommand \/ ShutdownCancel \/ ShutdownTake \/ ShutdownClose \/ PowerChanges
           \/ UNCHANGED linkVars
  <2>1. UNCHANGED <<relay, pinged, inbuf, faults, good, attempts>>
    BY <1>6
       DEF LinkCommand, ShutdownCancel, ShutdownTake, ShutdownClose, PowerChanges, linkVars
  <2>2. QED
    BY <1>1, <2>1 DEF BoardTypeOK
<1>7. CASE ResetSelf \/ RelayWedges \/ RelayUnplugged \/ RelayReturns
  <2>1. /\ attempts' = attempts /\ relay' \in {"up", "wedged", "gone"}
        /\ inbuf' \in {inbuf, {}} /\ pinged' \in {pinged, 0} /\ good' \in {good, NoPort}
    BY <1>7 DEF ResetSelf, RelayWedges, RelayUnplugged, RelayReturns
  <2>2. faults' = faults \/ (faults < MaxFaults /\ faults' = faults + 1)
    BY <1>7 DEF ResetSelf, RelayWedges, RelayUnplugged, RelayReturns
  <2>3. QED
    BY <1>1, <1>2, <2>1, <2>2 DEF BoardTypeOK
<1>8. CASE RelayAnswers
  BY <1>1, <1>2, <1>8 DEF RelayAnswers, BoardTypeOK
<1>9. QED
  BY <1>1, <1>3, <1>4, <1>5, <1>6, <1>7, <1>8 DEF LinkNext, LinkRun

LEMMA RelayTyped == LinkSpec => []RelayTypeOK
<1>1. LinkInit => BoardTypeOK
  BY LinkConstants DEF LinkInit, BoardTypeOK
<1>2. LinkInit => ControlTypeOK
  BY DEF LinkInit, ControlTypeOK
<1>3. LinkIInv => PortTypeOK
  BY DEF LinkIInv, HandlesIInv
<1>4. QED
  BY <1>1, <1>2, <1>3, LinkInvariance, ControlTypeStep, BoardTypeStep, RelayTypeParts, PTL DEF LinkSpec

(***************************************************************************)
(* The capture.                                                            *)
(***************************************************************************)

\* From its start until it is drained a capture's loop exists, and until then it
\* is told to stop only with everything else; otherwise there is a goroutine to
\* start it on, since Run leaves at most one loop behind.
LoopsInOrder ==
    /\ phase \in {"opened", "watch", "drain"} => cur \in Loops
    /\ phase \notin {"opened", "watch", "drain"} => \E l \in Loops : ~loop[l].on
    /\ phase \in {"opened", "watch"} /\ loop[cur].on /\ loop[cur].told => stopped

CaptureIInv == CaptureTypeOK /\ LoopsInOrder /\ StatusAgrees

LoopState == [on : BOOLEAN, told : BOOLEAN, set : Settings, lost : BOOLEAN,
              still : 0..MaxStill + 1, at : {"top", "read"}]

LEMMA LoopFacts ==
    /\ MaxStill \in Nat /\ MaxStill > 0 /\ AnySetting \in Settings /\ NoLoop \notin Loops
    /\ OffLoop \in LoopState /\ ~OffLoop.on /\ ~OffLoop.told /\ OffLoop.still = 0
    /\ \A l \in Loops : \E m \in Loops : m # l
    /\ \E l \in Loops : TRUE
<1>1. /\ MaxStill \in Nat /\ MaxStill > 0 /\ AnySetting \in Settings /\ NoLoop \notin Loops
      /\ \A l \in Loops : \E m \in Loops : m # l
      /\ \E l \in Loops : TRUE
  BY CaptureConstants DEF AnySetting
<1>2. QED
  BY <1>1 DEF OffLoop, LoopState

LEMMA CaptureInitiates == CaptureInit => CaptureIInv
<1>1. SUFFICES ASSUME CaptureInit PROVE CaptureIInv
  OBVIOUS
<1>2. CaptureTypeOK
  BY <1>1, LoopFacts DEF CaptureInit, CaptureTypeOK, LoopState
<1>3. LoopsInOrder /\ StatusAgrees
  BY <1>1, LoopFacts DEF CaptureInit, LoopsInOrder, StatusAgrees
<1>4. QED
  BY <1>2, <1>3 DEF CaptureIInv

\* A loop that is only told to stop, or loses its device, goes on as it was.
LEMMA LoopsKept ==
    ASSUME CaptureIInv, loop' \in [Loops -> LoopState],
           \A l \in Loops : loop'[l].on = loop[l].on /\ loop'[l].still = loop[l].still,
           \A l \in Loops : loop'[l].told => loop[l].told \/ stopped',
           UNCHANGED <<capStatus, mixed, cur, phase, wanted, asking, reason>>,
           stopped => stopped',
           dongle' \in BOOLEAN, unsaid' \in BOOLEAN, token' \in BOOLEAN, stopped' \in BOOLEAN
    PROVE  CaptureIInv'
<1>1. CaptureTypeOK'
  BY DEF CaptureIInv, CaptureTypeOK, LoopState
<1>2. LoopsInOrder'
  BY DEF CaptureIInv, LoopsInOrder
<1>3. StatusAgrees'
  BY DEF CaptureIInv, LoopsInOrder, StatusAgrees
<1>4. QED
  BY <1>1, <1>2, <1>3 DEF CaptureIInv

LEMMA CaptureRunStep == CaptureIInv /\ CaptureRun => CaptureIInv'
<1>1. SUFFICES ASSUME CaptureIInv, CaptureRun PROVE CaptureIInv'
  OBVIOUS
<1> USE DEF bufVars, askVars
<1>2. CaptureTypeOK /\ LoopsInOrder /\ StatusAgrees /\ loop \in [Loops -> LoopState]
  BY <1>1 DEF CaptureIInv, CaptureTypeOK, LoopState
<1>3. CASE DetectDevice \/ Pause
  BY <1>2, <1>3 DEF DetectDevice, Pause, CaptureIInv, CaptureTypeOK, LoopsInOrder, StatusAgrees
<1>4. CASE StartCapture
  <2> DEFINE l == CHOOSE l \in Loops : ~loop[l].on
             new == [OffLoop EXCEPT !.on = TRUE, !.set = wanted, !.told = stopped]
  <2>1. phase = "open" /\ l \in Loops /\ ~loop[l].on
    BY <1>2, <1>4 DEF StartCapture, LoopsInOrder
  <2>2. new \in LoopState /\ new.on /\ new.told = stopped /\ new.still = 0
    BY <1>2, LoopFacts DEF CaptureTypeOK, OffLoop, LoopState
  <2>3. CASE /\ loop' = [loop EXCEPT ![l] = new]
             /\ cur' = l /\ phase' = "opened" /\ UNCHANGED bufVars
    <3> HIDE DEF l, new
    <3>1. loop' \in [Loops -> LoopState] /\ loop'[l] = new
      BY <1>2, <2>1, <2>2, <2>3
    <3>2. CaptureTypeOK'
      BY <1>2, <1>4, <2>1, <2>3, <3>1 DEF StartCapture, CaptureTypeOK, LoopState
    <3>3. LoopsInOrder'
      BY <1>4, <2>1, <2>2, <2>3, <3>1 DEF StartCapture, LoopsInOrder
    <3>4. StatusAgrees'
      BY <2>3 DEF StatusAgrees
    <3>5. QED
      BY <3>2, <3>3, <3>4 DEF CaptureIInv
  <2>4. CASE phase' \in {"end", "detect"} /\ UNCHANGED <<loop, cur, bufVars>>
    BY <1>2, <1>4, <2>1, <2>4
       DEF StartCapture, CaptureIInv, CaptureTypeOK, LoopsInOrder, StatusAgrees
  <2>5. QED
    BY <1>4, <2>3, <2>4 DEF StartCapture
<1>5. CASE MonitorEnds \/ MonitorResets
  <2>1. cur \in Loops /\ phase' = "drain" /\ cur' = cur
        /\ reason' \in {"shutdown", "disconnect", "settings", "reset"}
    BY <1>2, <1>5 DEF MonitorEnds, MonitorResets, Leave, LoopsInOrder
  <2>2. Told \in [Loops -> LoopState]
    <3> DEFINE new == [loop[cur] EXCEPT !.told = @ \/ loop[cur].on, !.set = AnySetting]
    <3>1. new \in LoopState
      BY <1>2, <2>1, LoopFacts DEF LoopState
    <3>2. Told = [loop EXCEPT ![cur] = new]
      BY DEF Told
    <3> HIDE DEF new
    <3>3. QED
      BY <1>2, <2>1, <3>1, <3>2
  <2>3. loop' \in [Loops -> LoopState]
    <3>1. ASSUME NEW l \in Loops PROVE [Told[l] EXCEPT !.lost = @ \/ loop[l].on] \in LoopState
      BY <1>2, <2>2 DEF LoopState
    <3>2. QED
      BY <1>5, <2>2, <3>1 DEF MonitorEnds, MonitorResets
  <2>4. CaptureTypeOK'
    <3>1. UNCHANGED <<capStatus, wanted, stopped>> /\ mixed' = FALSE /\ asking' \in [Resets -> {"no", "waiting", "done"}]
          /\ dongle' \in BOOLEAN /\ unsaid' \in BOOLEAN /\ token' \in BOOLEAN
      BY <1>2, <1>5 DEF MonitorEnds, MonitorResets, Leave, CaptureTypeOK
    <3>2. QED
      BY <1>2, <2>1, <2>3, <3>1 DEF CaptureTypeOK, LoopState
  <2>5. QED
    BY <2>1, <2>4 DEF CaptureIInv, LoopsInOrder, StatusAgrees
<1>6. CASE Drained
  <2>1. cur \in Loops /\ phase' \in {"end", "pause", "detect"} /\ cur' = NoLoop
        /\ UNCHANGED loop
    BY <1>2, <1>6 DEF Drained, LoopsInOrder
  <2>2. /\ loop' \in [Loops -> LoopState]
        /\ \A l \in Loops : loop'[l].on = loop[l].on
    BY <1>2, <2>1
  <2>3. \E l \in Loops : ~loop'[l].on
    BY <1>6, <2>1, <2>2, LoopFacts DEF Drained
  <2>4. CaptureTypeOK'
    BY <1>2, <1>6, <2>1, <2>2 DEF Drained, CaptureTypeOK, LoopState
  <2>5. QED
    BY <2>1, <2>3, <2>4 DEF CaptureIInv, LoopsInOrder, StatusAgrees
<1>7. CASE CaptureStarted
  <2>1. /\ phase = "opened" /\ phase' = "watch" /\ capStatus' = "connected"
        /\ mixed' = (~loop[cur].on \/ loop[cur].still >= MaxStill)
        /\ UNCHANGED <<dongle, wanted, unsaid, token, asking, stopped, reason, cur, loop>>
    BY <1>7 DEF CaptureStarted
  <2>2. cur \in Loops /\ loop[cur].on \in BOOLEAN
    BY <1>2, <2>1 DEF LoopsInOrder, LoopState
  <2>3. CaptureTypeOK'
    BY <1>2, <2>1, <2>2 DEF CaptureTypeOK
  <2>4. LoopsInOrder'
    BY <1>2, <2>1 DEF LoopsInOrder
  <2>5. StatusAgrees'
    BY <2>1 DEF StatusAgrees
  <2>6. QED
    BY <2>3, <2>4, <2>5 DEF CaptureIInv
<1>8. QED
  BY <1>1, <1>3, <1>4, <1>5, <1>6, <1>7 DEF CaptureRun

LEMMA CaptureLoopStep == ASSUME NEW l \in Loops PROVE CaptureIInv /\ CaptureLoop(l) => CaptureIInv'
<1>1. SUFFICES ASSUME CaptureIInv, CaptureLoop(l) PROVE CaptureIInv'
  OBVIOUS
<1> USE DEF bufVars, askVars, runVarsC
<1>2. CaptureTypeOK /\ LoopsInOrder /\ StatusAgrees /\ loop \in [Loops -> LoopState]
  BY <1>1 DEF CaptureIInv, CaptureTypeOK, LoopState
<1>3. loop[l].on /\ UNCHANGED <<dongle, askVars, runVarsC>>
  BY <1>1 DEF CaptureLoop, LoopTop, ReadFails, ReadPicture
<1>4. ASSUME NEW state \in LoopState, loop' = [loop EXCEPT ![l] = state],
             state.on => state.told = loop[l].told,
             \/ UNCHANGED bufVars
             \/ \E status \in {"connected", "no_signal", "disconnected"} : WriteStatus(l, status),
             phase = "watch" /\ ~mixed' /\ l = cur =>
                IF state.on
                THEN capStatus' = IF state.still >= MaxStill THEN "no_signal" ELSE "connected"
                ELSE stopped \/ capStatus' = "disconnected"
      PROVE  CaptureIInv'
  <2>1. loop' \in [Loops -> LoopState] /\ loop'[l] = state
        /\ \A m \in Loops \ {l} : loop'[m] = loop[m]
    BY <1>2, <1>4
  <2>2. CaptureTypeOK'
    <3>1. /\ capStatus' \in {"connecting", "connected", "no_signal", "disconnected"}
          /\ mixed' \in BOOLEAN
      BY <1>2, <1>4 DEF CaptureTypeOK, WriteStatus
    <3>2. QED
      BY <1>2, <1>3, <2>1, <3>1 DEF CaptureTypeOK, LoopState
  <2>3. LoopsInOrder'
    BY <1>2, <1>3, <1>4, <2>1 DEF LoopsInOrder
  <2>4. phase = "watch" /\ ~mixed' /\ l # cur => UNCHANGED bufVars /\ ~mixed
    BY <1>4, Zenon DEF WriteStatus
  <2>5. StatusAgrees'
    BY <1>2, <1>3, <1>4, <2>1, <2>4 DEF StatusAgrees, LoopsInOrder
  <2>6. QED
    BY <2>2, <2>3, <2>5 DEF CaptureIInv
<1>5. CASE LoopTop(l)
  <2>1. CASE loop[l].told
    <3>1. loop' = [loop EXCEPT ![l] = OffLoop]
      BY <1>5, <2>1 DEF LoopTop
    <3>2. phase = "watch" /\ l = cur => stopped
      BY <1>2, <1>3, <2>1 DEF LoopsInOrder
    <3>3. UNCHANGED bufVars
      BY <1>5 DEF LoopTop
    <3>4. QED
      BY <1>4, <3>1, <3>2, <3>3, LoopFacts
  <2>2. CASE ~loop[l].told
    <3> DEFINE state == [loop[l] EXCEPT !.at = "read"]
    <3>1. state \in LoopState /\ state.on = loop[l].on /\ state.told = loop[l].told
          /\ state.still = loop[l].still
      BY <1>2 DEF LoopState
    <3>2. loop' = [loop EXCEPT ![l] = state] /\ UNCHANGED bufVars
      BY <1>2, <1>5, <2>2 DEF LoopTop
    <3>3. phase = "watch" /\ ~mixed' /\ l = cur =>
             capStatus' = IF loop[l].still >= MaxStill THEN "no_signal" ELSE "connected"
      BY <1>2, <1>3, <3>2 DEF StatusAgrees
    <3> HIDE DEF state
    <3>4. QED
      BY <1>3, <1>4, <3>1, <3>2, <3>3
  <2>3. QED
    BY <2>1, <2>2
<1>6. CASE ReadFails(l)
  <2>1. CASE loop' = [loop EXCEPT ![l].at = "top"] /\ UNCHANGED bufVars
    <3> DEFINE state == [loop[l] EXCEPT !.at = "top"]
    <3>1. state \in LoopState /\ state.on = loop[l].on /\ state.told = loop[l].told
          /\ state.still = loop[l].still
      BY <1>2 DEF LoopState
    <3>2. loop' = [loop EXCEPT ![l] = state]
      BY <1>2, <2>1
    <3>3. phase = "watch" /\ ~mixed' /\ l = cur =>
             capStatus' = IF loop[l].still >= MaxStill THEN "no_signal" ELSE "connected"
      BY <1>2, <1>3, <2>1 DEF StatusAgrees
    <3> HIDE DEF state
    <3>4. QED
      BY <1>3, <1>4, <2>1, <3>1, <3>2, <3>3
  <2>2. CASE loop' = [loop EXCEPT ![l] = OffLoop] /\ WriteStatus(l, "disconnected")
    <3>1. capStatus' = "disconnected"
      BY <2>2 DEF WriteStatus
    <3>2. QED
      BY <1>4, <2>2, <3>1, LoopFacts
  <2>3. QED
    BY <1>6, <2>1, <2>2 DEF ReadFails
<1>7. ASSUME NEW still \in BOOLEAN, ReadPicture(l, still)
      PROVE  CaptureIInv'
  <2> DEFINE n == IF ~still THEN 0
                  ELSE IF loop[l].still > MaxStill THEN loop[l].still ELSE loop[l].still + 1
             state == [loop[l] EXCEPT !.still = n, !.at = "top"]
  <2>1. loop[l].still \in 0..MaxStill + 1
    BY <1>2 DEF LoopState
  <2>2. n \in 0..MaxStill + 1
    BY <2>1, LoopFacts
  <2>3. state \in LoopState /\ state.on = loop[l].on /\ state.told = loop[l].told
        /\ state.still = n
    BY <1>2, <2>2 DEF LoopState
  <2>4. loop' = [loop EXCEPT ![l] = state]
    BY <1>2, <1>7 DEF ReadPicture
  <2>5. \/ still /\ n = MaxStill /\ WriteStatus(l, "no_signal")
        \/ ~still /\ loop[l].still >= MaxStill /\ WriteStatus(l, "connected")
        \/ still /\ n # MaxStill /\ UNCHANGED bufVars
        \/ ~still /\ loop[l].still < MaxStill /\ UNCHANGED bufVars
    BY <1>7 DEF ReadPicture
  <2>6. phase = "watch" /\ ~mixed' /\ l = cur =>
           capStatus' = IF n >= MaxStill THEN "no_signal" ELSE "connected"
    <3>1. SUFFICES ASSUME phase = "watch", ~mixed', l = cur
                   PROVE  capStatus' = IF n >= MaxStill THEN "no_signal" ELSE "connected"
      OBVIOUS
    <3>2. CASE UNCHANGED bufVars
      <4>1. capStatus = IF loop[l].still >= MaxStill THEN "no_signal" ELSE "connected"
        BY <1>2, <1>3, <3>1, <3>2 DEF StatusAgrees
      <4>2. QED
        BY <2>1, <2>5, <3>2, <4>1, LoopFacts DEF WriteStatus
    <3>3. CASE still /\ n = MaxStill /\ WriteStatus(l, "no_signal")
      BY <3>3, LoopFacts DEF WriteStatus
    <3>4. CASE ~still /\ WriteStatus(l, "connected")
      BY <3>4, LoopFacts DEF WriteStatus
    <3>5. QED
      BY <2>5, <3>2, <3>3, <3>4
  <2>7. \/ UNCHANGED bufVars
        \/ \E status \in {"connected", "no_signal", "disconnected"} : WriteStatus(l, status)
    BY <2>5
  <2> HIDE DEF n, state
  <2>8. QED
    BY <1>3, <1>4, <2>3, <2>4, <2>6, <2>7
<1>8. QED
  BY <1>1, <1>5, <1>6, <1>7 DEF CaptureLoop

LEMMA CaptureStep == CaptureIInv /\ [CaptureNext]_captureVars => CaptureIInv'
<1>1. SUFFICES ASSUME CaptureIInv, [CaptureNext]_captureVars PROVE CaptureIInv'
  OBVIOUS
<1> USE DEF bufVars, askVars, runVarsC
<1>2. CaptureTypeOK /\ loop \in [Loops -> LoopState]
  BY <1>1 DEF CaptureIInv, CaptureTypeOK, LoopState
<1>3. CASE CaptureShutdown \/ DongleUnplugged
  <2>1. /\ loop' \in [Loops -> LoopState]
        /\ \A l \in Loops : loop'[l].on = loop[l].on /\ loop'[l].still = loop[l].still
        /\ \A l \in Loops : loop'[l].told => loop[l].told \/ stopped'
    BY <1>2, <1>3 DEF CaptureShutdown, DongleUnplugged, LoopState
  <2>2. /\ UNCHANGED <<capStatus, mixed, cur, phase, wanted, asking, reason>>
        /\ stopped => stopped'
        /\ dongle' \in BOOLEAN /\ unsaid' \in BOOLEAN /\ token' \in BOOLEAN
        /\ stopped' \in BOOLEAN
    BY <1>2, <1>3 DEF CaptureShutdown, DongleUnplugged, CaptureTypeOK
  <2>3. QED
    BY <1>1, <2>1, <2>2, LoopsKept
<1>4. CASE NotifySettingsChanged \/ DonglePlugged \/ UNCHANGED captureVars
  BY <1>1, <1>2, <1>4, LoopsKept
     DEF NotifySettingsChanged, DonglePlugged, captureVars, CaptureTypeOK
<1>5. ASSUME wanted' \in Settings, asking' \in [Resets -> {"no", "waiting", "done"}],
             unsaid' \in BOOLEAN,
             UNCHANGED <<dongle, bufVars, token, stopped, runVarsC, loop>>
      PROVE  CaptureIInv'
  BY <1>1, <1>5 DEF CaptureIInv, CaptureTypeOK, LoopsInOrder, StatusAgrees
<1>6. CASE SetSettings
  BY <1>2, <1>5, <1>6 DEF SetSettings, CaptureTypeOK
<1>7. ASSUME NEW r \in Resets, AskReset(r) \/ RefuseReset(r)
      PROVE  CaptureIInv'
  BY <1>2, <1>5, <1>7 DEF AskReset, RefuseReset, CaptureTypeOK
<1>8. QED
  BY <1>1, <1>3, <1>4, <1>6, <1>7, CaptureRunStep, CaptureLoopStep DEF CaptureNext

LEMMA CaptureInvariance == CaptureSpec => []CaptureIInv
<1>1. QED
  BY CaptureInitiates, CaptureStep, PTL DEF CaptureSpec

\* For any number of loops left behind, of settings and of resets, and any
\* limit on dark pictures: the status of a capture that is watched is what its
\* own loop has seen, unless a loop left behind has written it since, or Run's
\* "connected" has covered what the loop said before that (capture.go,
\* runCapture and Run; 1548-1564).
THEOREM StatusIsTheLoops == CaptureSpec => []StatusAgrees
<1>1. CaptureIInv => StatusAgrees
  BY DEF CaptureIInv
<1>2. QED
  BY <1>1, CaptureInvariance, PTL

(***************************************************************************)
(* Side by side.                                                           *)
(***************************************************************************)

\* A behaviour of MCLinks is one of the link and one of the capture: each step
\* is a step of one of them and leaves the other as it is. What is proved of
\* either holds of the two together.
THEOREM LinksAreBoth == LinksLive => LinkSpec /\ CaptureSpec
<1>1. LinksInit => LinkInit /\ CaptureInit
  BY DEF LinksInit
<1>2. [LinksNext]_linksVars => [LinkNext]_linkVars /\ [CaptureNext]_captureVars
  BY DEF LinksNext, linksVars
<1>3. QED
  BY <1>1, <1>2, PTL DEF LinksLive, LinkSpec, CaptureSpec

\* Every variable of the link and of the capture keeps its type, whichever of
\* them is at work.
THEOREM LinksTyped == LinksLive => []LinksTypeOK
<1>1. RelayTypeOK /\ CaptureIInv => LinksTypeOK
  BY DEF LinksTypeOK, CaptureIInv
<1>2. QED
  BY <1>1, LinksAreBoth, RelayTyped, CaptureInvariance, PTL
=============================================================================
