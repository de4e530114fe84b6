----------------------------- MODULE RelayLink -----------------------------
(* The serial link to the relay board (hid.go): Run, which opens the port   *)
(* and pings the relay, the commands of request goroutines, which write to  *)
(* the same port and close it when a write fails, and Shutdown. The relay   *)
(* answers pings only; it may be slow, stop running its loop, lose its HID  *)
(* board's answers, be reset or be unplugged.                               *)
EXTENDS Naturals, FiniteSets

CONSTANTS Handles,    \* file descriptors of the serial port
          MaxFaults,  \* bound: how often the relay wedges, is reset or unplugged
          MaxDue      \* bound: pings the relay has not answered yet

VARIABLES
    \* the board
    relay,        \* "up", "wedged" (accepts bytes, runs nothing), "gone"
    powered,      \* the HID board behind the relay answers it
    pinged,       \* pings written that the relay may still answer
    inbuf,        \* the answers the kernel holds: subset of {"ok", "silent"}
    faults,
    \* the controller, under mu except boardSilent and bound
    handles,      \* descriptors open
    good,         \* the descriptor of the device as it is plugged now, or NoPort
    port,         \* hc.port
    bound,        \* hc.path is not ""
    boardSilent,
    cancelled,    \* hc.ctx
    \* Run
    runPc, runPort, missed, attempts,
    \* Shutdown
    shutPc, shutPort,
    \* history: pings in a row, on this connection, the relay did not answer
    quiet

boardVars == <<relay, powered, pinged, inbuf, faults>>
portVars == <<handles, port, bound>>
shutVars == <<cancelled, shutPc, shutPort>>
runVars == <<runPc, runPort, missed, attempts, boardSilent, quiet>>
linkVars == <<boardVars, portVars, good, shutVars, runVars>>

NoPort == "none"
ASSUME LinkConstants == NoPort \notin Handles /\ MaxFaults \in Nat /\ MaxDue \in Nat
relayMissedPingLimit == 3

LinkInit ==
    /\ relay = "up" /\ powered = TRUE /\ pinged = 0 /\ inbuf = {} /\ faults = 0
    /\ handles = {} /\ good = NoPort /\ port = NoPort /\ bound = FALSE
    /\ boardSilent = FALSE /\ cancelled = FALSE
    /\ runPc = "find" /\ runPort = NoPort /\ missed = 0 /\ attempts = 0
    /\ shutPc = "no" /\ shutPort = NoPort /\ quiet = 0

-----------------------------------------------------------------------------
(* Run                                                                       *)

\* Mutant: Run ends without closing the port.
BugRunLeavesPort ==
    /\ cancelled
    /\ runPc \in {"find", "watch", "giveup", "pause"}
    /\ runPc' = "end"
    /\ IF runPc = "watch"
       THEN port' = NoPort /\ bound' = FALSE /\ UNCHANGED handles
       ELSE UNCHANGED portVars
    /\ UNCHANGED <<boardVars, good, shutVars, runPort, missed, attempts, boardSilent, quiet>>

\* A select on ctx.Done: whatever Run waits for, a cancelled context ends it.
\* Where the watch sees it, the port is closed first; where it waits to look
\* for the relay again, or to give up, it is not.
RunCancelled ==
    /\ cancelled
    /\ runPc \in {"find", "watch", "giveup", "pause"}
    /\ runPc' = "end"
    /\ IF runPc = "watch"
       THEN handles' = handles \ {port} /\ port' = NoPort /\ bound' = FALSE
       ELSE UNCHANGED portVars
    /\ UNCHANGED <<boardVars, good, shutVars, runPort, missed, attempts, boardSilent, quiet>>

\* findRelayPort and serial.Open succeed: the relay is there and nobody,
\* roadie included, has its port open. Until then Run tries again.
OpenPort ==
    /\ runPc = "find" /\ ~cancelled
    /\ relay # "gone" /\ good \notin handles
    /\ \E h \in Handles \ handles :
          /\ handles' = handles \cup {h}
          /\ good' = h /\ runPort' = h
    /\ runPc' = "store"
    /\ UNCHANGED <<boardVars, port, bound, shutVars, missed, attempts, boardSilent, quiet>>

StorePort ==
    /\ runPc = "store"
    /\ port' = runPort
    /\ runPc' = "bind"
    /\ UNCHANGED <<boardVars, handles, bound, good, shutVars, runPort, missed, attempts,
                   boardSilent, quiet>>

\* The path and the status are stored after mu is given up.
BindPath ==
    /\ runPc = "bind"
    /\ bound' = TRUE /\ missed' = 0 /\ quiet' = 0
    /\ runPc' = "watch"
    /\ UNCHANGED <<boardVars, handles, port, good, shutVars, runPort, attempts, boardSilent>>

\* Mutant: the watch looks at the port only.
BugWatchNeverPings ==
    /\ runPc = "watch" /\ ~cancelled
    /\ runPc' = IF port = NoPort THEN "close" ELSE "watch"
    /\ UNCHANGED <<boardVars, portVars, good, shutVars, runPort, missed, attempts,
                   boardSilent, quiet>>

\* Every five seconds.
Watch ==
    /\ runPc = "watch" /\ ~cancelled
    /\ runPc' = IF port = NoPort THEN "close" ELSE "ping"
    /\ UNCHANGED <<boardVars, portVars, good, shutVars, runPort, missed, attempts,
                   boardSilent, quiet>>

\* Mutant: one more miss before the relay is recovered.
BugMissOnceMore ==
    /\ missed' = missed + 1
    /\ IF missed + 1 <= relayMissedPingLimit
       THEN runPc' = "watch" /\ UNCHANGED attempts
       ELSE runPc' = "recover" /\ attempts' = IF attempts < 3 THEN attempts + 1 ELSE 3
    /\ UNCHANGED boardSilent

\* What Run does with a ping that brought no answer.
Miss ==
    /\ missed' = missed + 1
    /\ IF missed + 1 < relayMissedPingLimit
       THEN runPc' = "watch" /\ UNCHANGED attempts
       ELSE runPc' = "recover" /\ attempts' = IF attempts < 3 THEN attempts + 1 ELSE 3
    /\ UNCHANGED boardSilent

\* Mutant: an answer does not start the count of misses anew.
BugAnswerKeepsMissed(answer) ==
    /\ boardSilent' = (answer = "silent")
    /\ quiet' = 0
    /\ attempts' = IF answer = "ok" THEN 0 ELSE attempts
    /\ runPc' = "watch"
    /\ UNCHANGED missed

Answered(answer) ==
    /\ boardSilent' = (answer = "silent")
    /\ missed' = 0 /\ quiet' = 0
    /\ attempts' = IF answer = "ok" THEN 0 ELSE attempts
    /\ runPc' = "watch"

\* pingRoundTrip takes the port under mu and throws away what it holds.
PingTake ==
    /\ runPc = "ping"
    /\ IF port = NoPort
       THEN Miss /\ UNCHANGED <<runPort, inbuf>>
       ELSE /\ runPort' = port /\ runPc' = "send"
            /\ inbuf' = IF port = good THEN {} ELSE inbuf
            /\ UNCHANGED <<missed, attempts, boardSilent>>
    /\ UNCHANGED <<relay, powered, pinged, faults, portVars, good, shutVars, quiet>>

\* What sendJSON and SendAudio do when the write fails.
DropPort ==
    /\ handles' = handles \ {port}
    /\ port' = NoPort /\ bound' = FALSE

\* sendJSON takes mu again; the port may be another, or none.
PingSend ==
    /\ runPc = "send"
    /\ \/ port = NoPort /\ Miss /\ UNCHANGED <<portVars, pinged, quiet>>
       \/ port # NoPort /\ port # good /\ DropPort /\ Miss /\ UNCHANGED <<pinged, quiet>>
       \/ /\ port # NoPort /\ port = good
          /\ pinged' = IF pinged < MaxDue THEN pinged + 1 ELSE pinged
          /\ quiet' = IF quiet < relayMissedPingLimit THEN quiet + 1 ELSE quiet
          /\ runPc' = "read"
          /\ UNCHANGED <<portVars, missed, attempts, boardSilent>>
    /\ UNCHANGED <<relay, powered, inbuf, faults, good, shutVars, runPort>>

\* The read of the port taken at the start: an answer, an error because the
\* port was closed or its device is gone, or two seconds without either.
PingRead ==
    /\ runPc = "read"
    /\ \/ runPort = good /\ runPort \in handles /\ "ok" \in inbuf /\ Answered("ok")
       \/ /\ runPort = good /\ runPort \in handles /\ inbuf = {"silent"}
          /\ Answered("silent")
       \/ (runPort # good \/ runPort \notin handles \/ inbuf = {}) /\ Miss
             /\ UNCHANGED quiet
    /\ inbuf' = {}
    /\ UNCHANGED <<relay, powered, pinged, faults, portVars, good, shutVars, runPort>>

\* softRebootRelay restarts the program, through the other port of the board;
\* without a path it fails, with nobody told but the log.
SoftReboot ==
    /\ runPc = "recover" /\ attempts = 1
    /\ relay' = IF bound /\ relay = "wedged" THEN "up" ELSE relay
    /\ pinged' = IF bound THEN 0 ELSE pinged
    /\ runPc' = "close"
    /\ UNCHANGED <<powered, inbuf, faults, portVars, good, shutVars, runPort, missed,
                   attempts, boardSilent, quiet>>

\* resetRelayUSB enumerates the board again, which leaves its program as it was.
ResetUSB ==
    /\ runPc = "recover" /\ attempts = 2
    /\ good' = IF bound THEN NoPort ELSE good
    /\ runPc' = "close"
    /\ UNCHANGED <<boardVars, portVars, shutVars, runPort, missed, attempts, boardSilent, quiet>>

GiveUp ==
    /\ runPc = "recover" /\ attempts = 3
    /\ runPc' = "giveup"
    /\ UNCHANGED <<boardVars, portVars, good, shutVars, runPort, missed, attempts,
                   boardSilent, quiet>>

GiveUpWaited ==
    /\ runPc = "giveup" /\ ~cancelled
    /\ runPc' = "close"
    /\ UNCHANGED <<boardVars, portVars, good, shutVars, runPort, missed, attempts,
                   boardSilent, quiet>>

ClosePort ==
    /\ runPc = "close"
    /\ handles' = handles \ {port}
    /\ port' = NoPort /\ bound' = FALSE
    /\ runPc' = "pause"
    /\ UNCHANGED <<boardVars, good, shutVars, runPort, missed, attempts, boardSilent, quiet>>

Paused ==
    /\ runPc = "pause" /\ ~cancelled
    /\ runPc' = "find" /\ runPort' = NoPort
    /\ UNCHANGED <<boardVars, portVars, good, shutVars, missed, attempts, boardSilent, quiet>>

LinkRun ==
    \/ RunCancelled \/ OpenPort \/ StorePort \/ BindPath \/ Watch
    \/ PingTake \/ PingSend \/ PingRead
    \/ SoftReboot \/ ResetUSB \/ GiveUp \/ GiveUpWaited \/ ClosePort \/ Paused

-----------------------------------------------------------------------------
(* Commands and Shutdown                                                     *)

\* One write of one command: sendJSON, each chunk of Type, each frame of
\* SendAudio. A write that is taken changes nothing here, one that fails
\* closes the port. A call of several writes ends with the first that fails.
LinkCommand ==
    /\ port # NoPort /\ port # good
    /\ DropPort
    /\ UNCHANGED <<boardVars, good, shutVars, runVars>>

\* reset_self: the microcontroller resets and leaves the bus.
ResetSelf ==
    /\ port # NoPort /\ port = good /\ relay = "up" /\ faults < MaxFaults
    /\ relay' = "gone" /\ good' = NoPort /\ pinged' = 0 /\ inbuf' = {}
    /\ faults' = faults + 1
    /\ UNCHANGED <<powered, portVars, shutVars, runVars>>

ShutdownCancel ==
    /\ shutPc = "no"
    /\ cancelled' = TRUE /\ shutPc' = "cancelled"
    /\ UNCHANGED <<boardVars, portVars, good, runVars, shutPort>>

ShutdownTake ==
    /\ shutPc = "cancelled"
    /\ shutPort' = port /\ port' = NoPort /\ bound' = FALSE
    /\ shutPc' = IF port = NoPort THEN "done" ELSE "closing"
    /\ UNCHANGED <<boardVars, handles, good, cancelled, runVars>>

ShutdownClose ==
    /\ shutPc = "closing"
    /\ handles' = handles \ {shutPort}
    /\ shutPc' = "done"
    /\ UNCHANGED <<boardVars, port, bound, good, cancelled, shutPort, runVars>>

-----------------------------------------------------------------------------
(* The board                                                                 *)

\* The relay's answer to a ping: ok if the HID board answered it, and late or
\* never if the relay is busy.
RelayAnswers ==
    /\ relay = "up" /\ pinged > 0
    /\ pinged' = pinged - 1
    /\ inbuf' = IF good \in handles
                THEN inbuf \cup {IF powered THEN "ok" ELSE "silent"} ELSE inbuf
    /\ UNCHANGED <<relay, powered, faults, portVars, good, shutVars, runVars>>

RelayWedges ==
    /\ relay = "up" /\ faults < MaxFaults
    /\ relay' = "wedged" /\ faults' = faults + 1
    /\ UNCHANGED <<powered, pinged, inbuf, portVars, good, shutVars, runVars>>

RelayUnplugged ==
    /\ relay # "gone" /\ faults < MaxFaults
    /\ relay' = "gone" /\ good' = NoPort /\ pinged' = 0 /\ inbuf' = {}
    /\ faults' = faults + 1
    /\ UNCHANGED <<powered, portVars, shutVars, runVars>>

RelayReturns ==
    /\ relay = "gone"
    /\ relay' = "up"
    /\ UNCHANGED <<powered, pinged, inbuf, faults, portVars, good, shutVars, runVars>>

PowerChanges ==
    /\ powered' = ~powered
    /\ UNCHANGED <<relay, pinged, inbuf, faults, portVars, good, shutVars, runVars>>

LinkNext ==
    \/ LinkRun \/ LinkCommand \/ ResetSelf
    \/ ShutdownCancel \/ ShutdownTake \/ ShutdownClose
    \/ RelayAnswers \/ RelayWedges \/ RelayUnplugged \/ RelayReturns \/ PowerChanges

LinkFairness == WF_linkVars(LinkRun)

LinkSpec == LinkInit /\ [][LinkNext]_linkVars
LinkLive == LinkSpec /\ LinkFairness

-----------------------------------------------------------------------------
RelayTypeOK ==
    /\ relay \in {"up", "wedged", "gone"} /\ powered \in BOOLEAN
    /\ pinged \in 0..MaxDue /\ inbuf \subseteq {"ok", "silent"} /\ faults \in 0..MaxFaults
    /\ handles \subseteq Handles
    /\ {good, port, runPort, shutPort} \subseteq Handles \cup {NoPort}
    /\ bound \in BOOLEAN /\ boardSilent \in BOOLEAN /\ cancelled \in BOOLEAN
    /\ runPc \in {"find", "store", "bind", "watch", "ping", "send", "read", "recover",
                  "giveup", "close", "pause", "end"}
    /\ missed \in 0..relayMissedPingLimit /\ attempts \in 0..3
    /\ shutPc \in {"no", "cancelled", "closing", "done"}
    /\ quiet \in 0..relayMissedPingLimit

\* Every descriptor open is one somebody will close: hc.port, the one Run has
\* just opened, or the one Shutdown took (hid.go:250-256: a handle left open
\* is one the loop then fails to open itself). So Run has one open at a time,
\* and none is left once Run and Shutdown are through.
HandlesOwned ==
    handles = ({port} \cup (IF runPc = "store" THEN {runPort} ELSE {})
                      \cup (IF shutPc = "closing" THEN {shutPort} ELSE {})) \ {NoPort}

\* A relay that answers is left alone: Run restarts or resets it only after
\* the relay has left unanswered all pings of this connection since its last
\* answer, two at least. (The third failure may be a port that was closed
\* under the ping.) An answer that the HID board is silent is an answer.
RecoverySparesAnswering ==
    runPc = "recover" => missed = relayMissedPingLimit /\ quiet >= relayMissedPingLimit - 1

\* A connected relay that wedges with no recovery counted against it is
\* running again, or unplugged, or roadie ends (hid.go:24-32: the restart is
\* the recovery that works), whatever commands, a silent HID board and late
\* answers do meanwhile.
WedgedRestarts ==
    (relay = "wedged" /\ attempts = 0 /\ port # NoPort /\ port = good /\ ~cancelled)
        ~> (relay # "wedged" \/ cancelled)
=============================================================================
