------------------------------ MODULE GadgetMic ------------------------------
(* The gadget's microphone (gadget_audio.go): /api/mic's audio waits in a    *)
(* jitter buffer, and pump plays it, or silence, into the ALSA stream that   *)
(* keepOpen opens and reopens. The phone takes what is played while it       *)
(* records. Audio is told apart by its age, in ticks of one Wait (500 ms),   *)
(* and counted in pieces.                                                    *)
EXTENDS Naturals, Sequences

CONSTANTS Prefill,     \* pieces queued before playing starts
          MaxQueue,    \* pieces past which the oldest are dropped
          StaleAfter,  \* ticks the phone takes nothing until the queue is thrown away
          MaxDelay     \* doublings of keepOpen's delay

ASSUME MicConstants ==
    /\ {Prefill, MaxQueue, StaleAfter, MaxDelay} \subseteq Nat \ {0}
    /\ Prefill < MaxQueue

VARIABLES
    queue,      \* the ages of the pieces, the oldest first
    playing,
    lastTaken,  \* its age
    pending,    \* a period is taken and not all written
    stream,     \* keepOpen: "closed", "open", "waiting" to retry, "ended"
    delay,
    opened,     \* the age of the stream, or of pump's start
    due,        \* a Wait that has yet to return, before more time passes
    recording,  \* the phone takes what is played
    device,     \* the card is there
    ended,      \* a.ctx
    silent      \* history: how long the phone has taken nothing

micVars == <<queue, playing, lastTaken, pending, stream, delay, opened, due, recording,
             device, ended, silent>>

Ancient == StaleAfter + 2
Aged(t) == IF t < Ancient THEN t + 1 ELSE Ancient

MicInit ==
    /\ queue = <<>> /\ playing = FALSE /\ lastTaken = Ancient /\ pending = FALSE
    /\ stream = "closed" /\ delay = 0 /\ opened = 0 /\ due = FALSE
    /\ recording = FALSE /\ device = FALSE /\ ended = FALSE
    /\ silent = Ancient

queueVars == <<queue, playing, lastTaken, pending, silent>>
streamVars == <<stream, delay, opened>>
worldVars == <<recording, device>>

-----------------------------------------------------------------------------
(* The queue                                                                 *)

\* Write never waits: what is over MaxQueue goes, from the front.
WriteMic ==
    /\ \E n \in 1..MaxQueue + 1 :
         LET all == queue \o [i \in 1..n |-> 0]
             excess == Len(all) - MaxQueue
         IN  queue' = IF excess > 0 THEN SubSeq(all, excess + 1, Len(all)) ELSE all
    /\ UNCHANGED <<playing, lastTaken, pending, silent, streamVars, due, worldVars, ended>>

\* take: one period, of a piece here, once Prefill has built up.
take ==
    LET play == playing \/ Len(queue) >= Prefill
        got == IF play /\ queue # <<>> THEN 1 ELSE 0
    IN  /\ lastTaken' = 0
        /\ queue' = SubSeq(queue, got + 1, Len(queue))
        /\ playing' = (play /\ Len(queue) > got)

\* Mutant: what nobody records is kept.
BugIdleKeepsQueue == UNCHANGED queueVars

idle ==
    /\ IF queue # <<>> /\ lastTaken > StaleAfter
       THEN queue' = <<>> /\ playing' = FALSE
       ELSE UNCHANGED <<queue, playing>>
    /\ UNCHANGED <<lastTaken, pending, silent>>

-----------------------------------------------------------------------------
(* pump                                                                      *)

Pumping == stream = "open" /\ ~ended

\* Nothing could be written for the whole Wait: the phone is not recording.
WaitTimesOut ==
    /\ Pumping /\ ~recording /\ due
    /\ due' = FALSE
    /\ idle
    /\ UNCHANGED <<streamVars, worldVars, ended>>

\* There is room: the rest of the last period, or the next one, is written,
\* in full, in part, or not (EAGAIN, or an xrun that is recovered).
WritePeriod ==
    /\ Pumping /\ recording /\ device
    /\ due' = FALSE
    /\ IF pending THEN UNCHANGED <<queue, playing, lastTaken>>
       ELSE take
    /\ silent' = 0
    /\ pending' \in BOOLEAN
    /\ UNCHANGED <<streamVars, worldVars, ended>>

RetryOpen(longer) ==
    /\ stream' = "waiting"
    /\ delay' = IF longer /\ delay < MaxDelay THEN delay + 1 ELSE delay

\* Wait, a write or the recovery fails; the stream is closed and reopened, at
\* once if it had been up a while.
PumpFails ==
    /\ Pumping
    /\ pending' = FALSE /\ due' = FALSE
    /\ \/ opened = Ancient /\ stream' = "closed" /\ delay' = 0
       \/ opened < Ancient /\ RetryOpen(TRUE)
    /\ UNCHANGED <<queue, playing, lastTaken, silent, opened, worldVars, ended>>

-----------------------------------------------------------------------------
(* keepOpen                                                                  *)

OpenStream ==
    /\ stream = "closed" /\ ~ended
    /\ \/ /\ device /\ stream' = "open" /\ opened' = 0 /\ lastTaken' = 0
          /\ UNCHANGED delay
       \/ RetryOpen(TRUE) /\ UNCHANGED <<opened, lastTaken>>
    /\ UNCHANGED <<queue, playing, pending, due, worldVars, ended, silent>>

DelayOver ==
    /\ stream = "waiting" /\ ~ended
    /\ stream' = "closed"
    /\ UNCHANGED <<queueVars, delay, opened, due, worldVars, ended>>

\* pump and both delays return when the context ends.
KeepOpenEnds ==
    /\ ended /\ stream # "ended"
    /\ stream' = "ended" /\ due' = FALSE
    /\ UNCHANGED <<queueVars, delay, opened, worldVars, ended>>

MicShutdown ==
    /\ ~ended
    /\ ended' = TRUE
    /\ UNCHANGED <<queueVars, streamVars, due, worldVars>>

-----------------------------------------------------------------------------
(* The world                                                                 *)

PhoneRecords ==
    /\ recording' = ~recording
    /\ UNCHANGED <<queueVars, streamVars, due, device, ended>>

CardComesOrGoes ==
    /\ device' = ~device
    /\ UNCHANGED <<queueVars, streamVars, due, recording, ended>>

\* A tick is longer than the whole queue plays.
PlayedOut == Len(queue) < Prefill /\ ~playing

MicTick ==
    /\ ~due /\ (Pumping /\ recording /\ device => PlayedOut)
    /\ due' = Pumping
    /\ queue' = [i \in DOMAIN queue |-> Aged(queue[i])]
    /\ lastTaken' = Aged(lastTaken) /\ opened' = Aged(opened)
    /\ silent' = Aged(silent)
    /\ UNCHANGED <<playing, pending, stream, delay, worldVars, ended>>

MicNext ==
    \/ WriteMic \/ WaitTimesOut \/ WritePeriod \/ PumpFails
    \/ OpenStream \/ DelayOver \/ KeepOpenEnds \/ MicShutdown
    \/ PhoneRecords \/ CardComesOrGoes \/ MicTick

MicSpec == MicInit /\ [][MicNext]_micVars

-----------------------------------------------------------------------------
MicTypeOK ==
    /\ Len(queue) <= MaxQueue /\ \A i \in DOMAIN queue : queue[i] \in 0..Ancient
    /\ {playing, pending, due, recording, device, ended} \subseteq BOOLEAN
    /\ {lastTaken, opened} \subseteq 0..Ancient /\ delay \in 0..MaxDelay
    /\ stream \in {"closed", "open", "waiting", "ended"}

\* Once the phone has taken nothing for the second after which queued audio
\* is thrown away, and the Wait that notices, it hears none of before when it
\* records again (gadget_audio.go:59-61). Reopening the stream starts the
\* count anew (gadget_audio.go:340-342): what was queued before is then heard,
\* however old; and so is the period that was taken and not yet written.
HeardFresh ==
    [][WritePeriod /\ ~pending /\ silent > StaleAfter + 1 /\ opened > StaleAfter + 1 =>
          \A i \in DOMAIN queue : queue[i] <= 1]_micVars
=============================================================================
