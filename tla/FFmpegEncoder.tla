---------------------------- MODULE FFmpegEncoder ----------------------------
(* An encoder that is an ffmpeg process (encoder/ffmpeg.go): frames go in on *)
(* its stdin, a reader goroutine turns its stdout into samples, and a        *)
(* keyframe or another bitrate replaces the process. The broadcaster makes   *)
(* its calls under encMu, Close last, so there is one caller; mu is between  *)
(* it and the reader, and stop gives it up. ffmpeg itself is external: it    *)
(* emits one access unit per frame, in order, may die at any time, and may   *)
(* hang with what it has.                                                    *)
EXTENDS Naturals, Sequences

CONSTANTS Procs,      \* processes and their readers
          MaxBehind,  \* frames written and not encoded past which one is dropped (8)
          MaxFrames,  \* bound: frames offered
          NoProc

ASSUME FFmpegConstants ==
    Procs # {} /\ NoProc \notin Procs /\ MaxBehind \in Nat /\ MaxFrames \in Nat

VARIABLES
    cmd,        \* e.cmd
    work,       \* per process: frames it has and has not output
    alive,      \* per process
    stdin,      \* per process: its stdin is open
    pipe,       \* per process: access units not read yet
    reader,     \* per process: "off", "reading", "sending", "done"
    holding,    \* per process: the sample its reader sends
    stamps,
    frames,     \* frames offered so far: the timestamp of each
    calls,      \* the caller: "open", "stopping", "stopped", "closed"
    closing,    \* e.closed; quit is closed with it
    samples     \* samples sent and not taken

procStates == <<cmd, work, alive, stdin, pipe, reader, holding>>
ffmpegVars == <<procStates, stamps, frames, calls, closing, samples>>

NoSample == <<0, 0>>

FFmpegInit ==
    LET p == CHOOSE q \in Procs : TRUE
    IN /\ cmd = p
       /\ alive = [q \in Procs |-> q = p] /\ stdin = [q \in Procs |-> q = p]
       /\ reader = [q \in Procs |-> IF q = p THEN "reading" ELSE "off"]
       /\ work = [q \in Procs |-> <<>>] /\ pipe = [q \in Procs |-> <<>>]
       /\ holding = [q \in Procs |-> NoSample]
       /\ stamps = <<>> /\ frames = 0 /\ calls = "open" /\ closing = FALSE /\ samples = <<>>

-----------------------------------------------------------------------------
(* The caller                                                                *)

\* A frame is dropped while ffmpeg is behind, and lost when its stdin is
\* gone: stamps gets one only when the whole frame was written.
Encode ==
    /\ calls = "open" /\ frames < MaxFrames
    /\ frames' = frames + 1
    /\ IF Len(stamps) <= MaxBehind /\ cmd # NoProc /\ alive[cmd]
       THEN /\ work' = [work EXCEPT ![cmd] = Append(@, frames + 1)]
            /\ stamps' = Append(stamps, frames + 1)
       ELSE UNCHANGED <<work, stamps>>
    /\ UNCHANGED <<cmd, alive, stdin, pipe, reader, holding, calls, closing, samples>>

\* stop, up to where it gives mu up. Without a process there is none to stop.
stop == IF cmd = NoProc
        THEN calls' = "stopped" /\ UNCHANGED stdin
        ELSE calls' = "stopping" /\ stdin' = [stdin EXCEPT ![cmd] = FALSE]

\* ForceKeyframe and SetBitrate, when they are far enough from the last start.
Relaunch ==
    /\ calls = "open"
    /\ stop
    /\ UNCHANGED <<cmd, work, alive, pipe, reader, holding, stamps, frames, closing, samples>>

CloseEncoder ==
    /\ calls = "open"
    /\ closing' = TRUE
    /\ stop
    /\ UNCHANGED <<cmd, work, alive, pipe, reader, holding, stamps, frames, samples>>

\* Two seconds after its stdin was closed the process is killed.
Kill ==
    /\ calls = "stopping" /\ alive[cmd]
    /\ alive' = [alive EXCEPT ![cmd] = FALSE] /\ work' = [work EXCEPT ![cmd] = <<>>]
    /\ UNCHANGED <<cmd, stdin, pipe, reader, holding, stamps, frames, calls, closing, samples>>

\* readDone, Wait, and the lock again.
Stopped ==
    /\ calls = "stopping" /\ reader[cmd] = "done" /\ ~alive[cmd]
    /\ cmd' = NoProc /\ calls' = "stopped"
    /\ reader' = [reader EXCEPT ![cmd] = "off"]
    /\ UNCHANGED <<work, alive, stdin, pipe, holding, stamps, frames, closing, samples>>

\* Mutant: a new process begins with the old one's stamps.
BugStartKeepsStamps ==
    /\ calls = "stopped" /\ ~closing
    /\ calls' = "open"
    /\ \E p \in Procs :
          /\ reader[p] = "off"
          /\ cmd' = p
          /\ alive' = [alive EXCEPT ![p] = TRUE] /\ stdin' = [stdin EXCEPT ![p] = TRUE]
          /\ reader' = [reader EXCEPT ![p] = "reading"]
          /\ work' = [work EXCEPT ![p] = <<>>] /\ pipe' = [pipe EXCEPT ![p] = <<>>]
    /\ UNCHANGED <<holding, stamps, frames, closing, samples>>

\* start may fail; there is then no process until the next relaunch.
start ==
    /\ calls = "stopped" /\ ~closing
    /\ calls' = "open"
    /\ \/ UNCHANGED <<procStates, stamps>>
       \/ \E p \in Procs :
             /\ reader[p] = "off"
             /\ cmd' = p
             /\ alive' = [alive EXCEPT ![p] = TRUE] /\ stdin' = [stdin EXCEPT ![p] = TRUE]
             /\ reader' = [reader EXCEPT ![p] = "reading"]
             /\ work' = [work EXCEPT ![p] = <<>>] /\ pipe' = [pipe EXCEPT ![p] = <<>>]
             /\ stamps' = <<>>
             /\ UNCHANGED holding
    /\ UNCHANGED <<frames, closing, samples>>

\* Close closes Samples, and the broadcaster's pump ends.
CloseSamples ==
    /\ calls = "stopped" /\ closing
    /\ calls' = "closed"
    /\ UNCHANGED <<procStates, stamps, frames, closing, samples>>

-----------------------------------------------------------------------------
(* The readers, the pump and the processes                                   *)

\* Emit: an access unit takes the oldest stamp, or none.
Emit(p) ==
    /\ reader[p] = "reading" /\ pipe[p] # <<>>
    /\ holding' = [holding EXCEPT
                    ![p] = <<Head(pipe[p]), IF stamps = <<>> THEN 0 ELSE Head(stamps)>>]
    /\ stamps' = IF stamps = <<>> THEN stamps ELSE Tail(stamps)
    /\ pipe' = [pipe EXCEPT ![p] = Tail(@)]
    /\ reader' = [reader EXCEPT ![p] = "sending"]
    /\ UNCHANGED <<cmd, work, alive, stdin, frames, calls, closing, samples>>

\* A sample is sent, or quit lets the reader go on without. (The channel
\* holds sixteen; one is as good.)
Send1(p) ==
    /\ reader[p] = "sending"
    /\ \/ samples = <<>> /\ samples' = <<holding[p]>>
       \/ closing /\ UNCHANGED samples
    /\ holding' = [holding EXCEPT ![p] = NoSample]
    /\ reader' = [reader EXCEPT ![p] = "reading"]
    /\ UNCHANGED <<cmd, work, alive, stdin, pipe, stamps, frames, calls, closing>>

ReadEnds(p) ==
    /\ reader[p] = "reading" /\ pipe[p] = <<>> /\ ~alive[p]
    /\ reader' = [reader EXCEPT ![p] = "done"]
    /\ UNCHANGED <<cmd, work, alive, stdin, pipe, holding, stamps, frames, calls, closing, samples>>

Pump ==
    /\ samples # <<>>
    /\ samples' = <<>>
    /\ UNCHANGED <<procStates, stamps, frames, calls, closing>>

ProcOutputs(p) ==
    /\ alive[p] /\ work[p] # <<>>
    /\ pipe' = [pipe EXCEPT ![p] = Append(@, Head(work[p]))]
    /\ work' = [work EXCEPT ![p] = Tail(@)]
    /\ UNCHANGED <<cmd, alive, stdin, reader, holding, stamps, frames, calls, closing, samples>>

\* It ends when its stdin does and all is output, or dies with what it has.
ProcEnds(p) ==
    /\ alive[p]
    /\ alive' = [alive EXCEPT ![p] = FALSE] /\ work' = [work EXCEPT ![p] = <<>>]
    /\ UNCHANGED <<cmd, stdin, pipe, reader, holding, stamps, frames, calls, closing, samples>>

FFmpegNext ==
    \/ Encode \/ Relaunch \/ CloseEncoder \/ Kill \/ Stopped \/ start \/ CloseSamples \/ Pump
    \/ \E p \in Procs : Emit(p) \/ Send1(p) \/ ReadEnds(p) \/ ProcOutputs(p) \/ ProcEnds(p)

FFmpegSpec == FFmpegInit /\ [][FFmpegNext]_ffmpegVars

-----------------------------------------------------------------------------
FFmpegTypeOK ==
    /\ cmd \in Procs \cup {NoProc}
    /\ alive \in [Procs -> BOOLEAN] /\ stdin \in [Procs -> BOOLEAN]
    /\ reader \in [Procs -> {"off", "reading", "sending", "done"}]
    /\ frames \in 0..MaxFrames /\ closing \in BOOLEAN
    /\ calls \in {"open", "stopping", "stopped", "closed"}
    /\ Len(stamps) <= MaxBehind + 1

\* Every sample carries the timestamp of the frame it shows, across frames
\* dropped, processes that die with frames they took, and relaunches
\* (encoder.go:23: "copied to the matching Sample").
SamplesStamped == \A i \in 1..Len(samples) : samples[i][1] = samples[i][2]

\* Whatever runs, or reads, is the process the encoder knows: a relaunch
\* leaves none behind, and once Samples is closed nobody is left to send on
\* it, which would panic.
ProcessOwned ==
    /\ \A p \in Procs : alive[p] \/ reader[p] # "off" => p = cmd
    /\ calls = "closed" => \A p \in Procs : reader[p] = "off"
=============================================================================
