----------------------------- MODULE M2MEncoder -----------------------------
(* The hardware encoder (encoder/v4l2m2m_linux.go) on its memory-to-memory   *)
(* device (v4l2/m2m_linux.go): frames go in through input buffers, results   *)
(* come back in output buffers, and a reader polls for both. mu keeps the    *)
(* caller and the reader apart; Poll, sending a sample and closing the       *)
(* device are outside it. One caller: the broadcaster, under encMu.          *)
EXTENDS Naturals, FiniteSets

CONSTANTS Inputs, Outputs   \* indices of the buffers allocated

ASSUME M2MConstants == Inputs \cap Outputs = {}

VARIABLES
    free,       \* m.out.free
    withDriver, \* input buffers queued, encoded or not
    encoded,    \* of those, the ones the device has finished with
    results,    \* output buffers that hold a result, and are not dequeued
    queuedOut,  \* output buffers the device may fill
    mapped,     \* the buffers are mapped and the node is open
    readPc,     \* "poll", "lock", "send", "done"
    ready,      \* what Poll said: subset of {"in", "out"}
    closePc,    \* "no", "wait", "device", "channel", "closed"
    leaked      \* history: buffers of which a QBUF failed

m2mVars == <<free, withDriver, encoded, results, queuedOut, mapped, readPc, ready, closePc, leaked>>
driverVars == <<free, withDriver, encoded, results, queuedOut, mapped>>

M2MInit ==
    /\ free = Inputs /\ withDriver = {} /\ encoded = {}
    /\ results = {} /\ queuedOut = Outputs /\ mapped = TRUE
    /\ readPc = "poll" /\ ready = {} /\ closePc = "no" /\ leaked = {}

\* The caller looks at closed under mu.
closed == closePc # "no"

\* Mutant: a buffer reaped is not taken off the driver's list.
BugReapKeepsQueued == encoded' = {} /\ UNCHANGED withDriver

\* ReapInput takes back every input buffer the device is through with.
ReapInput == /\ withDriver' = withDriver \ encoded
             /\ encoded' = {}

\* Encode takes a free buffer, the one reaped last, fills it and queues it.
\* Without one the frame is dropped.
EncodeFrame ==
    /\ ~closed
    /\ LET all == free \cup encoded
       IN  IF all = {}
           THEN ReapInput /\ free' = all /\ UNCHANGED leaked
           ELSE \E i \in IF encoded = {} THEN free ELSE encoded :
                   /\ free' = all \ {i}
                   /\ encoded' = {}
                   /\ \/ withDriver' = (withDriver \ encoded) \cup {i} /\ UNCHANGED leaked
                      \/ withDriver' = withDriver \ encoded /\ leaked' = leaked \cup {i}
    /\ UNCHANGED <<results, queuedOut, mapped, readPc, ready, closePc>>

\* The device: one result for one frame.
DeviceEncodes ==
    /\ mapped
    /\ \E i \in withDriver \ encoded, o \in queuedOut :
          /\ encoded' = encoded \cup {i}
          /\ queuedOut' = queuedOut \ {o} /\ results' = results \cup {o}
    /\ UNCHANGED <<free, withDriver, mapped, readPc, ready, closePc, leaked>>

-----------------------------------------------------------------------------
(* The reader                                                                *)

\* Poll waits 100 ms at most, outside mu; stop is looked at before it.
ReaderPolls ==
    /\ readPc = "poll"
    /\ \/ closed /\ readPc' = "done" /\ UNCHANGED ready
       \/ readPc' = "done" /\ UNCHANGED ready
       \/ /\ ready' = (IF encoded # {} THEN {"in"} ELSE {})
                       \cup (IF results # {} THEN {"out"} ELSE {})
          /\ readPc' = IF ready' = {} THEN "poll" ELSE "lock"
    /\ UNCHANGED <<driverVars, closePc, leaked>>

\* One result is copied and its buffer given back.
ReaderLocks ==
    /\ readPc = "lock"
    /\ ready' = {}
    /\ IF closed THEN readPc' = "done" /\ UNCHANGED <<driverVars, leaked>>
       ELSE /\ IF "in" \in ready THEN free' = free \cup encoded /\ ReapInput
               ELSE UNCHANGED <<free, withDriver, encoded>>
            /\ \/ "out" \notin ready /\ readPc' = "poll" /\ UNCHANGED <<results, queuedOut, leaked>>
               \/ "out" \in ready /\ readPc' = "done" /\ UNCHANGED <<results, queuedOut, leaked>>
               \/ /\ "out" \in ready /\ readPc' = "send"
                  /\ \E o \in results :
                        /\ results' = results \ {o}
                        /\ \/ queuedOut' = queuedOut \cup {o} /\ UNCHANGED leaked
                           \/ leaked' = leaked \cup {o} /\ UNCHANGED queuedOut
            /\ UNCHANGED mapped
    /\ UNCHANGED closePc

\* The sample is taken, or stop was closed.
ReaderSends ==
    /\ readPc = "send"
    /\ readPc' = "poll" \/ (closed /\ readPc' = "done")
    /\ UNCHANGED <<driverVars, ready, closePc, leaked>>

-----------------------------------------------------------------------------
(* Close                                                                     *)

M2MClose ==
    /\ closePc = "no"
    /\ closePc' = "wait"
    /\ UNCHANGED <<driverVars, readPc, ready, leaked>>

CloseWaits ==
    /\ closePc = "wait" /\ readPc = "done"
    /\ closePc' = "device"
    /\ UNCHANGED <<driverVars, readPc, ready, leaked>>

\* Stop turns both streams off and frees the buffers.
CloseDevice ==
    /\ closePc = "device"
    /\ closePc' = "channel"
    /\ mapped' = FALSE /\ free' = {} /\ withDriver' = {} /\ encoded' = {}
    /\ results' = {} /\ queuedOut' = {}
    /\ UNCHANGED <<readPc, ready, leaked>>

CloseChannel ==
    /\ closePc = "channel"
    /\ closePc' = "closed"
    /\ UNCHANGED <<driverVars, readPc, ready, leaked>>

M2MNext ==
    \/ EncodeFrame \/ DeviceEncodes \/ ReaderPolls \/ ReaderLocks \/ ReaderSends
    \/ M2MClose \/ CloseWaits \/ CloseDevice \/ CloseChannel

M2MSpec == M2MInit /\ [][M2MNext]_m2mVars

-----------------------------------------------------------------------------
M2MTypeOK ==
    /\ free \subseteq Inputs /\ withDriver \subseteq Inputs /\ encoded \subseteq withDriver
    /\ results \subseteq Outputs /\ queuedOut \subseteq Outputs
    /\ mapped \in BOOLEAN /\ leaked \subseteq Inputs \cup Outputs
    /\ readPc \in {"poll", "lock", "send", "done"} /\ ready \subseteq {"in", "out"}
    /\ closePc \in {"no", "wait", "device", "channel", "closed"}

\* While the device is open every buffer is in one place, free or with the
\* driver, but those whose QBUF failed, which nobody takes back; and the
\* reader is through before the device and the channel are closed under it.
BuffersKept ==
    /\ mapped => /\ free \cap withDriver = {} /\ results \cap queuedOut = {}
                 /\ free \cup withDriver = Inputs \ leaked
                 /\ results \cup queuedOut = Outputs \ leaked
    /\ ~mapped \/ closePc = "closed" => readPc = "done"
=============================================================================
