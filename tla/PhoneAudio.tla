----------------------------- MODULE PhoneAudio -----------------------------
(* The phone's sound on its way to the listeners of /audio (audio.go,        *)
(* audio_mux.go, handleAudio in server.go, the speaker's stream in           *)
(* gadget_audio.go and the dongle's in capture_audio_linux.go): two sources, *)
(* each with a broadcaster the mux listens to, and the broadcaster the mux   *)
(* feeds, which tells each listener its format once, before it subscribes.   *)
(* A chunk is the format its samples are in.                                 *)
EXTENDS Naturals, Sequences

CONSTANTS Listeners,     \* WebSockets of /audio
          UsbFormat,     \* the gadget's, fixed by its configuration
          HdmiFormats,   \* what a dongle may offer
          NoFormat

ASSUME AudioConstants ==
    UsbFormat \notin HdmiFormats /\ NoFormat \notin {UsbFormat} \cup HdmiFormats

VARIABLES
    source,     \* per source: streaming, its broadcaster's params, chunks for the mux
    usbHeld,    \* a USB chunk came within usbHold
    current,    \* run's current
    out,        \* m.out: active, params
    listener,   \* per listener: where it is, the format it was told, its channel
    \* history: a source changed format unannounced; per listener, whether it
    \* was told the format out had when it subscribed, and has had since
    reformatted, sure

audioVars == <<source, usbHeld, current, out, listener, reformatted, sure>>

Sources == {"usb", "hdmi"}
NoSource == ""
FormatsOf(src) == IF src = "usb" THEN {UsbFormat} ELSE HdmiFormats
Away == [at |-> "away", told |-> NoFormat, chunks |-> <<>>, open |-> FALSE]

AudioInit ==
    /\ source = [s \in Sources |-> [active |-> FALSE, params |-> NoFormat, chunks |-> <<>>]]
    /\ usbHeld = FALSE /\ current = NoSource /\ out = [active |-> FALSE, params |-> NoFormat]
    /\ listener = [l \in Listeners |-> Away]
    /\ reformatted = FALSE /\ sure = [l \in Listeners |-> FALSE]

\* Broadcast to one channel: a full one drops its oldest. (It holds sixteen;
\* a listener's two hold chunks from before and after a change.)
Offer(chunks, c, room) == IF Len(chunks) < room THEN Append(chunks, c) ELSE Append(Tail(chunks), c)

Subscribed(l) == listener[l].open

-----------------------------------------------------------------------------
(* The sources                                                               *)

\* The stream opens, or opens again: SetParams.
StartSource(src) ==
    /\ ~source[src].active
    /\ \E f \in FormatsOf(src) :
          /\ source' = [source EXCEPT ![src].active = TRUE, ![src].params = f]
          /\ reformatted' = (reformatted \/ /\ source[src].params \notin {f, NoFormat}
                                            /\ current = src \/ source[src].chunks # <<>>)
    /\ UNCHANGED <<usbHeld, current, out, listener, sure>>

SourceChunk(src) ==
    /\ source[src].active
    /\ source' = [source EXCEPT ![src].chunks = Offer(@, source[src].params, 1)]
    /\ UNCHANGED <<usbHeld, current, out, listener, reformatted, sure>>

\* The stream fails, or is told to end: SetInactive.
EndSource(src) ==
    /\ source[src].active
    /\ source' = [source EXCEPT ![src].active = FALSE]
    /\ UNCHANGED <<usbHeld, current, out, listener, reformatted, sure>>

-----------------------------------------------------------------------------
(* The mux                                                                   *)

\* SetParams tells nobody; who is subscribed goes on with what it was told.
SetParams(p) ==
    /\ out' = [active |-> TRUE, params |-> p]
    /\ sure' = [l \in Listeners |-> sure[l] /\ p = out.params]

\* Restart disconnects every listener, so that each asks again.
Restart(p) ==
    /\ out' = [active |-> TRUE, params |-> p]
    /\ UNCHANGED sure

\* Mutant: a change of format does not disconnect the listeners.
BugPassOnKeepsListeners(src) ==
    /\ current' = src
    /\ IF current # src THEN out' = [active |-> TRUE, params |-> source[src].params]
       ELSE UNCHANGED out
    /\ listener' = [l \in Listeners |->
           IF Subscribed(l)
           THEN [listener[l] EXCEPT !.chunks = Offer(@, Head(source[src].chunks), 2)]
           ELSE listener[l]]
    /\ UNCHANGED sure

\* use, and the broadcast that follows it.
PassOn(src) ==
    LET p == source[src].params
        changed == current # src /\ out.active /\ out.params # p
        told(l) == IF changed THEN [listener[l] EXCEPT !.open = FALSE]
                    ELSE IF Subscribed(l)
                         THEN [listener[l] EXCEPT !.chunks = Offer(@, Head(source[src].chunks), 2)]
                         ELSE listener[l]
    IN  /\ current' = src
        /\ IF current = src THEN UNCHANGED <<out, sure>>
           ELSE IF ~out.active THEN SetParams(p)
           ELSE IF changed THEN Restart(p)
           ELSE UNCHANGED <<out, sure>>
        /\ listener' = [l \in Listeners |-> told(l)]

Take(src) ==
    /\ source[src].chunks # <<>>
    /\ source' = [source EXCEPT ![src].chunks = Tail(@)]
    /\ UNCHANGED reformatted

MuxUSB ==
    /\ Take("usb") /\ PassOn("usb")
    /\ usbHeld' = TRUE

\* While USB carries sound, HDMI's is silence.
MuxHDMI ==
    /\ Take("hdmi")
    /\ \/ ~usbHeld /\ PassOn("hdmi")
       \/ usbHeld /\ UNCHANGED <<current, out, sure, listener>>
    /\ UNCHANGED usbHeld

UsbHoldEnds ==
    /\ usbHeld
    /\ usbHeld' = FALSE
    /\ UNCHANGED <<source, current, out, listener, reformatted, sure>>

\* Every 250 ms: /audio is available while either source is.
MuxTick ==
    /\ LET on(src) == source[src].active
       IN  \/ /\ ~on("usb") /\ ~on("hdmi")
              /\ out' = [out EXCEPT !.active = FALSE] /\ current' = NoSource
              /\ UNCHANGED sure
           \/ ~out.active /\ on("usb") /\ SetParams(source["usb"].params) /\ UNCHANGED current
           \/ /\ ~out.active /\ ~on("usb") /\ on("hdmi")
              /\ SetParams(source["hdmi"].params) /\ UNCHANGED current
    /\ UNCHANGED <<source, usbHeld, listener, reformatted>>

-----------------------------------------------------------------------------
(* handleAudio                                                               *)

Connect(l) ==
    /\ listener[l].at = "away" /\ out.active
    /\ listener' = [listener EXCEPT ![l].at = "accepted"]
    /\ UNCHANGED <<source, usbHeld, current, out, reformatted, sure>>

\* The params are read, and sent; only then does the listener subscribe.
ReadParams(l) ==
    /\ listener[l].at = "accepted"
    /\ listener' = [listener EXCEPT ![l].at = "told", ![l].told = out.params]
    /\ UNCHANGED <<source, usbHeld, current, out, reformatted, sure>>

Subscribe(l) ==
    /\ listener[l].at = "told"
    /\ listener' = [listener EXCEPT ![l].at = "playing", ![l].open = TRUE, ![l].chunks = <<>>]
    /\ sure' = [sure EXCEPT ![l] = listener[l].told = out.params]
    /\ UNCHANGED <<source, usbHeld, current, out, reformatted>>

\* A channel Restart has closed is read to its end.
Receive(l) ==
    /\ listener[l].at = "playing" /\ listener[l].chunks # <<>>
    /\ listener' = [listener EXCEPT ![l].chunks = Tail(@)]
    /\ UNCHANGED <<source, usbHeld, current, out, reformatted, sure>>

\* The end of the channel, of the connection, or a write that fails: the
\* subscription ends, unless Restart has ended it.
LeaveAudio(l) ==
    /\ listener[l].at # "away"
    /\ listener' = [listener EXCEPT ![l] = Away]
    /\ sure' = [sure EXCEPT ![l] = FALSE]
    /\ UNCHANGED <<source, usbHeld, current, out, reformatted>>

AudioNext ==
    \/ \E s \in Sources : StartSource(s) \/ SourceChunk(s) \/ EndSource(s)
    \/ MuxUSB \/ MuxHDMI \/ UsbHoldEnds \/ MuxTick
    \/ \E l \in Listeners : \/ Connect(l) \/ ReadParams(l) \/ Subscribe(l)
                            \/ Receive(l) \/ LeaveAudio(l)

AudioSpec == AudioInit /\ [][AudioNext]_audioVars

-----------------------------------------------------------------------------
AudioTypeOK ==
    /\ \A s \in Sources :
          /\ source[s].active \in BOOLEAN
          /\ source[s].params \in FormatsOf(s) \cup {NoFormat}
          /\ Len(source[s].chunks) <= 1
    /\ usbHeld \in BOOLEAN /\ current \in Sources \cup {NoSource}
    /\ out \in [active : BOOLEAN, params : {UsbFormat, NoFormat} \cup HdmiFormats]
    /\ \A l \in Listeners :
          /\ listener[l].at \in {"away", "accepted", "told", "playing"}
          /\ listener[l].told \in {UsbFormat, NoFormat} \cup HdmiFormats
          /\ listener[l].open => listener[l].at = "playing"
    /\ reformatted \in BOOLEAN /\ sure \in [Listeners -> BOOLEAN]

\* A listener gets chunks in the format it was told, however the phone and
\* the dongle switch meanwhile: a change of source that changes the format
\* ends its channel first, and what is left in it is in the old format. The
\* code does not keep this for a listener that subscribes after the format
\* it read was replaced (server.go:841-855), nor for one that stays while
\* neither source plays and another one begins (audio_mux.go:103-106), nor
\* for a source that comes back with another format while it is passed
\* through (audio_mux.go:55-57): those are set aside.
DecodesAsTold ==
    \A l \in Listeners : ~reformatted /\ sure[l] =>
        \A i \in 1..Len(listener[l].chunks) : listener[l].chunks[i] = listener[l].told
=============================================================================
