---------------------------- MODULE BiDiSession ----------------------------
(* The WebDriver BiDi endpoint (bidi.go): one session for the whole process, *)
(* made by one connection and used by any. Each connection has a handler,    *)
(* which runs its commands one by one, and an idle timer, which ends its     *)
(* session at any time. bidiSessionMu is held inside a step only. A HID call *)
(* that fails after a press or a release was asked for is the backend's      *)
(* business (GadgetHID): here the input counts as asked for.                 *)
EXTENDS Naturals, Sequences, FiniteSets, SequencesExt

CONSTANTS Conns,      \* WebSocket connections
          Timed,      \* those whose idle timer may fire
          BiDiSessions,\* sessions in memory
          Values,     \* what actions press: of "x", "X", "Shift", "left", "finger"
          MaxHeld,    \* bound: keys, buttons and fingers a session holds
          NoSession

ASSUME BiDiConstants ==
    Timed \subseteq Conns /\ NoSession \notin BiDiSessions /\ MaxHeld \in Nat

VARIABLES
    bidiActive,
    session,    \* per session: owner, heldKeys, shiftFor, heldButtons, touchState
    conn,       \* per connection: "gone", "open", "closed"
    thread,     \* per thread: what it does, with which session, the steps left
    down,       \* what the HID backend was last asked to hold
    \* history: a session was acted with while another thread used it;
    \* a call failed, and left out the release of a Shift
    mixed, cut

bidiVars == <<bidiActive, session, conn, thread, down, mixed, cut>>

Handler(c) == <<c, "handler">>
Timer(c)   == <<c, "timer">>
Threads == (Conns \X {"handler"}) \cup (Timed \X {"timer"})

NoInput == [heldKeys |-> <<>>, shiftFor |-> {}, heldButtons |-> {}, touchState |-> "none"]
NewSession(c) == [owner |-> c, input |-> NoInput]
Free == [mode |-> "free", on |-> NoSession, todo |-> <<>>]

BiDiInit ==
    /\ bidiActive = NoSession
    /\ session = [s \in BiDiSessions |-> NewSession("nobody")]
    /\ conn = [c \in Conns |-> "gone"]
    /\ thread = [t \in Threads |-> Free]
    /\ down = {} /\ mixed = FALSE /\ cut = FALSE

-----------------------------------------------------------------------------
(* Steps of a thread                                                         *)

press(k)   == <<"press", k>>
release(k) == <<"release", k>>
touch(on)  == <<"touch", on>>
collect    == <<"collect", "all">>   \* releaseAllInput, up to its unlock
lifted     == <<"lifted", "finger">> \* pointerUp, after its Touch

Reading(c) == thread[Handler(c)].mode = "free" /\ conn[c] = "open"
Idle(t) == thread[t].todo = <<>>
Do(t, steps) == thread' = [thread EXCEPT ![t].todo = steps]

\* A thread takes a session to act with it, or to release what it holds.
Use(t, s, mode, steps) ==
    /\ thread' = [thread EXCEPT ![t] = [mode |-> mode, on |-> s, todo |-> steps]]
    /\ mixed' = (mixed \/ \E u \in Threads \ {t} :
                     thread[u].on = s /\ "acting" \in {mode, thread[u].mode})

\* A session nobody uses any more is garbage.
Finish(t) ==
    LET s == thread[t].on
        garbage == s \notin {bidiActive, NoSession} /\ \A u \in Threads \ {t} : thread[u].on # s
    IN  /\ thread' = [thread EXCEPT ![t] = Free]
        /\ session' = IF garbage THEN [session EXCEPT ![s] = NewSession("nobody")] ELSE session

-----------------------------------------------------------------------------
(* Commands                                                                  *)

Accept(c) ==
    /\ conn[c] = "gone" /\ (c \in Timed => thread[Timer(c)] = Free)
    /\ conn' = [conn EXCEPT ![c] = "open"]
    /\ UNCHANGED <<bidiActive, session, thread, down, mixed, cut>>

bidiSessionNew(c) ==
    /\ Reading(c) /\ bidiActive = NoSession
    /\ \E s \in BiDiSessions :
          /\ \A t \in Threads : thread[t].on # s
          /\ bidiActive' = s
          /\ session' = [session EXCEPT ![s] = NewSession(c)]
    /\ UNCHANGED <<conn, thread, down, mixed, cut>>

\* Whichever session is active is ended, whoever made it.
bidiSessionEnd(c) ==
    /\ Reading(c) /\ bidiActive # NoSession
    /\ bidiActive' = NoSession
    /\ Use(Handler(c), bidiActive, "releasing", <<collect>>)
    /\ UNCHANGED <<session, conn, down, cut>>

bidiReleaseActions(c) ==
    /\ Reading(c) /\ bidiActive # NoSession
    /\ Use(Handler(c), bidiActive, "releasing", <<collect>>)
    /\ UNCHANGED <<bidiActive, session, conn, down, cut>>

\* The session is looked up once, for all the actions.
bidiPerformActions(c) ==
    /\ Reading(c) /\ bidiActive # NoSession
    /\ Use(Handler(c), bidiActive, "acting", <<>>)
    /\ UNCHANGED <<bidiActive, session, conn, down, cut>>

\* bidiDrop ends the session this connection made, if it is the active one.
bidiDrop(t, c, mode) ==
    IF bidiActive # NoSession /\ session[bidiActive].owner = c
    THEN bidiActive' = NoSession /\ Use(t, bidiActive, mode, <<collect>>)
    ELSE /\ UNCHANGED <<bidiActive, mixed>>
         /\ thread' = [thread EXCEPT ![t] = [Free EXCEPT !.mode = mode]]

\* Mutant: the handler returns without dropping its session.
BugHandlerLeaves(c) ==
    /\ thread[Handler(c)].mode = "free" /\ conn[c] = "closed"
    /\ thread' = [thread EXCEPT ![Handler(c)] = [Free EXCEPT !.mode = "dropping"]]
    /\ UNCHANGED <<bidiActive, mixed, session, conn, down, cut>>

\* Reading fails: the handler drops its session, and ends.
HandlerDrops(c) ==
    /\ thread[Handler(c)].mode = "free" /\ conn[c] = "closed"
    /\ bidiDrop(Handler(c), c, "dropping")
    /\ UNCHANGED <<session, conn, down, cut>>

HandlerEnds(c) ==
    /\ thread[Handler(c)].mode = "dropping" /\ Idle(Handler(c))
    /\ Finish(Handler(c))
    /\ conn' = [conn EXCEPT ![c] = "gone"]
    /\ UNCHANGED <<bidiActive, down, mixed, cut>>

\* Five minutes without a command: the one that runs may take longer.
IdleFires(c) ==
    /\ conn[c] # "gone" /\ thread[Timer(c)].mode = "free"
    /\ bidiDrop(Timer(c), c, "closing")
    /\ UNCHANGED <<session, conn, down, cut>>

IdleCloses(c) ==
    /\ thread[Timer(c)].mode = "closing" /\ Idle(Timer(c))
    /\ Finish(Timer(c))
    /\ conn' = [conn EXCEPT ![c] = IF @ = "open" THEN "closed" ELSE @]
    /\ UNCHANGED <<bidiActive, down, mixed, cut>>

ClientCloses(c) ==
    /\ conn[c] = "open"
    /\ conn' = [conn EXCEPT ![c] = "closed"]
    /\ UNCHANGED <<bidiActive, session, thread, down, mixed, cut>>

-----------------------------------------------------------------------------
(* Actions: what is noted under the lock, and the HID calls that follow      *)

Acting(t) == thread[t].mode = "acting" /\ Idle(t)
Held(i) == Len(i.heldKeys) + Cardinality(i.heldButtons)
           + IF i.touchState = "none" THEN 0 ELSE 1
\* Bound: after a race nothing more is pressed.
Bounded == ~mixed /\ ~cut
Note(t, input, steps) ==
    /\ Bounded /\ Held(input) <= MaxHeld
    /\ session' = [session EXCEPT ![thread[t].on].input = input]
    /\ Do(t, steps)
    /\ UNCHANGED <<bidiActive, conn, down, mixed, cut>>
Input(t) == session[thread[t].on].input

removeKey(keys, k) == IF Contains(keys, k) THEN RemoveFirst(keys, k) ELSE keys
shiftHeld(keys) == Contains(keys, "shift")
bidiKeyNeedsShift(v) == v = "X"
bidiKeyToHID(v) == IF v = "Shift" THEN "shift" ELSE "x"

KeyDown(t, v) ==
    /\ Acting(t) /\ v \in {"x", "X", "Shift"}
    /\ LET k == bidiKeyToHID(v)
           i == Input(t)
           addShift == bidiKeyNeedsShift(v) /\ ~shiftHeld(i.heldKeys)
       IN  IF addShift
           THEN Note(t, [i EXCEPT !.heldKeys = @ \o <<"shift", k>>, !.shiftFor = @ \cup {k}],
                     <<press("shift"), press(k)>>)
           ELSE Note(t, [i EXCEPT !.heldKeys = Append(@, k)], <<press(k)>>)

KeyUp(t, v) ==
    /\ Acting(t) /\ v \in {"x", "X", "Shift"}
    /\ LET k == bidiKeyToHID(v)
           i == Input(t)
           keys == removeKey(i.heldKeys, k)
       IN  IF k \in i.shiftFor
           THEN Note(t, [i EXCEPT !.heldKeys = removeKey(keys, "shift"), !.shiftFor = @ \ {k}],
                     <<release(k), release("shift")>>)
           ELSE Note(t, [i EXCEPT !.heldKeys = keys], <<release(k)>>)

PointerDown(t, v) ==
    /\ Acting(t)
    /\ \/ /\ v = "left"
          /\ Note(t, [Input(t) EXCEPT !.heldButtons = @ \cup {v}], <<press(v)>>)
       \/ /\ v = "finger"
          /\ Note(t, [Input(t) EXCEPT !.touchState = "down"], <<touch({v})>>)

\* A finger's contact is forgotten once the report without it is out.
PointerUp(t, v) ==
    /\ Acting(t)
    /\ \/ /\ v = "left"
          /\ Note(t, [Input(t) EXCEPT !.heldButtons = @ \ {v}], <<release(v)>>)
       \/ /\ v = "finger"
          /\ Note(t, [Input(t) EXCEPT !.touchState = IF @ = "none" THEN @ ELSE "up"],
                  <<touch({}), lifted>>)

\* A move drags the finger that is down. (Where to is not told apart.)
PointerMove(t, v) ==
    /\ Acting(t) /\ v = "finger" /\ Input(t).touchState = "down"
    /\ Note(t, Input(t), <<touch({v})>>)

EndActions(t) ==
    /\ Acting(t)
    /\ Finish(t)
    /\ UNCHANGED <<bidiActive, conn, down, mixed, cut>>

Action(t) ==
    \/ \E v \in Values : \/ KeyDown(t, v) \/ KeyUp(t, v)
                         \/ PointerDown(t, v) \/ PointerUp(t, v) \/ PointerMove(t, v)
    \/ EndActions(t)

\* A HID call. One that fails ends the actions; a release does not care.
Call(t) ==
    /\ ~Idle(t)
    /\ LET step == Head(thread[t].todo)
       IN  /\ step[1] \in {"press", "release", "touch"}
           /\ down' = CASE step[1] = "press" -> down \cup {step[2]}
                        [] step[1] = "release" -> down \ {step[2]}
                        [] OTHER -> (down \ {"finger"}) \cup step[2]
    /\ \/ Do(t, Tail(thread[t].todo)) /\ UNCHANGED <<session, cut>>
       \/ /\ thread[t].mode = "acting" /\ Finish(t)
          /\ cut' = (cut \/ release("shift") \in Range(Tail(thread[t].todo)))
    /\ UNCHANGED <<bidiActive, conn, mixed>>

Lifted(t) ==
    /\ ~Idle(t) /\ Head(thread[t].todo) = lifted
    /\ session' = [session EXCEPT ![thread[t].on].input.touchState = "none"]
    /\ Do(t, Tail(thread[t].todo))
    /\ UNCHANGED <<bidiActive, conn, down, mixed, cut>>

\* Mutant: releasing all lets go of keys and buttons only.
BugReleaseForgetsFinger(t) ==
    /\ ~Idle(t) /\ Head(thread[t].todo) = collect
    /\ LET i == Input(t)
           keys == [n \in DOMAIN i.heldKeys |-> release(i.heldKeys[n])]
       IN  Do(t, Reverse(keys)
                 \o (IF i.heldButtons = {} THEN <<>> ELSE <<release("left")>>))
    /\ session' = [session EXCEPT ![thread[t].on].input = NoInput]
    /\ UNCHANGED <<bidiActive, conn, down, mixed, cut>>

releaseAllInput(t) ==
    /\ ~Idle(t) /\ Head(thread[t].todo) = collect
    /\ LET i == Input(t)
           keys == [n \in DOMAIN i.heldKeys |-> release(i.heldKeys[n])]
       IN  Do(t, Reverse(keys)
                 \o (IF i.heldButtons = {} THEN <<>> ELSE <<release("left")>>)
                 \o (IF i.touchState = "none" THEN <<>> ELSE <<touch({})>>))
    /\ session' = [session EXCEPT ![thread[t].on].input = NoInput]
    /\ UNCHANGED <<bidiActive, conn, down, mixed, cut>>

\* session.end and input.releaseActions answer.
Released(t) ==
    /\ thread[t].mode = "releasing" /\ Idle(t)
    /\ Finish(t)
    /\ UNCHANGED <<bidiActive, conn, down, mixed, cut>>

BiDiNext ==
    \/ \E c \in Conns :
          \/ Accept(c) \/ bidiSessionNew(c) \/ bidiSessionEnd(c) \/ bidiReleaseActions(c)
          \/ bidiPerformActions(c) \/ HandlerDrops(c) \/ HandlerEnds(c)
          \/ ClientCloses(c)
    \/ \E c \in Timed : IdleFires(c) \/ IdleCloses(c)
    \/ \E t \in Threads :
          Action(t) \/ Call(t) \/ Lifted(t) \/ releaseAllInput(t) \/ Released(t)

BiDiSpec == BiDiInit /\ [][BiDiNext]_bidiVars

-----------------------------------------------------------------------------
HidInputs == {"x", "shift", "left", "finger"}

BiDiTypeOK ==
    /\ bidiActive \in BiDiSessions \cup {NoSession}
    /\ \A s \in BiDiSessions :
          /\ session[s].owner \in Conns \cup {"nobody"}
          /\ session[s].input.heldKeys \in BoundedSeq({"x", "shift"}, MaxHeld)
          /\ session[s].input.shiftFor \subseteq {"x"}
          /\ session[s].input.heldButtons \subseteq {"left"}
          /\ session[s].input.touchState \in {"none", "down", "up"}
    /\ conn \in [Conns -> {"gone", "open", "closed"}]
    /\ \A t \in Threads :
          /\ thread[t].mode \in {"free", "acting", "releasing", "dropping", "closing"}
          /\ thread[t].on \in BiDiSessions \cup {NoSession}
    /\ down \subseteq HidInputs /\ mixed \in BOOLEAN /\ cut \in BOOLEAN

InputHeld(i) == Range(i.heldKeys) \cup i.heldButtons
            \cup (IF i.touchState = "none" THEN {} ELSE {"finger"})

Quiet == \A t \in Threads : thread[t].on = NoSession
Noted == IF bidiActive = NoSession THEN {} ELSE InputHeld(session[bidiActive].input)

\* Nothing a session pressed outlives it: whenever no action and no release
\* is under way, all that the backend holds is noted in the active session,
\* whose end will release it - through calls that fail half way, Shifts that
\* were added, sessions ended by other connections, by the idle timer and by
\* connections that close. The code does not keep this for a session somebody
\* acts with while another thread acts with it or releases it (bidi.go:114,
\* 242), nor for the Shift of a keyUp that failed (bidi.go:591): those are set
\* aside.
InputAccounted ==
    ~mixed /\ ~cut /\ Quiet => down \subseteq Noted

\* The active session's connection is still served, so its end will be
\* noticed, also if the timer dropped the connection before the session was
\* made: no session outlives its connection and keeps others from making one.
SessionServed ==
    bidiActive # NoSession => conn[session[bidiActive].owner] # "gone"
=============================================================================
