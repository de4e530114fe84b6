------------------------------ MODULE GadgetHID ------------------------------
(***************************************************************************)
(* The linux-gadget input backend (gadget_hid.go): commands written as     *)
(* full-state HID reports to one device node per function, a monitor that  *)
(* polls the gadget once a second, and an orderly or a sudden end of the   *)
(* process.  The phone, its USB link and f_hid's one-report queue are the  *)
(* environment.                                                            *)
(*                                                                         *)
(* Data abstraction: a report is the set of things it holds down (keys and *)
(* modifiers, buttons, or contacts); coordinates and the wheel are left    *)
(* out.  A call that is refused before any report is made (a bad keycode,  *)
(* a seventh key) changes nothing and is no step.  owed is hidFunction.state*)
(* while dirty, the only time it is read, and {} otherwise.  A lock (hidFunction.mu) *)
(* is held from a call's first report to its last: call[f] # Idle.         *)
(*                                                                         *)
(* A definition named Bug... is the one that follows it with a plausible   *)
(* mistake in it; no specification uses one.                               *)
(***************************************************************************)
EXTENDS Naturals

CONSTANTS Fns,       \* the HID functions the gadget has
          Keys,      \* what can be held down on a function
          None,      \* an empty report queue
          Idle,      \* no call holds the function's lock
          HasNet,    \* the gadget has an Ethernet function (carrierDowns reads it)
          AdminOps,  \* the administrative calls made: "hid", "relay"
          Ends       \* how the process may end: "kill", "shutdown"

FnNames == {"keyboard", "mouse", "touch"}
Rank(f) == CASE f = "keyboard" -> 1 [] f = "mouse" -> 2 [] OTHER -> 3

\* A call in progress: the reports it may still send before the last, its
\* final state, the state it falls back on when a report fails, and what its
\* caller means to hold from now on (add) and no longer (del).
Call == [mid : SUBSET SUBSET Keys, final : SUBSET Keys, safe : SUBSET Keys,
         add : SUBSET Keys, del : SUBSET Keys]

ASSUME ConstantsAssumption ==
    /\ Fns \subseteq FnNames
    /\ \A S \in SUBSET Keys : S # None
    /\ \A c \in Call : c # Idle
    /\ HasNet \in BOOLEAN

VARIABLES
    \* the environment: the gadget in configfs, the USB link, and per function
    \* what the phone believes is held and the report f_hid has queued
    gadget, host, pullup, moved, phone, slot,
    \* roadie: the process, and per function the fields of hidFunction with
    \* kstate/mstate.buttons/tstate as "held"
    proc, present, dev, closed, held, dirty, owed, call,
    \* roadie: what the monitor remembers between polls, and reenumerated
    usb, observed, cleanPending, known, reenumerated,
    \* the poll in progress: where it is, functions still to visit, the UDC
    \* state it read, and whether open == want so far
    pc, todo, seen, allOpen,
    \* the reset request in progress
    admin, adminTodo,
    \* history: what callers were told is down, why roadie no longer knows
    \* what the phone holds, and the held entries that the phone dropped when it
    \* left (once the carrier count has been read)
    told, lost, carried

env == <<gadget, host, pullup, moved, phone>>
fnState == <<held, dirty, owed>>
memory == <<usb, observed, cleanPending, known>>
poll == <<pc, todo, seen, allOpen>>
reset == <<admin, adminTodo>>
vars == <<env, slot, proc, present, dev, closed, fnState, call, memory,
          reenumerated, poll, reset, told, lost, carried>>

\* The type invariant, by the owner of the state.
EnvTypeOK ==
    /\ gadget \in BOOLEAN /\ pullup \in BOOLEAN /\ moved \in BOOLEAN
    /\ host \in {"none", "configured", "suspended"}
    /\ phone \in [Fns -> SUBSET Keys]
LinkTypeOK ==
    /\ slot \in [Fns -> (SUBSET Keys) \cup {None}]
    /\ dev \in [Fns -> {"closed", "open", "stale"}]
    /\ reenumerated \in BOOLEAN
    /\ lost \in [Fns -> {"no", "restart", "reset"}]
FnTypeOK ==
    /\ held \in [Fns -> SUBSET Keys] /\ owed \in [Fns -> SUBSET Keys]
    /\ dirty \in [Fns -> BOOLEAN]
    /\ call \in [Fns -> Call \cup {Idle}]
    /\ told \in [Fns -> SUBSET Keys] /\ carried \in [Fns -> SUBSET Keys]
ProcTypeOK ==
    /\ proc \in {"up", "stopping", "down"}
    /\ present \in [Fns -> BOOLEAN] /\ closed \in [Fns -> BOOLEAN]
    /\ admin \in {"idle", "gap", "forget", "relayClose", "relayForget"}
    /\ adminTodo \subseteq Fns
PollTypeOK ==
    /\ usb \in {"none", "configured", "suspended"}
    /\ observed \in BOOLEAN /\ cleanPending \in BOOLEAN /\ known \in BOOLEAN
    /\ pc \in {"idle", "gone", "sync", "forget", "release", "retry"}
    /\ todo \subseteq Fns
    /\ seen \in {"none", "configured", "suspended"} /\ allOpen \in BOOLEAN
TypeOK == EnvTypeOK /\ LinkTypeOK /\ FnTypeOK /\ ProcTypeOK /\ PollTypeOK

\* What the phone holds once it has collected what is queued for it.
Wire(f) == IF slot[f] = None THEN phone[f] ELSE slot[f]

\* The functions in the order of functions().
IsFirst(f, S) == f \in S /\ \A g \in S : Rank(f) <= Rank(g)

-----------------------------------------------------------------------------
(* A new process: newGadgetHID.                                            *)
BugNewProcessClean ==
    /\ present' = [f \in Fns |-> FALSE] /\ closed' = [f \in Fns |-> FALSE]
    /\ dev' = [f \in Fns |-> "closed"]
    /\ held' = [f \in Fns |-> {}] /\ owed' = [f \in Fns |-> {}]
    /\ dirty' = [f \in Fns |-> FALSE]
    /\ call' = [f \in Fns |-> Idle]
    /\ usb' = "none" /\ observed' = FALSE
    /\ cleanPending' = FALSE /\ known' = FALSE /\ reenumerated' = FALSE
    /\ pc' = "idle" /\ todo' = {} /\ seen' = "none" /\ allOpen' = TRUE
    /\ admin' = "idle" /\ adminTodo' = {}
    /\ told' = [f \in Fns |-> {}] /\ carried' = [f \in Fns |-> {}]

NewProcess ==
    /\ present' = [f \in Fns |-> FALSE] /\ closed' = [f \in Fns |-> FALSE]
    /\ dev' = [f \in Fns |-> "closed"]
    /\ held' = [f \in Fns |-> {}] /\ owed' = [f \in Fns |-> {}]
    /\ dirty' = [f \in Fns |-> FALSE]
    /\ call' = [f \in Fns |-> Idle]
    /\ usb' = "none" /\ observed' = FALSE
    /\ cleanPending' = TRUE /\ known' = FALSE /\ reenumerated' = FALSE
    /\ pc' = "idle" /\ todo' = {} /\ seen' = "none" /\ allOpen' = TRUE
    /\ admin' = "idle" /\ adminTodo' = {}
    /\ told' = [f \in Fns |-> {}] /\ carried' = [f \in Fns |-> {}]

Init ==
    /\ gadget = TRUE /\ host \in {"none", "configured"} /\ pullup = TRUE
    /\ moved = FALSE
    /\ phone = [f \in Fns |-> {}] /\ slot = [f \in Fns |-> None]
    /\ proc = "up"
    /\ present = [f \in Fns |-> FALSE] /\ closed = [f \in Fns |-> FALSE]
    /\ dev = [f \in Fns |-> "closed"]
    /\ held = [f \in Fns |-> {}] /\ owed = [f \in Fns |-> {}]
    /\ dirty = [f \in Fns |-> FALSE]
    /\ call = [f \in Fns |-> Idle]
    /\ usb = "none" /\ observed = FALSE
    /\ cleanPending = TRUE /\ known = FALSE /\ reenumerated = FALSE
    /\ pc = "idle" /\ todo = {} /\ seen = "none" /\ allOpen = TRUE
    /\ admin = "idle" /\ adminTodo = {}
    /\ told = [f \in Fns |-> {}] /\ carried = [f \in Fns |-> {}]
    /\ lost = [f \in Fns |-> "no"]

\* The exit of the process: its memory is gone, its file descriptors closed.
\* What f_hid has queued and what the phone holds are untouched.
Die == NewProcess /\ proc' = "down" /\ UNCHANGED <<env, slot, lost>>

Kill == "kill" \in Ends /\ proc # "down" /\ Die

Start ==
    /\ proc = "down" /\ proc' = "up"
    /\ lost' = [f \in Fns |-> IF Wire(f) = {} THEN "no" ELSE "restart"]
    /\ UNCHANGED <<env, slot, present, dev, closed, fnState, call, memory,
                   reenumerated, poll, reset, told, carried>>

-----------------------------------------------------------------------------
(* The environment: the phone and its link.                                *)

roadie == <<proc, present, closed, fnState, call, memory, reenumerated, poll,
            reset, told>>

\* The phone selects the configuration: it starts with nothing pressed.
Attach ==
    /\ gadget /\ pullup /\ host = "none" /\ host' = "configured"
    /\ lost' = [f \in Fns |-> "no"]
    /\ UNCHANGED <<gadget, pullup, moved, phone, slot, dev, roadie, carried>>

\* Unplugged, reset, or pulled down: queued reports are dropped, and the
\* Ethernet function loses carrier.
Unplug ==
    /\ host' = "none" /\ moved' = TRUE
    /\ phone' = [f \in Fns |-> {}] /\ slot' = [f \in Fns |-> None]
    /\ lost' = [f \in Fns |-> "no"]
    /\ carried' = IF known THEN held ELSE carried

Detach ==
    /\ host # "none" /\ Unplug
    /\ UNCHANGED <<gadget, pullup, dev, roadie>>

Suspend ==
    /\ host = "configured" /\ host' = "suspended"
    /\ UNCHANGED <<gadget, pullup, moved, phone, slot, dev, roadie, lost, carried>>

Resume ==
    /\ host = "suspended" /\ host' = "configured"
    /\ UNCHANGED <<gadget, pullup, moved, phone, slot, dev, roadie, lost, carried>>

\* The phone polls the endpoint and collects the queued report.
Collect(f) ==
    /\ host = "configured" /\ slot[f] # None
    /\ phone' = [phone EXCEPT ![f] = slot[f]]
    /\ slot' = [slot EXCEPT ![f] = None]
    /\ UNCHANGED <<gadget, host, pullup, moved, dev, roadie, lost, carried>>

\* roadie-gadget down and up: the nodes roadie has open are replaced.
GadgetDown ==
    /\ gadget /\ gadget' = FALSE /\ Unplug
    /\ dev' = [f \in Fns |-> IF dev[f] = "open" THEN "stale" ELSE dev[f]]
    /\ UNCHANGED <<pullup, roadie>>

GadgetUp ==
    /\ ~gadget /\ gadget' = TRUE /\ pullup' = TRUE
    /\ UNCHANGED <<host, moved, phone, slot, dev, roadie, lost, carried>>

-----------------------------------------------------------------------------
(* Writing: WriteReport and writeLocked.                                   *)

\* "noHost" is errUSBNotConfigured, "notReading" errHostNotReading, "node"
\* any other error of the node, "refused" a call that reaches no node.  A
\* report waits for the one ahead of it to be collected, so that a full queue
\* fails only when the phone does not collect.
BugOutcomesAfterClose(f) ==
    IF ~present[f] \/ dev[f] = "closed" THEN {"refused"}
    ELSE IF dev[f] = "stale" THEN {"node", "noHost"}
    ELSE IF host = "none" THEN {"noHost"}
    ELSE IF host = "configured" /\ slot[f] = None THEN {"ok"}
    ELSE {"notReading"}

Outcomes(f) ==
    IF closed[f] \/ ~present[f] \/ dev[f] = "closed" THEN {"refused"}
    ELSE IF dev[f] = "stale" THEN {"node", "noHost"}
    ELSE IF host = "none" THEN {"noHost"}
    ELSE IF host = "configured" /\ slot[f] = None THEN {"ok"}
    ELSE {"notReading"}

WriteLocked(f, report, o) ==
    /\ o \in Outcomes(f)
    /\ slot' = IF o = "ok" THEN [slot EXCEPT ![f] = report] ELSE slot
    /\ lost' = IF o = "ok" THEN [lost EXCEPT ![f] = "no"] ELSE lost
    /\ reenumerated' = (reenumerated \/ o = "noHost")
    /\ dev' = IF o = "node" THEN [dev EXCEPT ![f] = "closed"] ELSE dev

\* The state a function is left with; entries carried over an enumeration
\* are those still held.
SetHeld(f, S) ==
    /\ held' = [held EXCEPT ![f] = S]
    /\ carried' = [carried EXCEPT ![f] = @ \cap S]

Succeed(f, c) ==
    /\ SetHeld(f, c.final)
    /\ dirty' = [dirty EXCEPT ![f] = FALSE]
    /\ owed' = [owed EXCEPT ![f] = {}]
    /\ told' = [told EXCEPT ![f] = (@ \ c.del) \cup c.add]
    /\ call' = [call EXCEPT ![f] = Idle]

BugFailOwesFinal(f, c, owes) ==
    /\ SetHeld(f, c.safe)
    /\ IF owes THEN /\ dirty' = [dirty EXCEPT ![f] = TRUE]
                    /\ owed' = [owed EXCEPT ![f] = c.final]
               ELSE UNCHANGED <<dirty, owed>>
    /\ told' = [told EXCEPT ![f] = @ \ c.del]
    /\ call' = [call EXCEPT ![f] = Idle]

Fail(f, c, owes) ==
    /\ SetHeld(f, c.safe)
    /\ IF owes THEN /\ dirty' = [dirty EXCEPT ![f] = TRUE]
                    /\ owed' = [owed EXCEPT ![f] = c.safe]
               ELSE UNCHANGED <<dirty, owed>>
    /\ told' = [told EXCEPT ![f] = @ \ c.del]
    /\ call' = [call EXCEPT ![f] = Idle]

cmdUnchanged == <<env, proc, present, closed, memory, poll, reset>>

\* sendLocked, first report.  A first report refused for want of a host owes
\* nothing, unless something is owed already.
Begin(f, first, c) ==
    /\ proc # "down" /\ call[f] = Idle
    /\ \E o \in Outcomes(f) :
        /\ WriteLocked(f, first, o)
        /\ \/ o = "ok" /\ call' = [call EXCEPT ![f] = c]
              /\ UNCHANGED <<fnState, told, carried>>
           \/ o # "ok" /\ Fail(f, c, dirty[f] \/ o # "noHost")
    /\ UNCHANGED cmdUnchanged

\* sendLocked for a call of a single report, its final state.
BugSingleOwesNothing(f, c) ==
    /\ proc # "down" /\ call[f] = Idle
    /\ \E o \in Outcomes(f) :
        /\ WriteLocked(f, c.final, o)
        /\ \/ o = "ok" /\ Succeed(f, c)
           \/ o # "ok" /\ Fail(f, c, dirty[f])
    /\ UNCHANGED cmdUnchanged

Single(f, c) ==
    /\ proc # "down" /\ call[f] = Idle
    /\ \E o \in Outcomes(f) :
        /\ WriteLocked(f, c.final, o)
        /\ \/ o = "ok" /\ Succeed(f, c)
           \/ o # "ok" /\ Fail(f, c, dirty[f] \/ o # "noHost")
    /\ UNCHANGED cmdUnchanged

\* sendLocked, a later report that is not the last.
SendMid(f) ==
    /\ call[f] # Idle
    /\ \E r \in call[f].mid, o \in Outcomes(f) :
        /\ WriteLocked(f, r, o)
        /\ \/ o = "ok" /\ UNCHANGED <<fnState, call, told, carried>>
           \/ o # "ok" /\ Fail(f, call[f], TRUE)
    /\ UNCHANGED cmdUnchanged

\* sendLocked, the last report.
SendLast(f) ==
    /\ call[f] # Idle
    /\ \E o \in Outcomes(f) :
        /\ WriteLocked(f, call[f].final, o)
        /\ \/ o = "ok" /\ Succeed(f, call[f])
           \/ o # "ok" /\ Fail(f, call[f], TRUE)
    /\ UNCHANGED cmdUnchanged

-----------------------------------------------------------------------------
(* The commands.                                                           *)

NewCall(mid, final, safe, add, del) ==
    [mid |-> mid, final |-> final, safe |-> safe, add |-> add, del |-> del]

\* keyboardState.and, touchesAnd, safe.buttons &= final.buttons.
BugHeldAfter(f, next) == next
HeldBoth(f, next) == held[f] \cap next

\* KeyPress, MousePress.
Press(f, k) ==
    /\ f # "touch"
    /\ LET next == held[f] \cup {k}
       IN  Single(f, NewCall({}, next, HeldBoth(f, next), {k}, {}))

\* KeyRelease, MouseRelease: a no-op on a function the gadget lacks.
Release(f, k) ==
    /\ f # "touch" /\ present[f]
    /\ LET next == held[f] \ {k}
       IN  Single(f, NewCall({}, next, HeldBoth(f, next), {}, {k}))

\* MouseClick: down, then up.
Click(k) ==
    /\ "mouse" \in Fns
    /\ LET up == held["mouse"] \ {k}
       IN  Begin("mouse", up \cup {k},
                 NewCall({}, up, HeldBoth("mouse", up), {}, {k}))

\* MouseMove and MouseScroll: one report or several, nothing pressed or let go.
Move ==
    /\ "mouse" \in Fns
    /\ LET h == held["mouse"]
           c == NewCall({h}, h, h, {}, {})
       IN  Single("mouse", c) \/ Begin("mouse", h, c)

\* Type: the first key on top of what is held, then per character any shift
\* and key, and everything up.
Type(k) ==
    /\ "keyboard" \in Fns
    /\ Begin("keyboard", held["keyboard"] \cup {k},
             NewCall(SUBSET Keys, {}, {}, {}, Keys))

\* Touch: the contacts are the whole new state.
BugTouchKeepsFailed(contacts) ==
    /\ "touch" \in Fns
    /\ present["touch"] \/ contacts # {}
    /\ Single("touch", NewCall({}, contacts, contacts, contacts, Keys \ contacts))

Touch(contacts) ==
    /\ "touch" \in Fns
    /\ present["touch"] \/ contacts # {}
    /\ Single("touch", NewCall({}, contacts, HeldBoth("touch", contacts),
                               contacts, Keys \ contacts))

Command ==
    \/ \E f \in Fns, k \in Keys : Press(f, k) \/ Release(f, k)
    \/ \E k \in Keys : Click(k) \/ Type(k)
    \/ Move
    \/ \E contacts \in SUBSET Keys : Touch(contacts)
    \/ \E f \in Fns : SendMid(f) \/ SendLast(f)

-----------------------------------------------------------------------------
(* Forgetting and releasing, one function at a time.                       *)

\* resetInputState, one function.  "why" names who forgot something the phone
\* may still hold.
BugForgetKeepsDebt(f, why) ==
    /\ call[f] = Idle
    /\ SetHeld(f, {})
    /\ UNCHANGED <<dirty, owed>>
    /\ lost' = [lost EXCEPT ![f] = IF Wire(f) = {} THEN "no" ELSE why]

Forget(f, why) ==
    /\ call[f] = Idle
    /\ SetHeld(f, {})
    /\ dirty' = [dirty EXCEPT ![f] = FALSE]
    /\ owed' = [owed EXCEPT ![f] = {}]
    /\ lost' = [lost EXCEPT ![f] = IF Wire(f) = {} THEN "no" ELSE why]

\* releaseLocked.
BugReleaseUnforced(f, force) ==
    IF dev[f] = "closed" \/ held[f] = {}
    THEN UNCHANGED <<fnState, slot, lost, reenumerated, dev, carried>>
    ELSE \E o \in Outcomes(f) :
           /\ WriteLocked(f, {}, o)
           /\ SetHeld(f, {})
           /\ dirty' = [dirty EXCEPT ![f] = (o # "ok")]
           /\ owed' = [owed EXCEPT ![f] = {}]

ReleaseLocked(f, force) ==
    IF dev[f] = "closed" \/ (~force /\ held[f] = {})
    THEN UNCHANGED <<fnState, slot, lost, reenumerated, dev, carried>>
    ELSE \E o \in Outcomes(f) :
           /\ WriteLocked(f, {}, o)
           /\ SetHeld(f, {})
           /\ dirty' = [dirty EXCEPT ![f] = (o # "ok")]
           /\ owed' = [owed EXCEPT ![f] = {}]

-----------------------------------------------------------------------------
(* The monitor: Run and refresh.                                           *)

\* The poll goes on to another pass over the functions, or ends.
GoTo(p) ==
    /\ pc' = p
    /\ IF p = "idle" THEN todo' = {} /\ seen' = "none" /\ allOpen' = TRUE
                     ELSE todo' = Fns /\ UNCHANGED <<seen, allOpen>>

\* refresh begins: is the gadget there, and what state is the controller in?
PollStart ==
    /\ proc = "up" /\ pc = "idle"
    /\ pc' = IF gadget THEN "sync" ELSE "gone"
    /\ todo' = Fns /\ seen' = host /\ allOpen' = TRUE
    /\ UNCHANGED <<env, slot, proc, present, dev, closed, fnState, call,
                   memory, reenumerated, reset, told, lost, carried>>

\* The gadget is gone: close the node.
PollGone(f) ==
    /\ pc = "gone" /\ IsFirst(f, todo) /\ call[f] = Idle
    /\ present' = [present EXCEPT ![f] = FALSE]
    /\ dev' = [dev EXCEPT ![f] = "closed"]
    /\ todo' = todo \ {f}
    /\ UNCHANGED <<env, slot, proc, closed, fnState, call, memory,
                   reenumerated, pc, seen, allOpen, reset, told, lost, carried>>

PollGoneEnd ==
    /\ pc = "gone" /\ todo = {}
    /\ usb' = "none" /\ observed' = TRUE /\ GoTo("idle")
    /\ UNCHANGED <<env, slot, proc, present, dev, closed, fnState, call,
                   cleanPending, known, reenumerated, reset, told, lost, carried>>

\* syncFunction, and the count of open and wanted nodes.  The node may not be
\* there yet or not be ours to open.
PollSync(f) ==
    /\ pc = "sync" /\ IsFirst(f, todo) /\ call[f] = Idle
    /\ present' = [present EXCEPT ![f] = gadget]
    /\ \E d \in IF ~gadget THEN {"closed"}
                ELSE IF dev[f] = "open" THEN {"open"} ELSE {"open", "closed"} :
        /\ dev' = [dev EXCEPT ![f] = d]
        /\ allOpen' = (allOpen /\ (gadget => d = "open"))
    /\ todo' = todo \ {f}
    /\ UNCHANGED <<env, slot, proc, closed, fnState, call, memory,
                   reenumerated, pc, seen, reset, told, lost, carried>>

\* Where a poll goes once the state has been followed.
AfterSettle(clean) ==
    IF seen # "configured" THEN "idle"
    ELSE IF clean /\ allOpen THEN "release" ELSE "retry"

\* carrierDowns can be read; and the evidence of a fresh enumeration, with
\* what this poll's reading adds.
Readable == HasNet /\ gadget
BugEvidenceOfWrites == reenumerated
Evidence == reenumerated \/ (Readable /\ known /\ moved)

\* carrierDowns and setUSBState.  A fresh enumeration is followed by
\* resetInputState, which takes the locks one by one.
PollSettle ==
    /\ pc = "sync" /\ todo = {}
    /\ LET first == ~observed
           fresh == seen = "configured" /\ Evidence
           enumerated == /\ seen = "configured" /\ ~first
                         /\ usb # seen \/ fresh
                         /\ usb = "suspended" => fresh
       IN  /\ known' = (known \/ Readable)
           /\ moved' = (moved /\ ~Readable)
           /\ reenumerated' = (Evidence /\ ~enumerated
                                     /\ ~(first /\ seen = "configured"))
           /\ usb' = seen /\ observed' = TRUE
           /\ GoTo(IF enumerated THEN "forget" ELSE AfterSettle(cleanPending))
    /\ UNCHANGED <<gadget, host, pullup, phone, slot, proc, present, dev,
                   closed, fnState, call, cleanPending, reset, told, lost,
                   carried>>

PollForget(f) ==
    /\ pc = "forget" /\ IsFirst(f, todo)
    /\ Forget(f, IF lost[f] = "restart" THEN "restart" ELSE "reset")
    /\ todo' = todo \ {f}
    /\ UNCHANGED <<env, slot, proc, present, dev, closed, call, memory,
                   reenumerated, pc, seen, allOpen, reset, told>>

PollForgetEnd ==
    /\ pc = "forget" /\ todo = {}
    /\ cleanPending' = FALSE
    /\ GoTo(AfterSettle(FALSE))
    /\ UNCHANGED <<env, slot, proc, present, dev, closed, fnState, call, usb,
                   observed, known, reenumerated, reset, told, lost, carried>>

\* releaseAll: what an earlier roadie left held.
PollRelease(f) ==
    /\ pc = "release" /\ IsFirst(f, todo) /\ call[f] = Idle
    /\ ReleaseLocked(f, TRUE)
    /\ todo' = todo \ {f}
    /\ UNCHANGED <<env, proc, present, closed, call, memory, pc, seen,
                   allOpen, reset, told>>

PollReleaseEnd ==
    /\ pc = "release" /\ todo = {}
    /\ cleanPending' = FALSE
    /\ GoTo("retry")
    /\ UNCHANGED <<env, slot, proc, present, dev, closed, fnState, call, usb,
                   observed, known, reenumerated, reset, told, lost, carried>>

\* retryDirty.
BugRetryNeverEnds(f) ==
    /\ pc = "retry" /\ IsFirst(f, todo) /\ call[f] = Idle
    /\ IF dirty[f] /\ dev[f] # "closed"
       THEN \E o \in Outcomes(f) :
              /\ WriteLocked(f, owed[f], o) /\ UNCHANGED <<dirty, owed>>
       ELSE UNCHANGED <<slot, lost, reenumerated, dev, dirty, owed>>
    /\ todo' = todo \ {f}
    /\ UNCHANGED <<env, proc, present, closed, held, call, memory, pc, seen,
                   allOpen, reset, told, carried>>

PollRetry(f) ==
    /\ pc = "retry" /\ IsFirst(f, todo) /\ call[f] = Idle
    /\ IF dirty[f] /\ dev[f] # "closed"
       THEN \E o \in Outcomes(f) :
              /\ WriteLocked(f, owed[f], o)
              /\ dirty' = [dirty EXCEPT ![f] = (o # "ok")]
              /\ owed' = IF o = "ok" THEN [owed EXCEPT ![f] = {}] ELSE owed
       ELSE UNCHANGED <<slot, lost, reenumerated, dev, dirty, owed>>
    /\ todo' = todo \ {f}
    /\ UNCHANGED <<env, proc, present, closed, held, call, memory, pc, seen,
                   allOpen, reset, told, carried>>

PollEnd ==
    /\ pc = "retry" /\ todo = {}
    /\ GoTo("idle")
    /\ UNCHANGED <<env, slot, proc, present, dev, closed, fnState, call,
                   memory, reenumerated, reset, told, lost, carried>>

Monitor ==
    \/ PollStart \/ PollGoneEnd \/ PollSettle \/ PollForgetEnd
    \/ PollReleaseEnd \/ PollEnd
    \/ \E f \in Fns : \/ PollGone(f) \/ PollSync(f) \/ PollForget(f)
                      \/ PollRelease(f) \/ PollRetry(f)

-----------------------------------------------------------------------------
(* ResetHID and ResetRelay, one request at a time.                         *)

adminUnchanged == <<gadget, host, moved, phone, slot, proc, present, closed,
                    call, memory, reenumerated, poll, told>>

\* "disconnect": the controller drops its pull-up.
ResetHIDDisconnect ==
    /\ "hid" \in AdminOps /\ proc # "down" /\ admin = "idle" /\ gadget
    /\ admin' = "gap" /\ pullup' = FALSE
    /\ IF host = "none"
       THEN UNCHANGED <<host, moved, phone, slot, lost, carried>>
       ELSE Unplug
    /\ UNCHANGED <<gadget, proc, present, closed, call, memory, reenumerated,
                   poll, told, dev, fnState, adminTodo>>

\* "connect", a second later; then resetInputState.
ResetHIDConnect ==
    /\ admin = "gap"
    /\ IF gadget THEN pullup' = TRUE /\ admin' = "forget" /\ adminTodo' = Fns
                 ELSE admin' = "idle" /\ UNCHANGED <<pullup, adminTodo>>
    /\ UNCHANGED <<adminUnchanged, dev, fnState, lost, carried>>

ResetForget(f) ==
    /\ admin \in {"forget", "relayForget"} /\ IsFirst(f, adminTodo)
    /\ Forget(f, "reset")
    /\ adminTodo' = adminTodo \ {f}
    /\ UNCHANGED <<adminUnchanged, pullup, dev, admin>>

ResetRelay ==
    /\ "relay" \in AdminOps /\ proc # "down" /\ admin = "idle"
    /\ admin' = "relayClose" /\ adminTodo' = Fns
    /\ UNCHANGED <<adminUnchanged, pullup, dev, fnState, lost, carried>>

ResetRelayClose(f) ==
    /\ admin = "relayClose" /\ IsFirst(f, adminTodo) /\ call[f] = Idle
    /\ dev' = [dev EXCEPT ![f] = "closed"]
    /\ adminTodo' = adminTodo \ {f}
    /\ UNCHANGED <<adminUnchanged, pullup, fnState, admin, lost, carried>>

ResetNext ==
    /\ admin \in {"forget", "relayClose", "relayForget"} /\ adminTodo = {}
    /\ IF admin = "relayClose" THEN admin' = "relayForget" /\ adminTodo' = Fns
                               ELSE admin' = "idle" /\ adminTodo' = {}
    /\ UNCHANGED <<adminUnchanged, pullup, dev, fnState, lost, carried>>

Admin ==
    \/ ResetHIDDisconnect \/ ResetHIDConnect \/ ResetRelay \/ ResetNext
    \/ \E f \in Fns : ResetForget(f) \/ ResetRelayClose(f)

-----------------------------------------------------------------------------
(* Shutdown: cancel the monitor, wait for its poll or two seconds, then    *)
(* release, close and refuse, function by function.                        *)

ShutdownBegin ==
    /\ "shutdown" \in Ends /\ proc = "up" /\ proc' = "stopping"
    /\ UNCHANGED <<env, slot, present, dev, closed, fnState, call, memory,
                   reenumerated, poll, reset, told, lost, carried>>

\* dev is what releaseLocked leaves, then closed.
ShutdownRelease(f) ==
    /\ proc = "stopping" /\ IsFirst(f, {g \in Fns : ~closed[g]})
    /\ call[f] = Idle
    /\ IF dev[f] = "closed" \/ held[f] = {}
       THEN UNCHANGED <<fnState, slot, lost, reenumerated, carried>>
       ELSE \E o \in Outcomes(f) :
              /\ slot' = IF o = "ok" THEN [slot EXCEPT ![f] = {}] ELSE slot
              /\ lost' = IF o = "ok" THEN [lost EXCEPT ![f] = "no"] ELSE lost
              /\ reenumerated' = (reenumerated \/ o = "noHost")
              /\ SetHeld(f, {})
              /\ dirty' = [dirty EXCEPT ![f] = (o # "ok")]
              /\ owed' = [owed EXCEPT ![f] = {}]
    /\ dev' = [dev EXCEPT ![f] = "closed"]
    /\ closed' = [closed EXCEPT ![f] = TRUE]
    /\ UNCHANGED <<env, proc, present, call, memory, poll, reset, told>>

Exit == proc = "stopping" /\ (\A f \in Fns : closed[f]) /\ Die

-----------------------------------------------------------------------------
Environment ==
    \/ Attach \/ Detach \/ Suspend \/ Resume \/ GadgetDown \/ GadgetUp
    \/ \E f \in Fns : Collect(f)

Lifecycle == Kill \/ Start \/ ShutdownBegin \/ Exit
             \/ \E f \in Fns : ShutdownRelease(f)

Next == Environment \/ Command \/ Monitor \/ Admin \/ Lifecycle

Spec == Init /\ [][Next]_vars

-----------------------------------------------------------------------------
(* Properties.                                                             *)

\* What roadie holds for a caller is something the caller was told is down:
\* a press that failed is never kept, whatever failed and was resent since
\* (sendLocked's comment: "a failed press is never delivered later").
HeldWasAsked == \A f \in Fns : held[f] \subseteq told[f]

\* What the monitor will resend is what roadie believes is held, through
\* every mixture of failures, resets and releases: a resend never undoes or
\* repeats a later call.
OwedIsHeld == \A f \in Fns : dirty[f] => owed[f] = held[f]

\* Anything the phone holds (or is about to) that roadie does not is about to
\* be put right: a call is under way or the state is owed.  The exceptions
\* are a held state forgotten by a reset since the phone enumerated, and what
\* an earlier roadie left.
PhoneAccounted ==
    \A f \in Fns :
        proc # "down" /\ ~(Wire(f) \subseteq held[f])
            => dirty[f] \/ call[f] # Idle \/ lost[f] # "no"

\* The strengthening that makes these inductive: the call in progress ends in
\* states its caller was told of, and a function with no phone behind it (or
\* an open node that has been replaced) has nothing queued or held.
GoodCall(f, c) ==
    /\ c \in Call
    /\ c.safe \subseteq told[f] \ c.del
    /\ c.final \subseteq (told[f] \ c.del) \cup c.add

CallsGood == \A f \in Fns : call[f] # Idle => GoodCall(f, call[f])

NobodyThere ==
    \A f \in Fns : host = "none" \/ dev[f] = "stale"
                        => slot[f] = None /\ phone[f] = {}

IInv == /\ TypeOK /\ CallsGood /\ NobodyThere
        /\ HeldWasAsked /\ OwedIsHeld /\ PhoneAccounted

\* What a killed roadie left held on the phone is released: until then the
\* release is pending or owed.  A relay reset forgets it by design.
LeftoverReleased ==
    \A f \in Fns :
        proc = "up" /\ lost[f] = "restart"
            => \/ cleanPending \/ dirty[f]
               \/ admin \in {"relayClose", "relayForget"}

\* A report written by the monitor or by Shutdown presses nothing that a
\* caller was not told is down.
ResendPressesNothing ==
    [][\A f \in Fns :
        (slot'[f] # slot[f] /\ slot'[f] # None /\ call[f] = Idle
            /\ told' = told /\ call' = call)
                => slot'[f] \subseteq told[f]]_vars

\* Once Shutdown has closed a function, nothing more reaches the phone from
\* this process (hidFunction.closed: "nothing is sent after").
NothingAfterClosed ==
    [][\A f \in Fns : closed[f] => slot'[f] \in {slot[f], None}]_vars

\* hidFunction.dirty: "The monitor resends state until it lands, so a press
\* is never left standing after its release failed."  With no restart and no
\* reset requested, what the phone holds and no caller means to hold is owed.
PressNotLeftStanding ==
    \A f \in Fns :
        call[f] = Idle /\ ~dirty[f] /\ proc = "up" => Wire(f) \subseteq told[f]

\* Shutdown: "releases everything held and closes the device nodes".  When
\* the phone would take a report as Shutdown closes a function, and nothing
\* was forgotten, the phone is left holding nothing.
ShutdownLetsGo ==
    [][\A f \in Fns :
        (closed'[f] /\ ~closed[f] /\ Outcomes(f) = {"ok"} /\ lost[f] = "no")
            => Wire(f)' = {}]_vars
=============================================================================
