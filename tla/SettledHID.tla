---------------------------- MODULE SettledHID ----------------------------
(* The pacing of pointer input (hid_settle.go, hid_glide.go). Every input    *)
(* path calls the same settledHID from its own goroutine; a call is a        *)
(* sequence of steps, and mu is held inside a step only. Times are ages: how *)
(* long ago the last move and the last release were marked.                  *)
EXTENDS Naturals, Sequences

CONSTANTS Callers,        \* request goroutines that send pointer input
          Watched,        \* the one the history is kept of
          Calls,          \* the calls they make
          PressSettle,    \* ticks between a move and a press
          ReleaseSettle,  \* ticks between a release and a move
          GlideRest,      \* ticks after which a move starts from rest
          GlideSteps      \* points of a glide

ASSUME SettleConstants ==
    /\ Watched \in Callers /\ "free" \notin Callers
    /\ Calls \subseteq {"move", "press", "release", "click", "scroll", "down", "up"}
    /\ PressSettle \in Nat \ {0} /\ ReleaseSettle \in Nat \ {0}
    /\ GlideRest \in Nat \ {0} /\ GlideSteps \in Nat \ {0, 1}

VARIABLES
    moved, released,    \* ages, no further than anything asks: 0..Oldest
    placed, held, glide,
    touchMu,            \* the caller that has it, or "free"
    fingerDown,
    todo,               \* per caller: the steps its call has left
    nap,                \* per caller: ticks it still sleeps
    \* history
    ownMove, ownRelease, \* ages of what Watched itself last sent
    touching,           \* a press of a touch has reached the target, no release of one since
    doubtful            \* the last press or release of a touch has failed

settleVars == <<moved, released, placed, held, glide, touchMu, fingerDown, todo, nap,
                ownMove, ownRelease, touching, doubtful>>

Oldest == LET m == IF PressSettle > ReleaseSettle THEN PressSettle ELSE ReleaseSettle
          IN  IF m > GlideRest THEN m ELSE GlideRest
Older(age) == IF age < Oldest THEN age + 1 ELSE Oldest

SettleInit ==
    /\ moved = Oldest /\ released = Oldest
    /\ placed = FALSE /\ held = FALSE /\ glide = TRUE
    /\ touchMu = "free" /\ fingerDown = FALSE
    /\ todo = [c \in Callers |-> <<>>] /\ nap = [c \in Callers |-> 0]
    /\ ownMove = Oldest /\ ownRelease = Oldest
    /\ touching = FALSE /\ doubtful = FALSE

-----------------------------------------------------------------------------
(* The calls, as the steps they take                                         *)

moveTo(mayGlide) == <<"waitReleased", IF mayGlide THEN "route" ELSE "move", "place", "markMoved">>
MouseMove    == moveTo(TRUE)
MousePress   == <<"waitMoved", "press", "hold">>
MouseRelease == <<"release", "unhold", "markReleased">>
\* Mutant: a click does not wait for the last move.
BugMouseClickAtOnce == <<"click", "markReleased">>

MouseClick   == <<"waitMoved", "click", "markReleased">>
ScrollAt     == moveTo(FALSE) \o <<"scroll">>
\* Touch, delivered as the pointer: what follows the lock depends on fingerDown.
TouchDown    == <<"lock">> \o moveTo(FALSE) \o <<"landed">>
TouchUp      == <<"lock", "lift">>

Steps == [move |-> MouseMove, press |-> MousePress, release |-> MouseRelease,
          click |-> MouseClick, scroll |-> ScrollAt, down |-> TouchDown, up |-> TouchUp]

-----------------------------------------------------------------------------
(* The steps                                                                 *)

Next1(c) == Head(todo[c])
Ready(c, step) == todo[c] # <<>> /\ nap[c] = 0 /\ Head(todo[c]) = step
Rest(c) == Tail(todo[c])
Then(c, steps) == todo' = [todo EXCEPT ![c] = steps]
Touching(c) == touchMu = c

ageVars == <<moved, released>>
ownVars == <<ownMove, ownRelease>>
phoneFinger == <<touching, doubtful>>
fingerVars == <<touchMu, fingerDown, phoneFinger>>

BeginCall(c) ==
    /\ todo[c] = <<>>
    /\ \E call \in Calls : Then(c, Steps[call])
    /\ UNCHANGED <<ageVars, placed, held, glide, fingerVars, nap, ownVars>>

\* wait looks how old the event is under mu, and sleeps without it.
WaitFor(c, step, age, settle) ==
    /\ Ready(c, step)
    /\ nap' = [nap EXCEPT ![c] = IF age < settle THEN settle - age ELSE 0]
    /\ Then(c, Rest(c))
    /\ UNCHANGED <<ageVars, placed, held, glide, fingerVars, ownVars>>

Wait(c) == \/ WaitFor(c, "waitMoved", moved, PressSettle)
           \/ WaitFor(c, "waitReleased", released, ReleaseSettle)

\* From rest, far enough and with no button held, the pointer glides.
Route(c) ==
    /\ Ready(c, "route")
    /\ \E far \in BOOLEAN :
         LET points == IF far /\ glide /\ placed /\ ~held /\ moved >= GlideRest
                       THEN GlideSteps ELSE 1
         IN  Then(c, [i \in 1..points |-> "move"] \o Rest(c))
    /\ UNCHANGED <<ageVars, placed, held, glide, fingerVars, nap, ownVars>>

\* Backend calls may fail. A move that fails ends the path; the position is
\* then unknown, and the call marks the move and returns the error.
Move(c) ==
    /\ Ready(c, "move")
    /\ \/ /\ Then(c, Rest(c))
          /\ nap' = [nap EXCEPT ![c] = IF Head(Rest(c)) = "move" THEN 1 ELSE 0]
       \/ /\ Then(c, <<"misplace", "markMoved">> \o
                        IF Touching(c) THEN <<"unlock">> ELSE <<>>)
          /\ UNCHANGED nap
    /\ ownMove' = IF c = Watched THEN 0 ELSE ownMove
    /\ UNCHANGED <<ageVars, placed, held, glide, fingerVars, ownRelease>>

Place(c) ==
    /\ Ready(c, "place") \/ Ready(c, "misplace")
    /\ placed' = (Next1(c) = "place")
    /\ Then(c, Rest(c))
    /\ UNCHANGED <<ageVars, held, glide, fingerVars, nap, ownVars>>

MarkMoved(c) ==
    /\ Ready(c, "markMoved")
    /\ moved' = 0
    /\ Then(c, Rest(c))
    /\ UNCHANGED <<released, placed, held, glide, fingerVars, nap, ownVars>>

\* What a touch's press or release has come to: one that fails may have
\* reached the target, or not.
TouchSent(c, pressed, ok) ==
    IF ~Touching(c) THEN UNCHANGED phoneFinger
    ELSE /\ touching' \in IF ok THEN {pressed} ELSE {pressed, touching}
         /\ doubtful' = ~ok

\* Mutant: a finger is down whether its press failed or not.
BugPressDownAnyway(c) ==
    /\ Ready(c, "press")
    /\ \E ok \in BOOLEAN :
          /\ Then(c, IF Touching(c) THEN <<"hold", "finger", "unlock">> ELSE Rest(c))
          /\ TouchSent(c, TRUE, ok)
    /\ UNCHANGED <<ageVars, placed, held, glide, touchMu, fingerDown, nap, ownVars>>

\* A press that fails is held all the same; a finger is down only if it did not.
Press(c) ==
    /\ Ready(c, "press")
    /\ \E ok \in BOOLEAN :
          /\ Then(c, IF Touching(c) THEN <<"hold">> \o
                        (IF ok THEN <<"finger", "unlock">> ELSE <<"unlock">>)
                     ELSE Rest(c))
          /\ TouchSent(c, TRUE, ok)
    /\ UNCHANGED <<ageVars, placed, held, glide, touchMu, fingerDown, nap, ownVars>>

Hold(c) ==
    /\ Ready(c, "hold") \/ Ready(c, "unhold")
    /\ held' = (Next1(c) = "hold")
    /\ Then(c, Rest(c))
    /\ UNCHANGED <<ageVars, placed, glide, fingerVars, nap, ownVars>>

\* A release or a click, its error returned only once the rest is done.
Release(c) ==
    /\ Ready(c, "release") \/ Ready(c, "click")
    /\ \E ok \in BOOLEAN : TouchSent(c, FALSE, ok)
    /\ ownRelease' = IF c = Watched THEN 0 ELSE ownRelease
    /\ Then(c, Rest(c))
    /\ UNCHANGED <<ageVars, placed, held, glide, touchMu, fingerDown, nap, ownMove>>

MarkReleased(c) ==
    /\ Ready(c, "markReleased")
    /\ released' = 0
    /\ Then(c, Rest(c))
    /\ UNCHANGED <<moved, placed, held, glide, fingerVars, nap, ownVars>>

\* The wheel turned, the pointer goes back to where it was, if that was known.
Scroll(c) ==
    /\ Ready(c, "scroll")
    /\ Then(c, <<>>) \/ Then(c, moveTo(FALSE))
    /\ UNCHANGED <<ageVars, placed, held, glide, fingerVars, nap, ownVars>>

Lock(c) ==
    /\ Ready(c, "lock") /\ touchMu = "free"
    /\ touchMu' = c
    /\ Then(c, Rest(c))
    /\ UNCHANGED <<ageVars, placed, held, glide, fingerDown, phoneFinger, nap, ownVars>>

\* The finger is there: a new one presses, one that was down has dragged.
Landed(c) ==
    /\ Ready(c, "landed")
    /\ Then(c, IF fingerDown THEN <<"unlock">> ELSE MousePress)
    /\ UNCHANGED <<ageVars, placed, held, glide, fingerVars, nap, ownVars>>

Finger(c) ==
    /\ Ready(c, "finger")
    /\ fingerDown' = TRUE
    /\ Then(c, Rest(c))
    /\ UNCHANGED <<ageVars, placed, held, glide, touchMu, phoneFinger, nap, ownVars>>

Lift(c) ==
    /\ Ready(c, "lift")
    /\ fingerDown' = FALSE
    /\ Then(c, IF fingerDown THEN MouseRelease \o <<"unlock">> ELSE <<"unlock">>)
    /\ UNCHANGED <<ageVars, placed, held, glide, touchMu, phoneFinger, nap, ownVars>>

Unlock(c) ==
    /\ Ready(c, "unlock")
    /\ touchMu' = "free"
    /\ Then(c, Rest(c))
    /\ UNCHANGED <<ageVars, placed, held, glide, fingerDown, phoneFinger, nap, ownVars>>

SetGlide ==
    /\ glide' = ~glide
    /\ UNCHANGED <<ageVars, placed, held, fingerVars, todo, nap, ownVars>>

Tick ==
    /\ moved' = Older(moved) /\ released' = Older(released)
    /\ nap' = [c \in Callers |-> IF nap[c] > 0 THEN nap[c] - 1 ELSE 0]
    /\ ownMove' = Older(ownMove)
    /\ ownRelease' = Older(ownRelease)
    /\ UNCHANGED <<placed, held, glide, fingerVars, todo>>

SettleStep(c) ==
    \/ BeginCall(c) \/ Wait(c) \/ Route(c) \/ Move(c) \/ Place(c) \/ MarkMoved(c)
    \/ Press(c) \/ Hold(c) \/ Release(c) \/ MarkReleased(c) \/ Scroll(c)
    \/ Lock(c) \/ Landed(c) \/ Finger(c) \/ Lift(c) \/ Unlock(c)

SettleNext == (\E c \in Callers : SettleStep(c)) \/ SetGlide \/ Tick

SettleSpec == SettleInit /\ [][SettleNext]_settleVars

-----------------------------------------------------------------------------
StepNames == {"waitReleased", "waitMoved", "route", "move", "place", "misplace", "markMoved",
              "press", "hold", "finger", "release", "click", "unhold", "markReleased",
              "scroll", "lock", "landed", "lift", "unlock"}

SettleTypeOK ==
    /\ {moved, released, ownMove, ownRelease} \subseteq 0..Oldest
    /\ placed \in BOOLEAN /\ held \in BOOLEAN /\ glide \in BOOLEAN
    /\ fingerDown \in BOOLEAN /\ touching \in BOOLEAN /\ doubtful \in BOOLEAN
    /\ touchMu \in Callers \cup {"free"}
    /\ \A c \in Callers : \A i \in 1..Len(todo[c]) : todo[c][i] \in StepNames
    /\ nap \in [Callers -> 0..Oldest]

\* What one caller sends is settled, whatever the others send meanwhile: its
\* press or click reaches the phone PressSettle or more after its own last
\* move, and its move ReleaseSettle or more after its own last release
\* (hid_settle.go:10-22; wait looks at times any caller may have renewed).
OwnGesturesSettle ==
    nap[Watched] = 0 /\ todo[Watched] # <<>> =>
        /\ Next1(Watched) \in {"press", "click"} => ownMove >= PressSettle
        /\ Next1(Watched) = "move" => ownRelease >= ReleaseSettle

\* While no touch is being translated, fingerDown says whether a touch has
\* pressed the button and not let it go: a finger noted down is down, whatever
\* failed, and one that is down is noted so, and not pressed a second time,
\* unless the last press or release of a touch failed, of which nobody can
\* tell whether it reached the target. The next finger that lands puts that
\* right; a lift does not, being sent for a finger noted down only
\* (hid_settle.go:278-295). Only touches are counted: the button is also a
\* caller's who presses or clicks it meanwhile.
FingerTracksTouch ==
    /\ touchMu = "free" =>
          /\ fingerDown => touching
          /\ touching => fingerDown \/ doubtful
    /\ \A c \in Callers : Ready(c, "press") /\ Touching(c) /\ touching => doubtful
=============================================================================
