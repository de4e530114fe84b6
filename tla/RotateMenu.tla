----------------------------- MODULE RotateMenu -----------------------------
(* Turning an iPhone through AssistiveTouch's menu (rotate.go): rotate looks *)
(* at the picture, which shows a click late, decides from the page it sees   *)
(* what the last click did, and notes which way the phone takes itself to be *)
(* held, by which the pointer is turned for all input. The phone is          *)
(* external. One turn at a time (TryLock), with viewers' input held back     *)
(* (hidCommand); other input is left out.                                    *)
EXTENDS Naturals

CONSTANTS MaxLooks,   \* looks of a walk (20)
          MaxLate     \* looks for which the picture may show the page before

\* The walk gives a click three looks more before it counts as not taken.
ASSUME RotateConstants == MaxLooks \in Nat /\ MaxLate \in 0..3

VARIABLES
    \* the phone
    menu,       \* the page open, "other" (unknown, or not in the middle) or NoPage
    phoneHeld,  \* which way it takes itself to be held: "portrait", "landscape"
    canTurn,    \* the app in front turns with it
    facing,     \* which way the screen faces
    shown, late, \* the page the picture shows for so many looks more
    \* roadie
    orientation, landscape,
    turnPc,     \* "idle", "look", "choose", "act", "wait", "closeLook", "closeAct", "end"
    walk,       \* rotate's variables
    closingMenu,\* closeMenu's
    \* history
    calm,       \* this turn: nothing has happened that the walk cannot tell from a
                \* click that missed, or from one that took
    knew        \* landscape was right when it began

phoneVars == <<menu, phoneHeld, canTurn, facing, shown, late>>
rotateVars == <<phoneVars, orientation, landscape, turnPc, walk, closingMenu, calm, knew>>

Ways == {"portrait", "landscape"}
Known == {"top", "device", "rotate"}
NoPage == ""
anyMenu == "any"
NoWalk == [to |-> "portrait", seen |-> NoPage, looks |-> 0, presses |-> 0, waits |-> 0,
           from |-> NoPage, expect |-> NoPage, flipped |-> FALSE, ok |-> FALSE]
NotClosing == [presses |-> 0, was |-> NoPage, tries |-> 0]

Pages == Known \cup {NoPage, "other"}

\* Roadie starts, or starts again in the middle of a turn, and takes the phone
\* to be upright: the phone may be held either way, with any menu open.
RotateInit ==
    /\ menu \in Pages /\ phoneHeld \in Ways /\ canTurn \in BOOLEAN
    /\ facing = IF canTurn THEN phoneHeld ELSE "portrait"
    /\ late \in 0..MaxLate /\ shown \in IF late = 0 THEN {NoPage} ELSE Pages
    /\ orientation = facing /\ landscape = FALSE
    /\ turnPc = "idle" /\ walk = NoWalk /\ closingMenu = NotClosing
    /\ calm = TRUE /\ knew = TRUE

-----------------------------------------------------------------------------
(* The phone                                                                 *)

pointerTurned == landscape /\ orientation = "portrait"

\* The phone reads the pointer the way it is held, on a screen that faces so
\* too or is upright.
PointerLands == pointerTurned = (phoneHeld = "landscape" /\ facing = "portrait")
                /\ (facing = "landscape" => phoneHeld = "landscape")

\* What the menu becomes is seen in the picture after some looks.
MenuBecomes(p) ==
    /\ menu' = p
    /\ IF late > 0 THEN UNCHANGED <<shown, late>>
       ELSE late' \in (IF p = menu THEN {0} ELSE 0..MaxLate) /\ shown' = menu

\* A button 5 opens the menu, there or elsewhere, closes it, or goes back.
MenuButton ==
    /\ \E p \in {NoPage, "top", "other"} : MenuBecomes(p)
    /\ UNCHANGED <<phoneHeld, canTurn, facing>>

\* A click on an item of the page seen, which may not take. One that is not on
\* that page, or that lands elsewhere, closes the menu or does nothing.
ClickItem(seen, next) ==
    IF menu = seen /\ PointerLands
    THEN \/ /\ next \in Known /\ \E p \in {next, menu} : MenuBecomes(p)
            /\ UNCHANGED <<phoneHeld, canTurn, facing>>
         \/ /\ next \in Ways /\ phoneHeld' \in {next, phoneHeld}
            /\ UNCHANGED <<menu, shown, late, canTurn, facing>>
    ELSE /\ \E p \in {NoPage, menu} : MenuBecomes(p)
         /\ UNCHANGED <<phoneHeld, canTurn, facing>>

AppTurns ==
    /\ canTurn /\ facing # phoneHeld
    /\ facing' = phoneHeld
    /\ UNCHANGED <<menu, phoneHeld, canTurn, shown, late, orientation, landscape, turnPc, walk,
                   closingMenu, calm, knew>>

\* Between turns another app comes to the front.
AppSwitches ==
    /\ turnPc = "idle"
    /\ canTurn' = ~canTurn
    /\ facing' = IF canTurn THEN "portrait" ELSE phoneHeld
    /\ orientation' = facing'
    /\ UNCHANGED <<menu, phoneHeld, shown, late, landscape, turnPc, walk, closingMenu,
                   calm, knew>>

\* The menu closes itself when left alone.
MenuClosesItself ==
    /\ menu # NoPage
    /\ MenuBecomes(NoPage)
    /\ calm' = FALSE
    /\ UNCHANGED <<phoneHeld, canTurn, facing, orientation, landscape, turnPc, walk,
                   closingMenu, knew>>

OrientationSeen ==
    /\ orientation # facing
    /\ orientation' = facing
    /\ UNCHANGED <<phoneVars, landscape, turnPc, walk, closingMenu, calm, knew>>

-----------------------------------------------------------------------------
(* rotate                                                                    *)

Still == orientation = facing /\ (canTurn => facing = phoneHeld)

\* A turn begins with the screen, and what roadie takes it for, at rest.
BeginTurn ==
    /\ turnPc = "idle" /\ Still
    /\ \E way \in Ways : walk' = [NoWalk EXCEPT !.to = way]
    /\ turnPc' = "look"
    /\ calm' = (late = 0 /\ menu # "rotate")
    /\ knew' = (landscape = (phoneHeld = "landscape"))
    /\ UNCHANGED <<phoneVars, orientation, landscape, closingMenu>>

\* What a look sees, and how far the picture lags behind then.
PageSeen == LET p == IF late > 0 THEN shown ELSE menu
            IN  IF p = "other" THEN NoPage ELSE p
Look ==
    /\ late' = IF late > 0 THEN late - 1 ELSE 0
    /\ shown' = IF late > 1 THEN shown ELSE NoPage
    /\ UNCHANGED <<menu, phoneHeld, canTurn, facing>>

\* A look sees no page when the pointer could not be parked, or when there is
\* no picture.
BlindLook == Look \/ UNCHANGED phoneVars

lookAtMenu ==
    /\ turnPc = "look" /\ walk.looks < MaxLooks
    /\ \/ /\ Look /\ walk' = [walk EXCEPT !.seen = PageSeen, !.looks = @ + 1]
          /\ UNCHANGED calm
       \/ /\ BlindLook /\ walk' = [walk EXCEPT !.seen = NoPage, !.looks = @ + 1]
          /\ calm' = FALSE
    /\ turnPc' = "choose"
    /\ UNCHANGED <<orientation, landscape, closingMenu, knew>>

\* giveUp and turned close the menu before they return.
Close(ok) ==
    /\ turnPc' = "closeLook"
    /\ closingMenu' = NotClosing
    /\ walk' = [NoWalk EXCEPT !.ok = ok]

LooksOver ==
    /\ turnPc = "look" /\ walk.looks = MaxLooks
    /\ Close(FALSE)
    /\ UNCHANGED <<phoneVars, orientation, landscape, calm, knew>>

Expected == \/ walk.expect \in {NoPage, walk.seen}
            \/ walk.expect = anyMenu /\ walk.seen # NoPage

\* The walk goes on from the page seen: where it clicks, or button 5.
Proceed(flipped) ==
    IF walk.seen = NoPage /\ walk.presses = 3 THEN Close(FALSE)
    ELSE /\ turnPc' = "act"
         /\ walk' = [walk EXCEPT !.waits = 0, !.from = walk.seen, !.flipped = flipped,
                         !.presses = IF walk.seen = NoPage THEN @ + 1 ELSE @,
                         !.expect = CASE walk.seen = "top" -> "device"
                                      [] walk.seen = "device" -> "rotate"
                                      [] walk.seen = "rotate" -> NoPage
                                      [] OTHER -> anyMenu]
         /\ UNCHANGED closingMenu

\* Mutant: one look too few before a page counts as the click's.
BugChooseImpatient ==
    /\ turnPc = "choose"
    /\ IF Expected THEN Proceed(walk.flipped) /\ UNCHANGED landscape
       ELSE IF walk.seen = walk.from /\ walk.waits < 2
       THEN /\ walk' = [walk EXCEPT !.waits = @ + 1]
            /\ turnPc' = "look" /\ UNCHANGED <<closingMenu, landscape>>
       ELSE IF walk.seen = walk.from
       THEN Proceed(walk.flipped) /\ UNCHANGED landscape
       ELSE IF walk.flipped \/ orientation # "portrait"
       THEN Close(FALSE) /\ landscape' = (landscape # walk.flipped)
       ELSE Proceed(TRUE) /\ landscape' = ~landscape
    /\ UNCHANGED <<phoneVars, orientation, calm, knew>>

\* What the page seen says of the last click.
Choose ==
    /\ turnPc = "choose"
    /\ IF Expected THEN Proceed(walk.flipped) /\ UNCHANGED landscape
       ELSE IF walk.seen = walk.from /\ walk.waits < 3
       THEN /\ walk' = [walk EXCEPT !.waits = @ + 1]
            /\ turnPc' = "look" /\ UNCHANGED <<closingMenu, landscape>>
       ELSE IF walk.seen = walk.from
       THEN Proceed(walk.flipped) /\ UNCHANGED landscape
       ELSE IF walk.flipped \/ orientation # "portrait"
       THEN Close(FALSE) /\ landscape' = (landscape # walk.flipped)
       ELSE Proceed(TRUE) /\ landscape' = ~landscape
    /\ UNCHANGED <<phoneVars, orientation, calm, knew>>

NextItem == CASE walk.seen = "top" -> "device"
              [] walk.seen = "device" -> "rotate"
              [] OTHER -> walk.to

\* The click, or button 5. On the page of the turn itself what follows is
\* turned's: a turn upright counts at once, and whether the click took is not
\* looked at.
Act ==
    /\ turnPc = "act"
    /\ IF walk.seen = NoPage THEN MenuButton ELSE ClickItem(walk.seen, NextItem)
    /\ turnPc' = IF walk.seen = "rotate" THEN "wait" ELSE "look"
    /\ landscape' = (landscape /\ ~(walk.seen = "rotate" /\ walk.to = "portrait"))
    /\ calm' = (calm /\ (walk.seen = "rotate" => phoneHeld' = walk.to))
    /\ UNCHANGED <<orientation, walk, closingMenu, knew>>

\* A HID call that fails ends the turn with the menu as it is; the phone may
\* have it all the same.
ActFails ==
    /\ turnPc \in {"act", "closeAct"}
    /\ \/ UNCHANGED <<phoneVars, calm>>
       \/ /\ calm' = FALSE
          /\ IF turnPc = "closeAct" \/ walk.seen = NoPage THEN MenuButton
             ELSE ClickItem(walk.seen, NextItem)
    /\ turnPc' = "end"
    /\ UNCHANGED <<orientation, landscape, walk, closingMenu, knew>>

\* Two seconds are enough for an app that turns, and to see it.
waitOrientation ==
    /\ turnPc = "wait"
    /\ \/ orientation = walk.to
       \/ Still
    /\ landscape' = (walk.to = "landscape")
    /\ Close(TRUE)
    /\ UNCHANGED <<phoneVars, orientation, calm, knew>>

-----------------------------------------------------------------------------
(* closeMenu                                                                 *)

\* After a press the picture gets three looks to show another page; a blind
\* look takes the menu for closed.
CloseLook ==
    /\ turnPc = "closeLook"
    /\ \E seen \in {PageSeen, NoPage} :
          /\ Look \/ (seen = NoPage /\ BlindLook)
          /\ walk' = [walk EXCEPT !.seen = seen]
          /\ IF closingMenu.tries > 1 /\ seen = closingMenu.was
             THEN UNCHANGED turnPc /\ closingMenu' = [closingMenu EXCEPT !.tries = @ - 1]
             ELSE /\ turnPc' = IF seen = NoPage \/ closingMenu.presses = 3
                               THEN "end" ELSE "closeAct"
                  /\ UNCHANGED closingMenu
    /\ UNCHANGED <<orientation, landscape, calm, knew>>

CloseAct ==
    /\ turnPc = "closeAct"
    /\ MenuButton
    /\ closingMenu' = [presses |-> closingMenu.presses + 1, was |-> walk.seen, tries |-> 3]
    /\ turnPc' = "closeLook"
    /\ UNCHANGED <<orientation, landscape, walk, calm, knew>>

EndTurn ==
    /\ turnPc = "end"
    /\ turnPc' = "idle" /\ walk' = NoWalk /\ closingMenu' = NotClosing
    /\ calm' = TRUE /\ knew' = TRUE
    /\ UNCHANGED <<phoneVars, orientation, landscape>>

RotateNext ==
    \/ AppTurns \/ AppSwitches \/ MenuClosesItself \/ OrientationSeen
    \/ BeginTurn \/ lookAtMenu \/ LooksOver \/ Choose \/ Act \/ ActFails \/ waitOrientation
    \/ CloseLook \/ CloseAct \/ EndTurn

RotateSpec == RotateInit /\ [][RotateNext]_rotateVars

-----------------------------------------------------------------------------
RotateTypeOK ==
    /\ {menu, shown} \subseteq Pages /\ late \in 0..MaxLate
    /\ {phoneHeld, facing, orientation} \subseteq Ways
    /\ {canTurn, landscape, calm, knew} \subseteq BOOLEAN
    /\ turnPc \in {"idle", "look", "choose", "act", "wait", "closeLook", "closeAct", "end"}
    /\ walk.looks \in 0..MaxLooks /\ walk.presses \in 0..3 /\ walk.waits \in 0..3
    /\ closingMenu.presses \in 0..3 /\ closingMenu.tries \in 0..3

\* A turn that is through knows which way the phone takes itself to be held,
\* or knows it still if it did before: from pictures up to three looks late,
\* clicks on the way to the Rotate page that did not take, a button 5 that
\* opened the menu elsewhere or closed it, looks that saw nothing while the
\* menu was being closed, and a phone that was not held the way roadie took it
\* to be. Set aside is what the walk cannot tell from a click that missed
\* (rotate.go:186-201): a menu that closed itself, one left on its Rotate page
\* from before, a look that saw nothing (rotate.go:322-324, 340) and a failing
\* click that was delivered; and a click on the turn itself that did not take,
\* which is taken to have turned the phone (rotate.go:205-208, 280).
TurnKnowsPhone ==
    turnPc = "end" /\ calm /\ (walk.ok \/ knew) => landscape = (phoneHeld = "landscape")
=============================================================================
