----------------------------- MODULE InputProofs ----------------------------
(* Proofs about the components that turn viewers' and clients' input into    *)
(* reports: SettledHID, for any callers, delays and number of glide points;  *)
(* RotateMenu, for any number of looks at the picture; BiDiSession, for any  *)
(* connections, sessions and number of inputs a session holds.               *)
EXTENDS SettledHID, RotateMenu, BiDiSession, SequenceTheorems, FiniteSetTheorems,
        TLAPS

-----------------------------------------------------------------------------
(* SettledHID: whose gestures settle, and the finger.                        *)

(***************************************************************************)
(* The settled HID.                                                        *)
(***************************************************************************)

\* What a call still has to do after a step, at the most.
Later(s) ==
    CASE s = "lock" -> {"waitReleased", "move", "place", "markMoved", "landed", "lift"}
      [] s = "waitReleased" -> {"route", "move", "place", "markMoved", "scroll", "landed"}
      [] s \in {"route", "move"} -> {"move", "place", "markMoved", "scroll", "landed"}
      [] s = "place" -> {"markMoved", "scroll", "landed"}
      [] s = "misplace" -> {"markMoved", "unlock"}
      [] s = "markMoved" -> {"scroll", "landed", "unlock"}
      [] s = "waitMoved" -> {"press", "click", "hold", "markReleased"}
      [] s = "press" -> {"hold"}
      [] s = "hold" -> {"finger", "unlock"}
      [] s = "finger" -> {"unlock"}
      [] s = "click" -> {"markReleased"}
      [] s = "release" -> {"unhold", "markReleased", "unlock"}
      [] s = "unhold" -> {"markReleased", "unlock"}
      [] s = "markReleased" -> {"unlock"}
      [] OTHER -> {}

Has(q, s) == \E i \in 1..Len(q) : q[i] = s

\* No step comes before one it waits for; a touch that has the lock waits, or
\* lifts, before it moves.
Plan(q) ==
    /\ q \in Seq(StepNames)
    /\ \A i, j \in 1..Len(q) : i < j => q[j] \in Later(q[i])
    /\ Len(q) > 1 /\ q[1] = "lock" => q[2] \in {"waitReleased", "lift"}
    /\ Has(q, "route") \/ Has(q, "move") => Has(q, "markMoved")
    /\ Has(q, "release") \/ Has(q, "click") => Has(q, "markReleased")

LEMMA LaterIs ==
    /\ Later("lock") = {"waitReleased", "move", "place", "markMoved", "landed", "lift"}
    /\ Later("waitReleased") = {"route", "move", "place", "markMoved", "scroll", "landed"}
    /\ Later("route") = {"move", "place", "markMoved", "scroll", "landed"}
    /\ Later("move") = {"move", "place", "markMoved", "scroll", "landed"}
    /\ Later("place") = {"markMoved", "scroll", "landed"}
    /\ Later("misplace") = {"markMoved", "unlock"}
    /\ Later("markMoved") = {"scroll", "landed", "unlock"}
    /\ Later("waitMoved") = {"press", "click", "hold", "markReleased"}
    /\ Later("press") = {"hold"} /\ Later("hold") = {"finger", "unlock"}
    /\ Later("finger") = {"unlock"} /\ Later("click") = {"markReleased"}
    /\ Later("release") = {"unhold", "markReleased", "unlock"}
    /\ Later("unhold") = {"markReleased", "unlock"} /\ Later("markReleased") = {"unlock"}
    /\ Later("landed") = {} /\ Later("lift") = {} /\ Later("unlock") = {} /\ Later("scroll") = {}
  BY DEF Later

LEMMA PlanRest ==
    ASSUME NEW q, Plan(q), q # <<>>
    PROVE  /\ Head(q) = q[1] /\ q[1] \in StepNames
           /\ Plan(Tail(q)) /\ Len(Tail(q)) = Len(q) - 1
           /\ \A i \in 1..Len(Tail(q)) : Tail(q)[i] = q[i + 1]
           /\ \A s : Has(Tail(q), s) => s \in Later(q[1])
           /\ \A s : Has(q, s) <=> s = q[1] \/ Has(Tail(q), s)
<1>1. q \in Seq(StepNames) /\ Len(q) \in Nat \ {0}
  BY EmptySeq DEF Plan
<1>2. /\ Head(q) = q[1] /\ Tail(q) \in Seq(StepNames) /\ Len(Tail(q)) = Len(q) - 1
      /\ \A i \in 1..Len(Tail(q)) : Tail(q)[i] = q[i + 1]
  BY <1>1, HeadTailProperties
<1>3. q[1] \in StepNames
  BY <1>1, ElementOfSeq
<1>4. \A i, j \in 1..Len(Tail(q)) : i < j => Tail(q)[j] \in Later(Tail(q)[i])
  BY <1>1, <1>2 DEF Plan
<1>5. Len(Tail(q)) > 1 => Tail(q)[1] # "lock"
  <2>1. SUFFICES ASSUME Len(Tail(q)) > 1, Tail(q)[1] = "lock" PROVE FALSE
    OBVIOUS
  <2>2. q[2] = "lock" /\ q[2] \in Later(q[1])
    BY <1>1, <1>2, <2>1 DEF Plan
  <2>3. QED
    BY <2>2, <1>3 DEF Later
<1>6. \A s : Has(Tail(q), s) => s \in Later(q[1])
  BY <1>1, <1>2 DEF Plan, Has
<1>7. \A s : Has(q, s) <=> s = q[1] \/ Has(Tail(q), s)
  <2>1. ASSUME NEW i \in 1..Len(q) PROVE i = 1 \/ (i - 1 \in 1..Len(Tail(q)) /\ q[i] = Tail(q)[i - 1])
    BY <1>1, <1>2
  <2>2. 1 \in 1..Len(q) /\ \A i \in 1..Len(Tail(q)) : i + 1 \in 1..Len(q)
    BY <1>1, <1>2
  <2>3. QED
    BY <1>1, <1>2, <2>1, <2>2 DEF Has
<1>8. \A s : Has(q, s) /\ s # q[1] => Has(Tail(q), s)
  BY <1>7
<1>9. /\ Has(Tail(q), "route") \/ Has(Tail(q), "move") => Has(Tail(q), "markMoved")
      /\ Has(Tail(q), "release") \/ Has(Tail(q), "click") => Has(Tail(q), "markReleased")
  <2>1. /\ q[1] = "markMoved" => ~Has(Tail(q), "route") /\ ~Has(Tail(q), "move")
        /\ q[1] = "markReleased" => ~Has(Tail(q), "release") /\ ~Has(Tail(q), "click")
    BY <1>6 DEF Later
  <2>2. QED
    BY <1>7, <2>1 DEF Plan
<1>10. QED
  BY <1>2, <1>3, <1>4, <1>5, <1>6, <1>7, <1>9 DEF Plan

\* A glide is moves like the one it replaces.
LEMMA PlanGlides ==
    ASSUME NEW q, Plan(q), NEW n \in Nat \ {0}, Has(q, "markMoved"),
           \A s : Has(q, s) => s \in Later("move")
    PROVE  LET new == [i \in 1..n |-> "move"] \o q
           IN  /\ Plan(new) /\ new # <<>> /\ new[1] = "move"
               /\ \A s : Has(new, s) => s = "move" \/ Has(q, s)
               /\ \A s : Has(q, s) => Has(new, s)
<1> DEFINE moves == [i \in 1..n |-> "move"]
           new == moves \o q
<1>1. moves \in Seq(StepNames) /\ Len(moves) = n /\ q \in Seq(StepNames)
  <2>1. \A i \in 1..n : moves[i] \in StepNames
    BY DEF StepNames
  <2>2. QED
    BY <2>1, IsASeq, LenProperties DEF Plan
<1>2. /\ new \in Seq(StepNames) /\ Len(new) = n + Len(q) /\ Len(q) \in Nat
      /\ \A i \in 1..(n + Len(q)) : new[i] = IF i <= n THEN moves[i] ELSE q[i - n]
  BY <1>1, ConcatProperties, LenProperties
<1>3. /\ \A i \in 1..n : new[i] = "move"
      /\ \A i \in 1..Len(new) : i > n => i - n \in 1..Len(q) /\ new[i] = q[i - n]
  BY <1>2
<1>4. \A i \in 1..Len(q) : i + n \in 1..Len(new) /\ new[i + n] = q[i]
  BY <1>2
<1> HIDE DEF new
<1>5. \A i \in 1..Len(q) : q[i] \in Later("move")
  BY DEF Has
<1>6. ASSUME NEW i \in 1..Len(new), NEW j \in 1..Len(new), i < j PROVE new[j] \in Later(new[i])
  <2>1. CASE j <= n
    <3>1. new[i] = "move" /\ new[j] = "move"
      BY <1>2, <1>3, <1>6, <2>1
    <3>2. QED
      BY <3>1 DEF Later
  <2>2. CASE j > n /\ i <= n
    <3>1. new[i] = "move" /\ j - n \in 1..Len(q) /\ new[j] = q[j - n]
      BY <1>2, <1>3, <1>6, <2>2
    <3>2. QED
      BY <3>1, <1>5
  <2>3. CASE i > n
    <3>1. /\ j - n \in 1..Len(q) /\ new[j] = q[j - n] /\ i - n \in 1..Len(q) /\ new[i] = q[i - n]
          /\ i - n < j - n
      BY <1>2, <1>3, <1>6, <2>3
    <3>2. QED
      BY <3>1 DEF Plan
  <2>4. QED
    BY <1>2, <2>1, <2>2, <2>3
<1>7. new[1] = "move" /\ new # <<>>
  BY <1>2, <1>3, EmptySeq
<1>8. ASSUME NEW s, Has(new, s) PROVE s = "move" \/ Has(q, s)
  <2>1. PICK i \in 1..Len(new) : new[i] = s
    BY <1>8 DEF Has
  <2>2. i \in 1..n \/ i > n
    BY <1>2
  <2>3. QED
    BY <2>1, <2>2, <1>3 DEF Has
<1>9. \A s : Has(q, s) => Has(new, s)
  BY <1>4 DEF Has
<1>10. Has(new, "markMoved") /\ ~Has(new, "release") /\ ~Has(new, "click")
  BY <1>8, <1>9 DEF Later
<1>11. new[1] # "lock"
  BY <1>7
<1>12. Plan(new)
  BY <1>2, <1>6, <1>10, <1>11 DEF Plan
<1>13. QED
  BY <1>7, <1>8, <1>9, <1>12 DEF new

\* The calls, and what the steps put in the place of what is left.
Whole == {<<>>, <<"place", "markMoved">>, MouseMove, MousePress, MouseRelease, MouseClick, ScrollAt, TouchDown, TouchUp, moveTo(FALSE),
          <<"misplace", "markMoved">>, <<"misplace", "markMoved", "unlock">>, <<"unlock">>,
          <<"hold", "unlock">>, <<"hold", "finger", "unlock">>,
          <<"release", "unhold", "markReleased", "unlock">>}

LEMMA Joined ==
    ASSUME NEW s \in Seq(StepNames), NEW t \in Seq(StepNames), NEW u \in Seq(StepNames),
           Len(u) = Len(s) + Len(t), \A i \in 1..Len(s) : u[i] = s[i],
           \A i \in 1..Len(t) : u[Len(s) + i] = t[i]
    PROVE  s \o t = u
<1>1. Len(s) \in Nat /\ Len(t) \in Nat
  BY LenProperties
<1>2. /\ s \o t \in Seq(StepNames) /\ Len(s \o t) = Len(s) + Len(t)
      /\ \A i \in 1..Len(s) + Len(t) : (s \o t)[i] = IF i <= Len(s) THEN s[i] ELSE t[i - Len(s)]
  BY ConcatProperties
<1>3. ASSUME NEW i \in 1..Len(u) PROVE (s \o t)[i] = u[i]
  <2>1. CASE i \in 1..Len(s)
    BY <1>1, <1>2, <2>1
  <2>2. CASE i > Len(s)
    <3>1. i - Len(s) \in 1..Len(t) /\ Len(s) + (i - Len(s)) = i
      BY <1>1, <2>2
    <3>2. u[i] = t[i - Len(s)]
      BY <3>1
    <3>3. QED
      BY <1>1, <1>2, <2>2, <3>2
  <2>3. QED
    BY <1>1, <2>1, <2>2
<1>4. QED
  BY <1>2, <1>3, SeqEqual

LEMMA Spelled ==
    /\ ScrollAt = <<"waitReleased", "move", "place", "markMoved", "scroll">>
    /\ TouchDown = <<"lock", "waitReleased", "move", "place", "markMoved", "landed">>
    /\ MouseRelease \o <<"unlock">> = <<"release", "unhold", "markReleased", "unlock">>
    /\ <<"hold">> \o <<"finger", "unlock">> = <<"hold", "finger", "unlock">>
    /\ <<"hold">> \o <<"unlock">> = <<"hold", "unlock">>
    /\ <<"misplace", "markMoved">> \o <<"unlock">> = <<"misplace", "markMoved", "unlock">>
    /\ <<"misplace", "markMoved">> \o <<>> = <<"misplace", "markMoved">>
<1>1. moveTo(FALSE) = <<"waitReleased", "move", "place", "markMoved">>
  BY DEF moveTo
<1>2. <<"waitReleased", "move", "place", "markMoved">> \o <<"scroll">>
        = <<"waitReleased", "move", "place", "markMoved", "scroll">>
  <2>1. /\ <<"waitReleased", "move", "place", "markMoved">> \in Seq(StepNames) /\ <<"scroll">> \in Seq(StepNames)
        /\ <<"waitReleased", "move", "place", "markMoved", "scroll">> \in Seq(StepNames)
    BY DEF StepNames
  <2>2. /\ Len(<<"waitReleased", "move", "place", "markMoved", "scroll">>) = Len(<<"waitReleased", "move", "place", "markMoved">>) + Len(<<"scroll">>)
        /\ \A i \in 1..Len(<<"waitReleased", "move", "place", "markMoved">>) : <<"waitReleased", "move", "place", "markMoved", "scroll">>[i] = <<"waitReleased", "move", "place", "markMoved">>[i]
        /\ \A i \in 1..Len(<<"scroll">>) : <<"waitReleased", "move", "place", "markMoved", "scroll">>[Len(<<"waitReleased", "move", "place", "markMoved">>) + i] = <<"scroll">>[i]
    OBVIOUS
  <2>3. QED
    BY <2>1, <2>2, Joined
<1>3. <<"lock">> \o <<"waitReleased", "move", "place", "markMoved">>
        = <<"lock", "waitReleased", "move", "place", "markMoved">>
  <2>1. /\ <<"lock">> \in Seq(StepNames) /\ <<"waitReleased", "move", "place", "markMoved">> \in Seq(StepNames)
        /\ <<"lock", "waitReleased", "move", "place", "markMoved">> \in Seq(StepNames)
    BY DEF StepNames
  <2>2. /\ Len(<<"lock", "waitReleased", "move", "place", "markMoved">>) = Len(<<"lock">>) + Len(<<"waitReleased", "move", "place", "markMoved">>)
        /\ \A i \in 1..Len(<<"lock">>) : <<"lock", "waitReleased", "move", "place", "markMoved">>[i] = <<"lock">>[i]
        /\ \A i \in 1..Len(<<"waitReleased", "move", "place", "markMoved">>) : <<"lock", "waitReleased", "move", "place", "markMoved">>[Len(<<"lock">>) + i] = <<"waitReleased", "move", "place", "markMoved">>[i]
    OBVIOUS
  <2>3. QED
    BY <2>1, <2>2, Joined
<1>4. <<"lock", "waitReleased", "move", "place", "markMoved">> \o <<"landed">>
        = <<"lock", "waitReleased", "move", "place", "markMoved", "landed">>
  <2>1. /\ <<"lock", "waitReleased", "move", "place", "markMoved">> \in Seq(StepNames) /\ <<"landed">> \in Seq(StepNames)
        /\ <<"lock", "waitReleased", "move", "place", "markMoved", "landed">> \in Seq(StepNames)
    BY DEF StepNames
  <2>2. /\ Len(<<"lock", "waitReleased", "move", "place", "markMoved", "landed">>) = Len(<<"lock", "waitReleased", "move", "place", "markMoved">>) + Len(<<"landed">>)
        /\ \A i \in 1..Len(<<"lock", "waitReleased", "move", "place", "markMoved">>) : <<"lock", "waitReleased", "move", "place", "markMoved", "landed">>[i] = <<"lock", "waitReleased", "move", "place", "markMoved">>[i]
        /\ \A i \in 1..Len(<<"landed">>) : <<"lock", "waitReleased", "move", "place", "markMoved", "landed">>[Len(<<"lock", "waitReleased", "move", "place", "markMoved">>) + i] = <<"landed">>[i]
    OBVIOUS
  <2>3. QED
    BY <2>1, <2>2, Joined
<1>5. <<"release", "unhold", "markReleased">> \o <<"unlock">>
        = <<"release", "unhold", "markReleased", "unlock">>
  <2>1. /\ <<"release", "unhold", "markReleased">> \in Seq(StepNames) /\ <<"unlock">> \in Seq(StepNames)
        /\ <<"release", "unhold", "markReleased", "unlock">> \in Seq(StepNames)
    BY DEF StepNames
  <2>2. /\ Len(<<"release", "unhold", "markReleased", "unlock">>) = Len(<<"release", "unhold", "markReleased">>) + Len(<<"unlock">>)
        /\ \A i \in 1..Len(<<"release", "unhold", "markReleased">>) : <<"release", "unhold", "markReleased", "unlock">>[i] = <<"release", "unhold", "markReleased">>[i]
        /\ \A i \in 1..Len(<<"unlock">>) : <<"release", "unhold", "markReleased", "unlock">>[Len(<<"release", "unhold", "markReleased">>) + i] = <<"unlock">>[i]
    OBVIOUS
  <2>3. QED
    BY <2>1, <2>2, Joined
<1>6. <<"hold">> \o <<"finger", "unlock">>
        = <<"hold", "finger", "unlock">>
  <2>1. /\ <<"hold">> \in Seq(StepNames) /\ <<"finger", "unlock">> \in Seq(StepNames)
        /\ <<"hold", "finger", "unlock">> \in Seq(StepNames)
    BY DEF StepNames
  <2>2. /\ Len(<<"hold", "finger", "unlock">>) = Len(<<"hold">>) + Len(<<"finger", "unlock">>)
        /\ \A i \in 1..Len(<<"hold">>) : <<"hold", "finger", "unlock">>[i] = <<"hold">>[i]
        /\ \A i \in 1..Len(<<"finger", "unlock">>) : <<"hold", "finger", "unlock">>[Len(<<"hold">>) + i] = <<"finger", "unlock">>[i]
    OBVIOUS
  <2>3. QED
    BY <2>1, <2>2, Joined
<1>7. <<"hold">> \o <<"unlock">>
        = <<"hold", "unlock">>
  <2>1. /\ <<"hold">> \in Seq(StepNames) /\ <<"unlock">> \in Seq(StepNames)
        /\ <<"hold", "unlock">> \in Seq(StepNames)
    BY DEF StepNames
  <2>2. /\ Len(<<"hold", "unlock">>) = Len(<<"hold">>) + Len(<<"unlock">>)
        /\ \A i \in 1..Len(<<"hold">>) : <<"hold", "unlock">>[i] = <<"hold">>[i]
        /\ \A i \in 1..Len(<<"unlock">>) : <<"hold", "unlock">>[Len(<<"hold">>) + i] = <<"unlock">>[i]
    OBVIOUS
  <2>3. QED
    BY <2>1, <2>2, Joined
<1>8. <<"misplace", "markMoved">> \o <<"unlock">>
        = <<"misplace", "markMoved", "unlock">>
  <2>1. /\ <<"misplace", "markMoved">> \in Seq(StepNames) /\ <<"unlock">> \in Seq(StepNames)
        /\ <<"misplace", "markMoved", "unlock">> \in Seq(StepNames)
    BY DEF StepNames
  <2>2. /\ Len(<<"misplace", "markMoved", "unlock">>) = Len(<<"misplace", "markMoved">>) + Len(<<"unlock">>)
        /\ \A i \in 1..Len(<<"misplace", "markMoved">>) : <<"misplace", "markMoved", "unlock">>[i] = <<"misplace", "markMoved">>[i]
        /\ \A i \in 1..Len(<<"unlock">>) : <<"misplace", "markMoved", "unlock">>[Len(<<"misplace", "markMoved">>) + i] = <<"unlock">>[i]
    OBVIOUS
  <2>3. QED
    BY <2>1, <2>2, Joined
<1>9. <<"misplace", "markMoved">> \o <<>> = <<"misplace", "markMoved">>
  BY ConcatEmptySeq DEF StepNames
<1>10. QED
  BY <1>1, <1>2, <1>3, <1>4, <1>5, <1>6, <1>7, <1>8, <1>9 DEF ScrollAt, TouchDown, MouseRelease

\* The calls, and what a step may put in the place of what was left.
LEMMA WholePlans ==
    /\ \A call \in Calls : Plan(Steps[call]) /\ Steps[call] # <<>>
    /\ Plan(<<>>) /\ Plan(moveTo(FALSE)) /\ Plan(MousePress) /\ Plan(MouseRelease)
    /\ Plan(<<"misplace", "markMoved">>) /\ Plan(<<"misplace", "markMoved", "unlock">>)
    /\ Plan(<<"unlock">>) /\ Plan(<<"hold", "unlock">>) /\ Plan(<<"hold", "finger", "unlock">>)
    /\ Plan(<<"release", "unhold", "markReleased", "unlock">>)
<1>1. Plan(MouseMove) /\ Plan(moveTo(FALSE)) /\ Plan(MousePress) /\ Plan(MouseRelease)
  BY DEF Plan, Has, Later, StepNames, MouseMove, moveTo, MousePress, MouseRelease
<1>2. Plan(MouseClick) /\ Plan(TouchUp) /\ Plan(<<>>) /\ Plan(<<"unlock">>)
  BY DEF Plan, Has, Later, StepNames, MouseClick, TouchUp
<1>3. Plan(ScrollAt) /\ Plan(TouchDown)
  <2>1. Plan(<<"waitReleased", "move", "place", "markMoved", "scroll">>)
    BY DEF Plan, Has, Later, StepNames
  <2>2. Plan(<<"lock", "waitReleased", "move", "place", "markMoved", "landed">>)
    BY DEF Plan, Has, Later, StepNames
  <2>3. QED
    BY <2>1, <2>2, Spelled
<1>4. /\ Plan(<<"misplace", "markMoved">>) /\ Plan(<<"misplace", "markMoved", "unlock">>)
      /\ Plan(<<"hold", "unlock">>) /\ Plan(<<"hold", "finger", "unlock">>)
      /\ Plan(<<"release", "unhold", "markReleased", "unlock">>)
  BY DEF Plan, Has, Later, StepNames
<1>5. /\ MouseMove # <<>> /\ MousePress # <<>> /\ MouseRelease # <<>> /\ MouseClick # <<>>
      /\ TouchUp # <<>> /\ ScrollAt # <<>> /\ TouchDown # <<>>
  BY Spelled DEF MouseMove, MousePress, MouseRelease, MouseClick, TouchUp, moveTo
<1>6. ASSUME NEW call \in Calls
      PROVE  Steps[call] \in {MouseMove, MousePress, MouseRelease, MouseClick, ScrollAt,
                              TouchDown, TouchUp}
  BY SettleConstants DEF Steps
<1>7. QED
  BY <1>1, <1>2, <1>3, <1>4, <1>5, <1>6

SettledTypes ==
    /\ {moved, released, ownMove, ownRelease} \subseteq 0..Oldest
    /\ nap \in [Callers -> 0..Oldest]
    /\ placed \in BOOLEAN /\ held \in BOOLEAN /\ glide \in BOOLEAN
    /\ fingerDown \in BOOLEAN /\ touching \in BOOLEAN /\ doubtful \in BOOLEAN
    /\ touchMu \in Callers \cup {"free"}

Planned == DOMAIN todo = Callers /\ todo \in [Callers -> Seq(StepNames)] /\ \A c \in Callers : Plan(todo[c])

LEMMA OldestOfAll ==
    /\ Oldest \in Nat /\ PressSettle \in 1..Oldest /\ ReleaseSettle \in 1..Oldest
    /\ \A age \in 0..Oldest : Older(age) \in 0..Oldest /\ Older(age) >= age
                             /\ (Older(age) = age + 1 \/ Older(age) = Oldest)
  BY SettleConstants DEF Oldest, Older

\* A step leaves the rest of the call, or puts one of the plans in its place.
LEMMA StepPlanned ==
    ASSUME Planned, NEW c \in Callers, SettleStep(c)
    PROVE  Planned' /\ \A d \in Callers \ {c} : todo'[d] = todo[d]
<1>1. ASSUME NEW q, Plan(q), todo' = [todo EXCEPT ![c] = q]
      PROVE  Planned' /\ \A d \in Callers \ {c} : todo'[d] = todo[d]
  BY <1>1 DEF Planned, Plan
<1>2. ASSUME todo[c] # <<>>, Then(c, Rest(c))
      PROVE  Planned' /\ \A d \in Callers \ {c} : todo'[d] = todo[d]
  <2>1. Plan(Tail(todo[c]))
    BY <1>2, PlanRest DEF Planned
  <2>2. QED
    BY <1>1, <1>2, <2>1 DEF Then, Rest
<1>3. CASE BeginCall(c)
  BY <1>1, <1>3, WholePlans DEF BeginCall, Then
<1>4. CASE Wait(c)
  BY <1>2, <1>4 DEF Wait, WaitFor, Ready
<1>5. CASE Route(c)
  <2>1. PICK points \in {GlideSteps, 1} : todo' = [todo EXCEPT ![c] = [i \in 1..points |-> "move"] \o Tail(todo[c])]
    BY <1>5 DEF Route, Then, Rest
  <2>2. points \in Nat \ {0}
    BY <2>1, SettleConstants
  <2>3. todo[c] # <<>> /\ Head(todo[c]) = "route" /\ Plan(todo[c])
    BY <1>5 DEF Route, Ready, Planned
  <2>4. Plan(Tail(todo[c])) /\ (\A s : Has(Tail(todo[c]), s) => s \in Later("route"))
        /\ Has(Tail(todo[c]), "markMoved")
    BY <2>3, PlanRest DEF Plan
  <2>5. Later("route") = Later("move")
    BY DEF Later
  <2>6. Plan([i \in 1..points |-> "move"] \o Tail(todo[c]))
    BY <2>2, <2>4, <2>5, PlanGlides
  <2>7. QED
    BY <1>1, <2>1, <2>6
<1>6. CASE Move(c)
  BY <1>1, <1>2, <1>6, WholePlans, Spelled DEF Move, Ready, Then
<1>7. CASE Place(c) \/ MarkMoved(c) \/ Hold(c) \/ Release(c) \/ MarkReleased(c) \/ Lock(c) \/ Finger(c) \/ Unlock(c)
  BY <1>2, <1>7 DEF Place, MarkMoved, Hold, Release, MarkReleased, Lock, Finger, Unlock, Ready
<1>8. CASE Press(c)
  BY <1>1, <1>2, <1>8, WholePlans, Spelled DEF Press, Ready, Then
<1>9. CASE Scroll(c) \/ Landed(c)
  BY <1>1, <1>9, WholePlans DEF Scroll, Landed, Then
<1>10. CASE Lift(c)
  BY <1>1, <1>10, WholePlans, Spelled DEF Lift, Then
<1>11. QED
  BY <1>3, <1>4, <1>5, <1>6, <1>7, <1>8, <1>9, <1>10 DEF SettleStep

LEMMA SettledTyped == SettledTypes /\ [SettleNext]_settleVars => SettledTypes'
<1>1. SUFFICES ASSUME SettledTypes, [SettleNext]_settleVars PROVE SettledTypes'
  OBVIOUS
<1> USE DEF ageVars, ownVars, fingerVars, phoneFinger
<1>2. ASSUME NEW c \in Callers, SettleStep(c) PROVE SettledTypes'
  <2>1. CASE BeginCall(c) \/ Route(c) \/ Scroll(c) \/ Landed(c)
    BY <1>1, <2>1 DEF SettledTypes, BeginCall, Route, Scroll, Landed
  <2>2. CASE Wait(c)
    BY <1>1, <2>2, OldestOfAll DEF SettledTypes, Wait, WaitFor
  <2>3. CASE Move(c)
    <3>1. 0 \in 0..Oldest /\ 1 \in 0..Oldest
      BY OldestOfAll
    <3>2. nap' \in [Callers -> 0..Oldest]
      BY <1>1, <2>3, <3>1 DEF SettledTypes, Move
    <3>3. ownMove' \in {0, ownMove}
      BY <2>3 DEF Move
    <3>4. QED
      BY <1>1, <2>3, <3>1, <3>2, <3>3 DEF SettledTypes, Move
  <2>4. CASE Place(c) \/ Hold(c) \/ Finger(c) \/ Lift(c)
    BY <1>1, <2>4 DEF SettledTypes, Place, Hold, Finger, Lift
  <2>5. CASE MarkMoved(c) \/ MarkReleased(c)
    BY <1>1, <2>5, OldestOfAll DEF SettledTypes, MarkMoved, MarkReleased
  <2>6. ASSUME NEW pressed \in BOOLEAN, NEW ok \in BOOLEAN, TouchSent(c, pressed, ok)
        PROVE  touching' \in BOOLEAN /\ doubtful' \in BOOLEAN
    <3>1. touching \in BOOLEAN /\ doubtful \in BOOLEAN
      BY <1>1 DEF SettledTypes
    <3>2. touching' \in {touching, pressed} /\ doubtful' \in {doubtful, ~ok}
      BY <2>6 DEF TouchSent
    <3>3. QED
      BY <2>6, <3>1, <3>2
  <2>7. CASE Press(c)
    <3>1. touching' \in BOOLEAN /\ doubtful' \in BOOLEAN
      BY <2>6, <2>7 DEF Press
    <3>2. QED
      BY <1>1, <2>7, <3>1 DEF SettledTypes, Press
  <2>8. CASE Lock(c) \/ Unlock(c)
    BY <1>1, <2>8 DEF SettledTypes, Lock, Unlock
  <2>9. CASE Release(c)
    <3>1. 0 \in 0..Oldest
      BY OldestOfAll
    <3>2. ownRelease' \in {0, ownRelease}
      BY <2>9 DEF Release
    <3>3. touching' \in BOOLEAN /\ doubtful' \in BOOLEAN
      BY <2>6, <2>9 DEF Release
    <3>4. QED
      BY <1>1, <2>9, <3>1, <3>2, <3>3 DEF SettledTypes, Release
  <2>10. QED
    BY <1>2, <2>1, <2>2, <2>3, <2>4, <2>5, <2>7, <2>8, <2>9 DEF SettleStep
<1>3. CASE SetGlide
  BY <1>1, <1>3 DEF SettledTypes, SetGlide
<1>4. CASE Tick
  BY <1>1, <1>4, OldestOfAll DEF SettledTypes, Tick
<1>5. CASE UNCHANGED settleVars
  BY <1>1, <1>5 DEF SettledTypes, settleVars
<1>6. QED
  BY <1>1, <1>2, <1>3, <1>4, <1>5 DEF SettleNext

(* Settling. wait looks at ages that any caller's event may have renewed, so *)
(* it waits at least as long as the caller's own last event asks for: but    *)
(* for one it has sent and not yet marked, and no wait comes between those.  *)

OwnEventsMarked ==
    /\ ~Has(todo[Watched], "markMoved") => ownMove >= moved
    /\ ~Has(todo[Watched], "markReleased") => ownRelease >= released

OwnWaits ==
    todo[Watched] # <<>> =>
        /\ Head(todo[Watched]) \in {"press", "click"} => ownMove + nap[Watched] >= PressSettle
        /\ Head(todo[Watched]) \in {"route", "move"} => ownRelease + nap[Watched] >= ReleaseSettle

GesturesIInv == SettledTypes /\ Planned /\ OwnEventsMarked /\ OwnWaits

LEMMA GesturesInitiate == SettleInit => GesturesIInv
<1>1. SUFFICES ASSUME SettleInit PROVE GesturesIInv
  OBVIOUS
<1>2. SettledTypes
  <2>1. 0 \in 0..Oldest /\ Oldest \in 0..Oldest
    BY OldestOfAll
  <2>2. nap \in [Callers -> 0..Oldest]
    BY <1>1, <2>1 DEF SettleInit
  <2>3. QED
    BY <1>1, <2>1, <2>2 DEF SettleInit, SettledTypes
<1>3. Planned
  BY <1>1, WholePlans DEF SettleInit, Planned
<1>4. OwnEventsMarked /\ OwnWaits
  BY <1>1, OldestOfAll, SettleConstants DEF SettleInit, OwnEventsMarked, OwnWaits
<1>5. QED
  BY <1>2, <1>3, <1>4 DEF GesturesIInv

\* What others do, and the marks of anybody, only make the wait longer.
LEMMA OthersSettle ==
    ASSUME GesturesIInv, todo'[Watched] = todo[Watched], nap'[Watched] = nap[Watched],
           UNCHANGED <<ownMove, ownRelease>>, moved' \in {moved, 0}, released' \in {released, 0}
    PROVE  OwnEventsMarked' /\ OwnWaits'
<1>1. moved' <= moved /\ released' <= released
  BY OldestOfAll DEF GesturesIInv, SettledTypes
<1>2. QED
  BY <1>1, OldestOfAll DEF GesturesIInv, SettledTypes, OwnEventsMarked, OwnWaits

LEMMA OwnSettles ==
    ASSUME GesturesIInv, SettleStep(Watched)
    PROVE  OwnEventsMarked' /\ OwnWaits'
<1> DEFINE q == todo[Watched]
           t == todo'[Watched]
<1> USE SettleConstants DEF ageVars, ownVars, fingerVars, phoneFinger
<1>1. /\ Plan(q) /\ DOMAIN todo = Callers /\ Watched \in Callers
      /\ moved \in Nat /\ released \in Nat /\ ownMove \in Nat /\ ownRelease \in Nat
      /\ nap \in [Callers -> Nat] /\ PressSettle \in Nat /\ ReleaseSettle \in Nat
  BY OldestOfAll DEF GesturesIInv, Planned, SettledTypes
<1>2. /\ ~Has(q, "markMoved") => ownMove >= moved
      /\ ~Has(q, "markReleased") => ownRelease >= released
      /\ q # <<>> /\ nap[Watched] = 0 /\ Head(q) \in {"route", "move"} => ownRelease >= ReleaseSettle
  BY <1>1 DEF GesturesIInv, OwnEventsMarked, OwnWaits
<1>3. Plan(t)
  BY StepPlanned DEF Planned, GesturesIInv
<1>4. t # <<>> => Has(t, Head(t))
  <2>1. t # <<>> => t[1] = Head(t) /\ 1 \in 1..Len(t)
    BY <1>3, PlanRest, LenProperties, EmptySeq DEF Plan
  <2>2. QED
    BY <2>1 DEF Has
<1>5. ASSUME q # <<>>, t = Tail(q)
      PROVE  /\ \A s : Has(t, s) => s \in Later(Head(q))
             /\ \A s : Has(q, s) <=> s = Head(q) \/ Has(t, s)
             /\ t # <<>> => Head(t) \in Later(Head(q))
  BY <1>1, <1>4, <1>5, PlanRest
<1>6. SUFFICES /\ ~Has(t, "markMoved") => ownMove' >= moved'
               /\ ~Has(t, "markReleased") => ownRelease' >= released'
               /\ t # <<>> =>
                     /\ Head(t) \in {"press", "click"} => ownMove' + nap'[Watched] >= PressSettle
                     /\ Head(t) \in {"route", "move"} => ownRelease' + nap'[Watched] >= ReleaseSettle
  BY DEF OwnEventsMarked, OwnWaits
<1>7. Ready(Watched, Head(q)) => q # <<>> /\ nap[Watched] = 0
  BY DEF Ready
<1> HIDE DEF q, t
<1>8. CASE BeginCall(Watched)
  <2>1. q = <<>> /\ UNCHANGED <<moved, released, ownMove, ownRelease, nap>>
    BY <1>8 DEF BeginCall, q
  <2>2. ~Has(q, "markMoved") /\ ~Has(q, "markReleased")
    BY <2>1 DEF Has
  <2>3. Head(t) \notin {"press", "click", "route", "move"}
    <3>1. PICK call \in Calls : t = Steps[call]
      BY <1>1, <1>8 DEF BeginCall, Then, t
    <3>2. Head(Steps[call]) \in {"waitReleased", "waitMoved", "release", "lock"}
      BY <3>1, Spelled DEF Steps, MouseMove, MousePress, MouseRelease, MouseClick, TouchUp, moveTo
    <3>3. QED
      BY <3>1, <3>2
  <2>4. QED
    BY <1>1, <1>2, <2>1, <2>2, <2>3
<1>9. ASSUME NEW step, NEW age, NEW settle, WaitFor(Watched, step, age, settle), age \in Nat, settle \in Nat
      PROVE  /\ q # <<>> /\ Head(q) = step /\ t = Tail(q)
             /\ UNCHANGED <<moved, released, ownMove, ownRelease>>
             /\ nap'[Watched] >= settle - age /\ nap'[Watched] \in Nat
  BY <1>1, <1>9 DEF WaitFor, Ready, Then, Rest, q, t
<1>10. CASE WaitFor(Watched, "waitMoved", moved, PressSettle)
  <2>1. /\ q # <<>> /\ Head(q) = "waitMoved" /\ t = Tail(q)
        /\ UNCHANGED <<moved, released, ownMove, ownRelease>>
        /\ nap'[Watched] >= PressSettle - moved /\ nap'[Watched] \in Nat
    BY <1>1, <1>9, <1>10
  <2>2. /\ ~Has(q, "markMoved") /\ (Has(q, "markReleased") => Has(t, "markReleased"))
        /\ t # <<>> => Head(t) \notin {"route", "move"}
    BY <1>5, <2>1, LaterIs
  <2>3. QED
    BY <1>1, <1>2, <2>1, <2>2
<1>11. CASE WaitFor(Watched, "waitReleased", released, ReleaseSettle)
  <2>1. /\ q # <<>> /\ Head(q) = "waitReleased" /\ t = Tail(q)
        /\ UNCHANGED <<moved, released, ownMove, ownRelease>>
        /\ nap'[Watched] >= ReleaseSettle - released /\ nap'[Watched] \in Nat
    BY <1>1, <1>9, <1>11
  <2>2. /\ ~Has(q, "markReleased") /\ (Has(q, "markMoved") => Has(t, "markMoved"))
        /\ t # <<>> => Head(t) \notin {"press", "click"}
    BY <1>5, <2>1, LaterIs
  <2>3. QED
    BY <1>1, <1>2, <2>1, <2>2
<1>12. CASE Route(Watched)
  <2>1. PICK points \in {GlideSteps, 1} : t = [i \in 1..points |-> "move"] \o Tail(q)
    BY <1>1, <1>12 DEF Route, Then, Rest, q, t
  <2>2. /\ q # <<>> /\ Head(q) = "route" /\ nap[Watched] = 0
        /\ UNCHANGED <<moved, released, ownMove, ownRelease, nap>>
    BY <1>12 DEF Route, Ready, q
  <2>3. /\ Plan(Tail(q)) /\ (\A s : Has(Tail(q), s) => s \in Later("route")) /\ Has(Tail(q), "markMoved")
        /\ \A s : Has(q, s) <=> s = "route" \/ Has(Tail(q), s)
    BY <1>1, <2>2, PlanRest DEF Plan
  <2>4. /\ t[1] = "move" /\ \A s : Has(Tail(q), s) => Has(t, s)
    BY <2>1, <2>3, PlanGlides, LaterIs
  <2>5. t # <<>> => Head(t) = "move"
    BY <1>3, <2>4, PlanRest
  <2>6. QED
    BY <1>1, <1>2, <2>2, <2>3, <2>4, <2>5
<1>13. CASE Move(Watched)
  <2>1. /\ q # <<>> /\ Head(q) = "move" /\ nap[Watched] = 0 /\ nap'[Watched] \in Nat
        /\ UNCHANGED <<moved, released, ownRelease>> /\ ownMove' = 0
    BY <1>1, <1>13 DEF Move, Ready, q
  <2>2. CASE t = Tail(q)
    <3>1. /\ Has(t, "markMoved") /\ (Has(q, "markReleased") => Has(t, "markReleased"))
          /\ t # <<>> => Head(t) \notin {"press", "click"}
      BY <1>1, <1>5, <2>1, <2>2, LaterIs DEF Plan
    <3>2. QED
      BY <1>1, <1>2, <2>1, <3>1
  <2>3. CASE t \in {<<"misplace", "markMoved">>, <<"misplace", "markMoved", "unlock">>}
    <3>1. Has(t, "markMoved") /\ Head(t) = "misplace"
      BY <2>3 DEF Has
    <3>2. ~Has(q, "markReleased")
      BY <1>1, <2>1, PlanRest, LaterIs
    <3>3. QED
      BY <1>1, <1>2, <2>1, <3>1, <3>2
  <2>4. QED
    BY <1>1, <1>13, <2>2, <2>3, Spelled DEF Move, Then, Rest, q, t
<1>14. CASE MarkMoved(Watched) \/ MarkReleased(Watched)
  <2>1. /\ q # <<>> /\ Head(q) \in {"markMoved", "markReleased"} /\ t = Tail(q)
        /\ UNCHANGED <<ownMove, ownRelease, nap>>
        /\ moved' = IF Head(q) = "markMoved" THEN 0 ELSE moved
        /\ released' = IF Head(q) = "markReleased" THEN 0 ELSE released
    BY <1>1, <1>14 DEF MarkMoved, MarkReleased, Ready, Then, Rest, q, t
  <2>2. t # <<>> => Head(t) \notin {"press", "click", "route", "move"}
    BY <1>5, <2>1, LaterIs
  <2>3. QED
    BY <1>1, <1>2, <1>5, <2>1, <2>2
<1>15. CASE Release(Watched)
  <2>1. /\ q # <<>> /\ Head(q) \in {"release", "click"} /\ t = Tail(q)
        /\ UNCHANGED <<moved, released, ownMove, nap>> /\ ownRelease' = 0
    BY <1>1, <1>15 DEF Release, Ready, Then, Rest, q, t
  <2>2. /\ Has(t, "markReleased") /\ (Has(q, "markMoved") => Has(t, "markMoved"))
        /\ t # <<>> => Head(t) \notin {"press", "click", "route", "move"}
    BY <1>1, <1>5, <2>1, LaterIs DEF Plan
  <2>3. QED
    BY <1>1, <1>2, <2>1, <2>2
<1>16. CASE Place(Watched) \/ Hold(Watched) \/ Lock(Watched) \/ Finger(Watched) \/ Unlock(Watched)
  <2>1. /\ q # <<>> /\ t = Tail(q) /\ UNCHANGED <<moved, released, ownMove, ownRelease, nap>>
        /\ Head(q) \in {"place", "misplace", "hold", "unhold", "lock", "finger", "unlock"}
    BY <1>1, <1>16 DEF Place, Hold, Lock, Finger, Unlock, Ready, Then, Rest, q, t
  <2>2. t # <<>> => Head(t) \notin {"press", "click", "route", "move"}
    <3>1. CASE Head(q) # "lock"
      BY <1>5, <2>1, <3>1, LaterIs
    <3>2. CASE Head(q) = "lock" /\ t # <<>>
      <4>1. q[1] = "lock" /\ t[1] = q[2] /\ Len(q) > 1 /\ Head(t) = t[1]
        <5>1. /\ q[1] = Head(q) /\ Len(t) = Len(q) - 1 /\ \A i \in 1..Len(t) : t[i] = q[i + 1]
              /\ Head(t) = t[1] /\ Len(q) \in Nat /\ Len(t) \in Nat /\ Len(t) # 0
          BY <1>1, <1>3, <2>1, <3>2, PlanRest, EmptySeq, LenProperties DEF Plan
        <5>2. QED
          BY <3>2, <5>1
      <4>2. QED
        BY <1>1, <4>1 DEF Plan
    <3>3. QED
      BY <3>1, <3>2
  <2>3. QED
    BY <1>1, <1>2, <1>5, <2>1, <2>2
<1>17. CASE Press(Watched)
  <2>1. /\ q # <<>> /\ Head(q) = "press" /\ UNCHANGED <<moved, released, ownMove, ownRelease, nap>>
        /\ t = Tail(q) \/ t \in {<<"hold", "unlock">>, <<"hold", "finger", "unlock">>}
    BY <1>1, <1>17, Spelled DEF Press, Ready, Then, Rest, q, t
  <2>2. /\ ~Has(q, "markMoved") /\ ~Has(q, "markReleased")
        /\ t # <<>> => Head(t) = "hold"
    <3>1. \A s : Has(q, s) => s \in {"press", "hold"}
      BY <1>1, <2>1, PlanRest, LaterIs
    <3>2. QED
      BY <1>5, <2>1, <3>1, LaterIs
  <2>3. QED
    BY <1>1, <1>2, <2>1, <2>2
<1>18. CASE Scroll(Watched) \/ Landed(Watched) \/ Lift(Watched)
  <2>1. /\ q # <<>> /\ Head(q) \in {"scroll", "landed", "lift"}
        /\ UNCHANGED <<moved, released, ownMove, ownRelease, nap>>
        /\ t \in {<<>>, moveTo(FALSE), <<"unlock">>, MousePress, <<"release", "unhold", "markReleased", "unlock">>}
    BY <1>1, <1>18, Spelled DEF Scroll, Landed, Lift, Ready, Then, q, t
  <2>2. ~Has(q, "markMoved") /\ ~Has(q, "markReleased")
    BY <1>1, <2>1, PlanRest, LaterIs
  <2>3. t # <<>> => Head(t) \notin {"press", "click", "route", "move"}
    BY <2>1 DEF moveTo, MousePress
  <2>4. QED
    BY <1>1, <1>2, <2>1, <2>2, <2>3
<1>19. QED
  BY <1>8, <1>10, <1>11, <1>12, <1>13, <1>14, <1>15, <1>16, <1>17, <1>18 DEF SettleStep, Wait

LEMMA GesturesStep == GesturesIInv /\ [SettleNext]_settleVars => GesturesIInv'
<1>1. SUFFICES ASSUME GesturesIInv, [SettleNext]_settleVars PROVE GesturesIInv'
  OBVIOUS
<1>2. SettledTypes'
  BY <1>1, SettledTyped DEF GesturesIInv
<1>3. Watched \in Callers /\ DOMAIN todo = Callers
  BY <1>1, SettleConstants DEF GesturesIInv, Planned
<1>4. ASSUME NEW c \in Callers, SettleStep(c) PROVE GesturesIInv'
  <2>1. Planned' /\ \A d \in Callers \ {c} : todo'[d] = todo[d]
    BY <1>1, <1>4, StepPlanned DEF GesturesIInv
  <2>2. CASE c = Watched
    BY <1>1, <1>2, <1>4, <2>1, <2>2, OwnSettles DEF GesturesIInv
  <2>3. CASE c # Watched
    <3>1. todo'[Watched] = todo[Watched]
      BY <1>3, <2>1, <2>3
    <3>2. nap'[Watched] = nap[Watched]
      BY <1>1, <1>3, <1>4, <2>3
         DEF GesturesIInv, SettledTypes, SettleStep, BeginCall, Wait, WaitFor, Route, Move, Place, MarkMoved, Press,
             Hold, Release, MarkReleased, Scroll, Lock, Landed, Finger, Lift, Unlock
    <3>3. /\ UNCHANGED <<ownMove, ownRelease>> /\ moved' \in {moved, 0} /\ released' \in {released, 0}
      BY <1>4, <2>3
         DEF SettleStep, BeginCall, Wait, WaitFor, Route, Move, Place, MarkMoved, Press, Hold,
             Release, MarkReleased, Scroll, Lock, Landed, Finger, Lift, Unlock, ageVars, ownVars
    <3>4. QED
      BY <1>1, <1>2, <2>1, <3>1, <3>2, <3>3, OthersSettle DEF GesturesIInv
  <2>4. QED
    BY <2>2, <2>3
<1>5. CASE SetGlide \/ UNCHANGED settleVars
  <2>1. UNCHANGED <<todo, nap, moved, released, ownMove, ownRelease>>
    BY <1>5 DEF SetGlide, settleVars, ageVars, ownVars
  <2>2. QED
    BY <1>1, <1>2, <2>1 DEF GesturesIInv, Planned, OwnEventsMarked, OwnWaits
<1>6. CASE Tick
  <2>1. /\ UNCHANGED todo
        /\ moved' = Older(moved) /\ released' = Older(released)
        /\ ownMove' = Older(ownMove) /\ ownRelease' = Older(ownRelease)
        /\ nap'[Watched] = IF nap[Watched] > 0 THEN nap[Watched] - 1 ELSE 0
    BY <1>3, <1>6 DEF Tick
  <2>2. /\ moved \in 0..Oldest /\ released \in 0..Oldest /\ ownMove \in 0..Oldest
        /\ ownRelease \in 0..Oldest /\ nap[Watched] \in 0..Oldest
    BY <1>1, <1>3 DEF GesturesIInv, SettledTypes
  <2>3. \A a, b \in 0..Oldest : a >= b => Older(a) >= Older(b)
    BY OldestOfAll DEF Older
  <2>4. \A a \in 0..Oldest, settle \in {PressSettle, ReleaseSettle} :
            a + nap[Watched] >= settle => Older(a) + nap'[Watched] >= settle
    BY <2>1, <2>2, OldestOfAll
  <2>5. OwnEventsMarked'
    BY <1>1, <2>1, <2>2, <2>3 DEF GesturesIInv, OwnEventsMarked
  <2>6. OwnWaits'
    BY <1>1, <2>1, <2>2, <2>4 DEF GesturesIInv, OwnWaits
  <2>7. QED
    BY <1>1, <1>2, <2>1, <2>5, <2>6 DEF GesturesIInv, Planned
<1>7. QED
  BY <1>1, <1>4, <1>5, <1>6 DEF SettleNext

LEMMA GesturesInvariance == SettleSpec => []GesturesIInv
  BY GesturesInitiate, GesturesStep, PTL DEF SettleSpec

\* For any callers and any delays: however the calls of others renew the times
\* wait looks at, a caller's press or click comes its own settling time after
\* its own last move, and its moves after its own last release.
THEOREM GesturesSettle == SettleSpec => []OwnGesturesSettle
<1>1. GesturesIInv => OwnGesturesSettle
  <2>1. SUFFICES ASSUME GesturesIInv, nap[Watched] = 0, todo[Watched] # <<>>
                 PROVE  /\ Next1(Watched) \in {"press", "click"} => ownMove >= PressSettle
                        /\ Next1(Watched) = "move" => ownRelease >= ReleaseSettle
    BY DEF OwnGesturesSettle
  <2>2. ownMove \in Nat /\ ownRelease \in Nat
    BY <2>1, OldestOfAll DEF GesturesIInv, SettledTypes
  <2>3. QED
    BY <2>1, <2>2 DEF GesturesIInv, OwnWaits, Next1
<1>2. QED
  BY <1>1, GesturesInvariance, PTL

\* The steps a call has left are always steps of settledHID.
THEOREM SettledIsTyped == SettleSpec => []SettleTypeOK
<1>1. GesturesIInv => SettleTypeOK
  BY DEF GesturesIInv, SettledTypes, Planned, Plan, SettleTypeOK
<1>2. QED
  BY <1>1, GesturesInvariance, PTL

(* The finger. A touch has the lock from its first step to its last, and a   *)
(* step of it that is left says what fingerDown and the button are now.      *)

Ends == {"landed", "lift", "unlock", "press"}

TouchPlan(q) ==
    /\ \A s \in {"lock", "scroll", "click", "route"} : ~Has(q, s)
    /\ \E s \in Ends : Has(q, s)

\* Only a touch, and under the lock, notes a finger.
OtherPlan(q) ==
    IF Has(q, "lock") THEN TouchPlan(Tail(q))
    ELSE \A s \in {"landed", "lift", "unlock", "finger"} : ~Has(q, s)

LocksHeld == \A c \in Callers : IF touchMu = c THEN TouchPlan(todo[c]) ELSE OtherPlan(todo[c])

\* A finger noted down is down; one that is down is noted, or in doubt.
Tracks(noted, pressed, doubt) == (noted => pressed) /\ (pressed => noted \/ doubt)

FingerFollows(q, noted, pressed, doubt) ==
    /\ Has(q, "finger") => ~noted /\ pressed
    /\ Has(q, "release") => ~noted
    /\ Has(q, "press") => ~noted
    /\ ~Has(q, "finger") /\ ~Has(q, "release") => Tracks(noted, pressed, doubt)

FingerIInv ==
    /\ SettledTypes /\ Planned /\ LocksHeld
    /\ touchMu = "free" => Tracks(fingerDown, touching, doubtful)
    /\ \A c \in Callers : touchMu = c => FingerFollows(todo[c], fingerDown, touching, doubtful)

LEMMA LockFirst ==
    ASSUME NEW q, Plan(q)
    PROVE  /\ Has(q, "lock") => q # <<>> /\ Head(q) = "lock"
           /\ q # <<>> /\ Head(q) = "lock" => Has(q, "lock")
           /\ q # <<>> /\ Head(q) = "lock" /\ (Has(q, "landed") \/ Has(q, "lift")) => TouchPlan(Tail(q))
<1>1. Has(q, "lock") => q # <<>>
  BY DEF Has
<1>2. CASE q # <<>>
  <2>1. /\ Head(q) = q[1] /\ q[1] \in StepNames
        /\ \A s : Has(Tail(q), s) => s \in Later(q[1])
        /\ \A s : Has(q, s) <=> s = q[1] \/ Has(Tail(q), s)
    BY <1>2, PlanRest
  <2>2. "lock" \notin Later(q[1])
    BY <2>1 DEF Later
  <2>3. QED
    BY <1>2, <2>1, <2>2, LaterIs DEF TouchPlan, Ends
<1>3. QED
  BY <1>1, <1>2

LEMMA WholeOther ==
    /\ \A call \in Calls : OtherPlan(Steps[call])
    /\ OtherPlan(<<>>) /\ OtherPlan(moveTo(FALSE)) /\ OtherPlan(<<"misplace", "markMoved">>)
<1> USE DEF Has
<1>1. OtherPlan(MouseMove) /\ OtherPlan(moveTo(FALSE)) /\ OtherPlan(MousePress) /\ OtherPlan(MouseRelease)
  BY DEF OtherPlan, MouseMove, moveTo, MousePress, MouseRelease
<1>2. OtherPlan(MouseClick) /\ OtherPlan(<<>>) /\ OtherPlan(<<"misplace", "markMoved">>)
  BY DEF OtherPlan, MouseClick
<1>3. OtherPlan(ScrollAt)
  <2>1. OtherPlan(<<"waitReleased", "move", "place", "markMoved", "scroll">>)
    BY DEF OtherPlan
  <2>2. QED
    BY <2>1, Spelled
<1> USE SettleConstants
<1>4. OtherPlan(TouchUp)
  <2>1. Plan(TouchUp) /\ TouchUp # <<>> /\ Head(TouchUp) = "lock" /\ Has(TouchUp, "lift")
    <3>1. Plan(TouchUp)
      BY DEF Plan, Has, Later, StepNames, TouchUp
    <3>2. QED
      BY <3>1 DEF TouchUp
  <2>2. QED
    BY <2>1, LockFirst DEF OtherPlan
<1>5. OtherPlan(TouchDown)
  <2> DEFINE u == <<"lock", "waitReleased", "move", "place", "markMoved", "landed">>
  <2>1. Plan(u) /\ u # <<>> /\ Head(u) = "lock" /\ Has(u, "landed")
    <3>1. Plan(u)
      BY DEF Plan, Has, Later, StepNames
    <3>2. u[6] = "landed" /\ 6 \in 1..Len(u)
      OBVIOUS
    <3>3. QED
      BY <3>1, <3>2
  <2> HIDE DEF u
  <2>2. OtherPlan(u)
    BY <2>1, LockFirst DEF OtherPlan
  <2>3. QED
    BY <2>2, Spelled DEF u
<1>6. ASSUME NEW call \in Calls
      PROVE  Steps[call] \in {MouseMove, MousePress, MouseRelease, MouseClick, ScrollAt,
                              TouchDown, TouchUp}
  BY SettleConstants DEF Steps
<1>7. QED
  BY <1>1, <1>2, <1>3, <1>4, <1>5, <1>6

LEMMA WholeTouch ==
    /\ TouchPlan(<<"misplace", "markMoved", "unlock">>) /\ TouchPlan(<<"unlock">>)
    /\ TouchPlan(MousePress) /\ TouchPlan(<<"hold", "unlock">>) /\ TouchPlan(<<"hold", "finger", "unlock">>)
    /\ TouchPlan(<<"release", "unhold", "markReleased", "unlock">>)
<1>1. TouchPlan(<<"misplace", "markMoved", "unlock">>) /\ TouchPlan(<<"unlock">>)
  BY DEF TouchPlan, Has, Ends
<1>2. TouchPlan(MousePress) /\ TouchPlan(<<"hold", "unlock">>)
  BY DEF TouchPlan, Has, Ends, MousePress
<1>3. TouchPlan(<<"hold", "finger", "unlock">>)
  BY DEF TouchPlan, Has, Ends
<1>4. TouchPlan(<<"release", "unhold", "markReleased", "unlock">>)
  BY DEF TouchPlan, Has, Ends
<1>5. QED
  BY <1>1, <1>2, <1>3, <1>4

LEMMA BystanderSteps ==
    ASSUME FingerIInv, NEW c \in Callers, SettleStep(c), touchMu # c
    PROVE  /\ UNCHANGED <<fingerDown, touching, doubtful>>
           /\ \/ touchMu' = touchMu /\ OtherPlan(todo'[c])
              \/ /\ touchMu = "free" /\ touchMu' = c /\ TouchPlan(todo'[c])
                 /\ \A s \in {"finger", "release", "press"} : ~Has(todo'[c], s)
<1> DEFINE q == todo[c]
           t == todo'[c]
<1> USE DEF ageVars, ownVars, fingerVars, phoneFinger
<1>1. /\ Plan(q) /\ OtherPlan(q) /\ DOMAIN todo = Callers
  BY DEF FingerIInv, Planned, LocksHeld
<1>2. ASSUME q # <<>>
      PROVE  /\ \A s : Has(Tail(q), s) => s \in Later(Head(q))
             /\ \A s : Has(q, s) <=> s = Head(q) \/ Has(Tail(q), s)
             /\ Head(q) \notin {"landed", "lift", "unlock", "finger"}
             /\ Head(q) = "lock" => TouchPlan(Tail(q))
             /\ Head(q) # "lock" => OtherPlan(Tail(q))
  <2>1. /\ \A s : Has(Tail(q), s) => s \in Later(Head(q))
        /\ \A s : Has(q, s) <=> s = Head(q) \/ Has(Tail(q), s)
    BY <1>1, <1>2, PlanRest
  <2>2. Has(q, "lock") <=> Head(q) = "lock"
    BY <1>1, <1>2, LockFirst
  <2>3. QED
    BY <1>1, <2>1, <2>2 DEF OtherPlan
<1> HIDE DEF q, t
<1>3. ASSUME UNCHANGED <<fingerDown, touching, doubtful, touchMu>>, OtherPlan(t) PROVE UNCHANGED <<fingerDown, touching, doubtful>> /\ touchMu' = touchMu /\ OtherPlan(t)
  BY <1>3
<1>4. CASE BeginCall(c)
  BY <1>1, <1>4, WholeOther DEF BeginCall, Then, t
<1>5. CASE Wait(c) \/ Place(c) \/ MarkMoved(c) \/ Hold(c) \/ MarkReleased(c) \/ Release(c) \/ Press(c)
  <2>1. /\ q # <<>> /\ t = Tail(q) /\ UNCHANGED <<fingerDown, touching, doubtful, touchMu>> /\ Head(q) # "lock"
    BY <1>1, <1>5
       DEF Wait, WaitFor, Place, MarkMoved, Hold, MarkReleased, Release, Press, TouchSent, Ready, Then, Rest,
           Touching, q, t
  <2>2. QED
    BY <1>2, <2>1 DEF t
<1>6. CASE Route(c)
  <2>1. PICK points \in {GlideSteps, 1} : t = [i \in 1..points |-> "move"] \o Tail(q)
    BY <1>1, <1>6 DEF Route, Then, Rest, q, t
  <2>2. /\ q # <<>> /\ Head(q) = "route" /\ UNCHANGED <<fingerDown, touching, doubtful, touchMu>>
    BY <1>6 DEF Route, Ready, q
  <2>3. /\ Plan(Tail(q)) /\ (\A s : Has(Tail(q), s) => s \in Later("route")) /\ Has(Tail(q), "markMoved")
    BY <1>1, <2>2, PlanRest DEF Plan
  <2>4. \A s : Has(t, s) => s = "move" \/ Has(Tail(q), s)
    BY <2>1, <2>3, PlanGlides, LaterIs, SettleConstants
  <2>5. OtherPlan(t)
    BY <1>2, <2>2, <2>3, <2>4, LaterIs DEF OtherPlan
  <2>6. QED
    BY <2>2, <2>5 DEF t
<1>7. CASE Move(c)
  <2>1. /\ q # <<>> /\ Head(q) = "move" /\ UNCHANGED <<fingerDown, touching, doubtful, touchMu>>
        /\ t = Tail(q) \/ t = <<"misplace", "markMoved">>
    BY <1>1, <1>7, Spelled DEF Move, Ready, Then, Rest, Touching, q, t
  <2>2. OtherPlan(t)
    BY <1>2, <2>1, WholeOther
  <2>3. QED
    BY <2>1, <2>2 DEF t
<1>8. CASE Scroll(c)
  BY <1>1, <1>8, WholeOther DEF Scroll, Then, t
<1>9. CASE Lock(c)
  <2>1. /\ q # <<>> /\ Head(q) = "lock" /\ t = Tail(q) /\ UNCHANGED <<fingerDown, touching, doubtful>>
        /\ touchMu = "free" /\ touchMu' = c
    BY <1>1, <1>9 DEF Lock, Ready, Then, Rest, q, t
  <2>2. TouchPlan(t) /\ \A s \in {"finger", "release", "press"} : ~Has(t, s)
    BY <1>2, <2>1, LaterIs
  <2>3. QED
    BY <2>1, <2>2 DEF t
<1>10. ~(Landed(c) \/ Finger(c) \/ Lift(c) \/ Unlock(c))
  BY <1>2 DEF Landed, Finger, Lift, Unlock, Ready, q
<1>11. QED
  BY <1>4, <1>5, <1>6, <1>7, <1>8, <1>9, <1>10 DEF SettleStep

LEMMA TouchSteps ==
    ASSUME FingerIInv, NEW c \in Callers, SettleStep(c), touchMu = c
    PROVE  \/ touchMu' = c /\ TouchPlan(todo'[c]) /\ FingerFollows(todo'[c], fingerDown', touching', doubtful')
           \/ touchMu' = "free" /\ OtherPlan(todo'[c]) /\ Tracks(fingerDown', touching', doubtful')
<1> DEFINE q == todo[c]
           t == todo'[c]
<1> USE DEF ageVars, ownVars, fingerVars, phoneFinger
<1>1. Plan(q) /\ TouchPlan(q) /\ FingerFollows(q, fingerDown, touching, doubtful) /\ DOMAIN todo = Callers /\ fingerDown \in BOOLEAN /\ touching \in BOOLEAN /\ doubtful \in BOOLEAN
  BY DEF FingerIInv, Planned, LocksHeld, SettledTypes
<1>2. /\ q # <<>> /\ \A s : Has(Tail(q), s) => s \in Later(Head(q))
      /\ \A s : Has(q, s) <=> s = Head(q) \/ Has(Tail(q), s)
      /\ Head(q) \notin {"lock", "scroll", "click", "route"}
      /\ Head(q) \notin Ends => TouchPlan(Tail(q))
  <2>1. q # <<>>
    BY <1>1 DEF TouchPlan, Has
  <2>2. /\ \A s : Has(Tail(q), s) => s \in Later(Head(q))
        /\ \A s : Has(q, s) <=> s = Head(q) \/ Has(Tail(q), s)
    BY <1>1, <2>1, PlanRest
  <2>3. QED
    BY <1>1, <2>1, <2>2 DEF TouchPlan
<1>3. SUFFICES \/ touchMu' = c /\ TouchPlan(t) /\ FingerFollows(t, fingerDown', touching', doubtful')
               \/ touchMu' = "free" /\ OtherPlan(t) /\ Tracks(fingerDown', touching', doubtful')
  OBVIOUS
<1> HIDE DEF q, t
<1>4. ~BeginCall(c) /\ ~Lock(c) /\ ~Scroll(c) /\ ~Route(c)
  BY <1>2 DEF BeginCall, Lock, Scroll, Route, Ready, q
<1>5. CASE Wait(c) \/ Place(c) \/ MarkMoved(c) \/ Hold(c) \/ MarkReleased(c)
  <2>1. /\ t = Tail(q) /\ UNCHANGED <<fingerDown, touching, doubtful, touchMu>>
        /\ Head(q) \in {"waitMoved", "waitReleased", "place", "misplace", "markMoved", "hold", "unhold", "markReleased"}
    BY <1>1, <1>5
       DEF Wait, WaitFor, Place, MarkMoved, Hold, MarkReleased, Ready, Then, Rest, q, t
  <2>2. TouchPlan(t) /\ \A s \in {"finger", "release", "press"} : Has(t, s) <=> Has(q, s)
    BY <1>2, <2>1 DEF Ends
  <2>3. QED
    BY <1>1, <2>1, <2>2 DEF FingerFollows
<1>6. CASE Move(c)
  <2>1. /\ Head(q) = "move" /\ UNCHANGED <<fingerDown, touching, doubtful, touchMu>>
        /\ t = Tail(q) \/ t = <<"misplace", "markMoved", "unlock">>
    BY <1>1, <1>6, Spelled DEF Move, Ready, Then, Rest, Touching, q, t
  <2>2. \A s \in {"finger", "release", "press"} : ~Has(t, s) /\ ~Has(q, s)
    <3>1. \A s \in {"finger", "release", "press"} : ~Has(<<"misplace", "markMoved", "unlock">>, s)
      BY DEF Has
    <3>2. \A s \in {"finger", "release", "press"} : ~Has(Tail(q), s) /\ ~Has(q, s)
      BY <1>2, <2>1, LaterIs
    <3>3. QED
      BY <2>1, <3>1, <3>2
  <2>3. TouchPlan(t)
    BY <1>2, <2>1, WholeTouch DEF Ends
  <2>4. QED
    BY <1>1, <2>1, <2>2, <2>3 DEF FingerFollows
<1>7. CASE Press(c)
  <2>1. /\ Head(q) = "press" /\ UNCHANGED <<fingerDown, touchMu>>
        /\ \/ t = <<"hold", "finger", "unlock">> /\ touching' = TRUE
           \/ t = <<"hold", "unlock">> /\ doubtful' = TRUE
    BY <1>1, <1>7, Spelled DEF Press, TouchSent, Ready, Then, Rest, Touching, q, t
  <2>2. /\ \A s \in {"finger", "release", "press"} : ~Has(<<"hold", "unlock">>, s)
        /\ Has(<<"hold", "finger", "unlock">>, "finger")
        /\ \A s \in {"release", "press"} : ~Has(<<"hold", "finger", "unlock">>, s)
    BY DEF Has
  <2>3. TouchPlan(t)
    BY <2>1, WholeTouch
  <2>4. ~fingerDown
    BY <1>1, <1>2, <2>1 DEF FingerFollows
  <2>5. QED
    BY <1>1, <2>1, <2>2, <2>3, <2>4 DEF FingerFollows, Tracks
<1>8. CASE Release(c)
  <2>1. /\ Head(q) = "release" /\ UNCHANGED <<fingerDown, touchMu>> /\ t = Tail(q)
        /\ touching' = FALSE \/ doubtful' = TRUE
    BY <1>1, <1>2, <1>8 DEF Release, TouchSent, Ready, Then, Rest, Touching, q, t
  <2>2. \A s \in {"finger", "release", "press"} : ~Has(t, s)
    BY <1>2, <2>1, LaterIs
  <2>3. TouchPlan(t)
    BY <1>2, <2>1 DEF Ends
  <2>4. ~fingerDown
    BY <1>1, <1>2, <2>1 DEF FingerFollows
  <2>5. QED
    BY <1>1, <2>1, <2>2, <2>3, <2>4 DEF FingerFollows, Tracks
<1>9. CASE Landed(c)
  <2>1. /\ Head(q) = "landed" /\ UNCHANGED <<fingerDown, touching, doubtful, touchMu>>
        /\ t = IF fingerDown THEN <<"unlock">> ELSE MousePress
    BY <1>1, <1>9 DEF Landed, Ready, Then, q, t
  <2>2. Tracks(fingerDown, touching, doubtful)
    BY <1>1, <1>2, <2>1, LaterIs DEF FingerFollows
  <2>3. /\ \A s \in {"finger", "release", "press"} : ~Has(<<"unlock">>, s)
        /\ \A s \in {"finger", "release"} : ~Has(MousePress, s)
    BY DEF Has, MousePress
  <2>4. TouchPlan(t)
    BY <2>1, WholeTouch
  <2>5. QED
    BY <2>1, <2>2, <2>3, <2>4 DEF FingerFollows
<1>10. CASE Finger(c)
  <2>1. /\ Head(q) = "finger" /\ UNCHANGED <<touching, doubtful, touchMu>> /\ fingerDown' = TRUE /\ t = Tail(q)
    BY <1>1, <1>10 DEF Finger, Ready, Then, Rest, q, t
  <2>2. \A s \in {"finger", "release", "press"} : ~Has(t, s)
    BY <1>2, <2>1, LaterIs
  <2>3. TouchPlan(t)
    BY <1>2, <2>1 DEF Ends
  <2>4. touching = TRUE
    BY <1>1, <1>2, <2>1 DEF FingerFollows
  <2>5. QED
    BY <2>1, <2>2, <2>3, <2>4 DEF FingerFollows, Tracks
<1>11. CASE Lift(c)
  <2>1. /\ Head(q) = "lift" /\ UNCHANGED <<touching, doubtful, touchMu>> /\ fingerDown' = FALSE
        /\ t = IF fingerDown THEN <<"release", "unhold", "markReleased", "unlock">> ELSE <<"unlock">>
    BY <1>1, <1>11, Spelled DEF Lift, Ready, Then, q, t
  <2>2. Tracks(fingerDown, touching, doubtful)
    BY <1>1, <1>2, <2>1, LaterIs DEF FingerFollows
  <2>3. /\ \A s \in {"finger", "release", "press"} : ~Has(<<"unlock">>, s)
        /\ Has(<<"release", "unhold", "markReleased", "unlock">>, "release")
        /\ \A s \in {"finger", "press"} : ~Has(<<"release", "unhold", "markReleased", "unlock">>, s)
    BY DEF Has
  <2>4. TouchPlan(t)
    BY <2>1, WholeTouch
  <2>5. QED
    BY <1>1, <2>1, <2>2, <2>3, <2>4 DEF FingerFollows, Tracks
<1>12. CASE Unlock(c)
  <2>1. /\ Head(q) = "unlock" /\ UNCHANGED <<touching, doubtful, fingerDown>> /\ touchMu' = "free" /\ t = Tail(q)
    BY <1>1, <1>12 DEF Unlock, Ready, Then, Rest, q, t
  <2>2. /\ \A s : ~Has(t, s)
        /\ \A s \in {"finger", "release"} : ~Has(q, s)
    BY <1>2, <2>1, LaterIs
  <2>3. Tracks(fingerDown, touching, doubtful)
    BY <1>1, <2>2 DEF FingerFollows
  <2>4. QED
    BY <2>1, <2>2, <2>3 DEF OtherPlan
<1>13. QED
  BY <1>4, <1>5, <1>6, <1>7, <1>8, <1>9, <1>10, <1>11, <1>12 DEF SettleStep

LEMMA FingerStep == FingerIInv /\ [SettleNext]_settleVars => FingerIInv'
<1>1. SUFFICES ASSUME FingerIInv, [SettleNext]_settleVars PROVE FingerIInv'
  OBVIOUS
<1>2. SettledTypes'
  BY <1>1, SettledTyped DEF FingerIInv
<1>3. ASSUME NEW c \in Callers, SettleStep(c) PROVE FingerIInv'
  <2>1. Planned' /\ \A d \in Callers \ {c} : todo'[d] = todo[d]
    BY <1>1, <1>3, StepPlanned DEF FingerIInv
  <2>2. CASE touchMu = c
    <3>1. \A d \in Callers \ {c} : OtherPlan(todo'[d])
      BY <1>1, <2>1, <2>2 DEF FingerIInv, LocksHeld
    <3>2. QED
      BY <1>1, <1>2, <1>3, <2>1, <2>2, <3>1, TouchSteps, SettleConstants DEF FingerIInv, LocksHeld
  <2>3. CASE touchMu # c
    <3>1. CASE touchMu' = touchMu /\ OtherPlan(todo'[c])
      <4>1. LocksHeld'
        BY <1>1, <2>1, <2>3, <3>1 DEF FingerIInv, LocksHeld
      <4>2. UNCHANGED <<fingerDown, touching, doubtful>>
        BY <1>1, <1>3, <2>3, BystanderSteps
      <4>3. \A d \in Callers : touchMu' = d => FingerFollows(todo'[d], fingerDown', touching', doubtful')
        BY <1>1, <2>1, <2>3, <3>1, <4>2 DEF FingerIInv
      <4>4. QED
        BY <1>1, <1>2, <2>1, <3>1, <4>1, <4>2, <4>3 DEF FingerIInv
    <3>2. CASE /\ touchMu = "free" /\ touchMu' = c /\ TouchPlan(todo'[c])
               /\ \A s \in {"finger", "release", "press"} : ~Has(todo'[c], s)
      <4>1. LocksHeld'
        BY <1>1, <2>1, <2>3, <3>2, SettleConstants DEF FingerIInv, LocksHeld
      <4>2. UNCHANGED <<fingerDown, touching, doubtful>> /\ Tracks(fingerDown, touching, doubtful)
        BY <1>1, <1>3, <2>3, <3>2, BystanderSteps DEF FingerIInv
      <4>3. FingerFollows(todo'[c], fingerDown', touching', doubtful')
        BY <3>2, <4>2 DEF FingerFollows
      <4>4. QED
        BY <1>2, <2>1, <3>2, <4>1, <4>2, <4>3, SettleConstants DEF FingerIInv
    <3>3. QED
      BY <1>1, <1>3, <2>3, <3>1, <3>2, BystanderSteps
  <2>4. QED
    BY <2>2, <2>3
<1>4. CASE SetGlide \/ Tick \/ UNCHANGED settleVars
  <2>1. UNCHANGED <<todo, touchMu, fingerDown, touching, doubtful>>
    BY <1>4 DEF SetGlide, Tick, settleVars, fingerVars, phoneFinger
  <2>2. QED
    BY <1>1, <1>2, <2>1 DEF FingerIInv, Planned, LocksHeld
<1>5. QED
  BY <1>1, <1>3, <1>4 DEF SettleNext

LEMMA FingerInvariance == SettleSpec => []FingerIInv
<1>1. SettleInit => FingerIInv
  <2>1. SettleInit => SettledTypes /\ Planned
    BY GesturesInitiate DEF GesturesIInv
  <2>2. SettleInit => LocksHeld
    BY WholeOther, SettleConstants DEF SettleInit, LocksHeld
  <2>3. QED
    BY <2>1, <2>2, SettleConstants DEF SettleInit, FingerIInv, Tracks
<1>2. QED
  BY <1>1, FingerStep, PTL DEF SettleSpec

\* For any callers whose touches overlap and drag, where any press, release or
\* move may fail, having reached the target or not: while none is being
\* translated a finger noted down is down, and one that is down and not noted
\* so, or pressed again, is one whose last press or release has failed.
THEOREM FingerIsTracked == SettleSpec => []FingerTracksTouch
<1>1. FingerIInv => FingerTracksTouch
  <2>1. SUFFICES ASSUME FingerIInv, NEW c \in Callers, Ready(c, "press"), touchMu = c, touching
                 PROVE  doubtful
    BY DEF FingerTracksTouch, FingerIInv, Touching, Tracks
  <2>2. Has(todo[c], "press") /\ Plan(todo[c])
        /\ \A s : Has(todo[c], s) => s = "press" \/ s \in Later("press")
    BY <2>1, PlanRest DEF FingerIInv, Planned, Ready
  <2>3. ~Has(todo[c], "finger") /\ ~Has(todo[c], "release")
    BY <2>2, LaterIs
  <2>4. QED
    BY <2>1, <2>2, <2>3 DEF FingerIInv, FingerFollows, Tracks
<1>2. QED
  BY <1>1, FingerInvariance, PTL

-----------------------------------------------------------------------------
(* RotateMenu: a turn ends with the phone's orientation known.               *)

(***************************************************************************)
(* The walk through the menu.                                              *)
(***************************************************************************)

PhoneTyped ==
    /\ menu \in Pages /\ shown \in Pages /\ late \in 0..MaxLate
    /\ phoneHeld \in Ways /\ facing \in Ways /\ orientation \in Ways

FlagsTyped ==
    /\ canTurn \in BOOLEAN /\ landscape \in BOOLEAN /\ calm \in BOOLEAN /\ knew \in BOOLEAN
    /\ walk.flipped \in BOOLEAN /\ walk.ok \in BOOLEAN

WalkTyped ==
    /\ turnPc \in {"idle", "look", "choose", "act", "wait", "closeLook", "closeAct", "end"}
    /\ DOMAIN walk = DOMAIN NoWalk /\ DOMAIN closingMenu = DOMAIN NotClosing
    /\ walk.to \in Ways /\ walk.seen \in Known \cup {NoPage} /\ walk.from \in Known \cup {NoPage}
    /\ walk.expect \in Known \cup {NoPage, anyMenu} /\ closingMenu.was \in Known \cup {NoPage}

CountsTyped ==
    /\ walk.looks \in 0..MaxLooks /\ walk.presses \in 0..3 /\ walk.waits \in 0..3
    /\ closingMenu.presses \in 0..3 /\ closingMenu.tries \in 0..3
    /\ turnPc = "closeAct" => closingMenu.presses < 3

\* No page is none of the pages.
LEMMA NoPageApart == NoPage \notin {"top", "device", "rotate", "other", "any", "portrait", "landscape"}
  BY Zenon DEF NoPage

AppFaces == ~canTurn => facing = "portrait"

Right == landscape = (phoneHeld = "landscape")

\* Until the turn itself is clicked the screen is still. The Rotate page is
\* open only if clicks land, and they do after a flip.
WalkSteady ==
    calm /\ turnPc \in {"look", "choose", "act"} =>
        /\ Still /\ ~walk.ok
        /\ menu = "rotate" \/ walk.flipped => PointerLands
        /\ knew => Right

\* What the last click has done to the menu.
PageOf(p) == IF p = "other" THEN NoPage ELSE p
ClickTook ==
    \/ walk.expect = NoPage /\ ~walk.flipped /\ late = 0
    \/ walk.expect = anyMenu /\ walk.from = NoPage /\ PageOf(menu) \in {NoPage, "top"}
    \/ /\ \/ walk.from = "top" /\ walk.expect = "device"
          \/ walk.from = "device" /\ walk.expect = "rotate"
       /\ menu \in {walk.from, IF PointerLands THEN walk.expect ELSE NoPage}

\* A late picture shows the page of the click, and no longer than the walk
\* waits for it; so what the walk acts on is the page that is open.
ShowsFrom == walk.expect # NoPage /\ (late > 0 => PageOf(shown) = walk.from)
PictureLate ==
    /\ calm /\ turnPc \in {"look", "choose"} => ClickTook
    /\ calm /\ turnPc = "look" => late = 0 \/ (late + walk.waits <= MaxLate /\ ShowsFrom)
    /\ calm /\ turnPc = "choose" =>
          \/ late = 0 /\ walk.seen = PageOf(menu)
          \/ walk.seen = walk.from /\ late + walk.waits < MaxLate /\ ShowsFrom
    /\ calm /\ turnPc = "act" => late = 0 /\ walk.seen = PageOf(menu)

\* What a click, or button 5, is to show.
ClickPlanned ==
    turnPc = "act" =>
        /\ walk.from = walk.seen /\ walk.waits = 0
        /\ walk.seen = NoPage => walk.expect = anyMenu
        /\ walk.seen = "top" => walk.expect = "device"
        /\ walk.seen = "device" => walk.expect = "rotate"
        /\ walk.seen = "rotate" => walk.expect = NoPage

TurnTaken == calm /\ turnPc = "wait" => phoneHeld = walk.to

WayKept == calm /\ turnPc \in {"closeLook", "closeAct", "end"} /\ (walk.ok \/ knew) => Right

RotateTyped == PhoneTyped /\ FlagsTyped /\ WalkTyped /\ CountsTyped

RotateIInv ==
    RotateTyped /\ AppFaces /\ ClickPlanned /\ WalkSteady /\ PictureLate /\ TurnTaken /\ WayKept

LEMMA RotateTypesAgree == RotateTyped => RotateTypeOK
<1>1. FlagsTyped => {canTurn, landscape, calm, knew} \subseteq BOOLEAN
  BY DEF FlagsTyped
<1>2. PhoneTyped => {menu, shown} \subseteq Pages /\ {phoneHeld, facing, orientation} \subseteq Ways
  BY DEF PhoneTyped
<1>3. QED
  BY <1>1, <1>2 DEF RotateTyped, PhoneTyped, WalkTyped, CountsTyped, RotateTypeOK

LEMMA RotateInitiates == RotateInit => RotateIInv
<1>1. SUFFICES ASSUME RotateInit PROVE RotateIInv
  OBVIOUS
<1>2. PhoneTyped
  BY <1>1, RotateConstants DEF RotateInit, PhoneTyped, Pages, Ways
<1>3. FlagsTyped
  BY <1>1 DEF RotateInit, FlagsTyped, NoWalk
<1>4. WalkTyped
  BY <1>1 DEF RotateInit, WalkTyped, NoWalk, NotClosing, Known, Ways
<1>5. CountsTyped
  <2>1. walk = NoWalk /\ closingMenu = NotClosing /\ turnPc = "idle"
    BY <1>1 DEF RotateInit
  <2>2. /\ NoWalk.looks = 0 /\ NoWalk.presses = 0 /\ NoWalk.waits = 0
        /\ NotClosing.presses = 0 /\ NotClosing.tries = 0
    BY DEF NoWalk, NotClosing
  <2>3. QED
    BY <2>1, <2>2, RotateConstants DEF CountsTyped
<1>6. AppFaces /\ ClickPlanned /\ WalkSteady /\ PictureLate /\ TurnTaken /\ WayKept
  BY <1>1 DEF RotateInit, AppFaces, ClickPlanned, WalkSteady, PictureLate, TurnTaken, WayKept
<1>7. QED
  BY <1>2, <1>3, <1>4, <1>5, <1>6 DEF RotateIInv, RotateTyped

\* Where clicks land: they do if the way the phone is held is known.
LEMMA Landing ==
    ASSUME PhoneTyped, FlagsTyped, AppFaces, Still
    PROVE  /\ facing = "landscape" => PointerLands
           /\ facing = "portrait" => (PointerLands <=> Right)
           /\ Right => PointerLands
  BY DEF PhoneTyped, FlagsTyped, AppFaces, Still, PointerLands, pointerTurned, Right, Ways

LEMMA MenuTyped ==
    ASSUME PhoneTyped
    PROVE  /\ \A m \in Pages : MenuBecomes(m) => menu' \in Pages /\ shown' \in Pages /\ late' \in 0..MaxLate
           /\ MenuButton => menu' \in Pages /\ shown' \in Pages /\ late' \in 0..MaxLate /\ UNCHANGED <<phoneHeld, canTurn, facing>>
           /\ \A seen, next : ClickItem(seen, next) =>
                 /\ menu' \in Pages /\ shown' \in Pages /\ late' \in 0..MaxLate
                 /\ phoneHeld' \in Ways /\ UNCHANGED <<canTurn, facing>>
           /\ Look \/ BlindLook => menu' \in Pages /\ shown' \in Pages /\ late' \in 0..MaxLate /\ UNCHANGED <<phoneHeld, canTurn, facing>>
<1>1. ASSUME NEW m \in Pages, MenuBecomes(m) PROVE menu' \in Pages /\ shown' \in Pages /\ late' \in 0..MaxLate
  BY <1>1, RotateConstants DEF MenuBecomes, PhoneTyped
<1>2. {NoPage, "top", "other"} \subseteq Pages /\ Known \subseteq Pages /\ menu \in Pages
  BY DEF Pages, Known, PhoneTyped
<1>3. ASSUME NEW seen, NEW next, ClickItem(seen, next)
      PROVE  /\ menu' \in Pages /\ shown' \in Pages /\ late' \in 0..MaxLate
             /\ phoneHeld' \in Ways /\ UNCHANGED <<canTurn, facing>>
  BY <1>1, <1>2, <1>3 DEF ClickItem, PhoneTyped
<1>4. Look => menu' \in Pages /\ shown' \in Pages /\ late' \in 0..MaxLate /\ UNCHANGED <<phoneHeld, canTurn, facing>>
  BY <1>2, RotateConstants DEF Look, PhoneTyped
<1>5. UNCHANGED phoneVars => menu' \in Pages /\ shown' \in Pages /\ late' \in 0..MaxLate /\ UNCHANGED <<phoneHeld, canTurn, facing>>
  BY DEF phoneVars, PhoneTyped
<1>6. QED
  BY <1>1, <1>2, <1>3, <1>4, <1>5 DEF MenuButton, BlindLook

LEMMA PhoneStep == PhoneTyped /\ [RotateNext]_rotateVars => PhoneTyped'
<1>1. SUFFICES ASSUME PhoneTyped, [RotateNext]_rotateVars PROVE PhoneTyped'
  OBVIOUS
<1> USE DEF phoneVars
<1>2. CASE AppTurns \/ AppSwitches \/ OrientationSeen
  BY <1>1, <1>2 DEF AppTurns, AppSwitches, OrientationSeen, PhoneTyped, Ways
<1>3. CASE MenuClosesItself
  BY <1>1, <1>3, MenuTyped DEF MenuClosesItself, PhoneTyped, Pages
<1>4. CASE BeginTurn \/ LooksOver \/ Choose \/ waitOrientation \/ EndTurn \/ UNCHANGED rotateVars
  BY <1>1, <1>4 DEF BeginTurn, LooksOver, Choose, waitOrientation, EndTurn, rotateVars, PhoneTyped
<1>5. CASE lookAtMenu \/ CloseLook
  BY <1>1, <1>5, MenuTyped DEF lookAtMenu, CloseLook, PhoneTyped
<1>6. CASE Act \/ ActFails \/ CloseAct
  BY <1>1, <1>6, MenuTyped DEF Act, ActFails, CloseAct, PhoneTyped
<1>7. QED
  BY <1>1, <1>2, <1>3, <1>4, <1>5, <1>6 DEF RotateNext

LEMMA PageSeenTyped == PhoneTyped => PageSeen \in Known \cup {NoPage} /\ PageSeen # "other"
  BY NoPageApart DEF PhoneTyped, PageSeen, Pages, Known

\* The walk goes on with a click on what it saw, or a button 5.
LEMMA Proceeds ==
    ASSUME WalkTyped, NEW flipped, Proceed(flipped), ~(walk.seen = NoPage /\ walk.presses = 3)
    PROVE  /\ turnPc' = "act" /\ UNCHANGED closingMenu /\ DOMAIN walk' = DOMAIN walk
           /\ walk'.to = walk.to /\ walk'.seen = walk.seen /\ walk'.looks = walk.looks /\ walk'.ok = walk.ok
           /\ walk'.waits = 0 /\ walk'.from = walk.seen /\ walk'.flipped = flipped
           /\ walk'.presses = IF walk.seen = NoPage THEN walk.presses + 1 ELSE walk.presses
           /\ walk.seen = NoPage => walk'.expect = anyMenu
           /\ walk.seen = "top" => walk'.expect = "device"
           /\ walk.seen = "device" => walk'.expect = "rotate"
           /\ walk.seen = "rotate" => walk'.expect = NoPage
<1>1. /\ turnPc' = "act" /\ UNCHANGED closingMenu
      /\ walk' = [walk EXCEPT !.waits = 0, !.from = walk.seen, !.flipped = flipped,
                         !.presses = IF walk.seen = NoPage THEN walk.presses + 1 ELSE walk.presses,
                         !.expect = CASE walk.seen = "top" -> "device"
                                      [] walk.seen = "device" -> "rotate"
                                      [] walk.seen = "rotate" -> NoPage
                                      [] OTHER -> anyMenu]
  BY DEF Proceed
<1>2. DOMAIN walk = {"to", "seen", "looks", "presses", "waits", "from", "expect", "flipped", "ok"}
  BY DEF WalkTyped, NoWalk
<1>3. QED
  BY <1>1, <1>2, NoPageApart

LEMMA WalkStep == RotateTyped /\ [RotateNext]_rotateVars => WalkTyped' /\ CountsTyped'
<1>1. SUFFICES ASSUME PhoneTyped, WalkTyped, CountsTyped, [RotateNext]_rotateVars PROVE WalkTyped' /\ CountsTyped'
  BY DEF RotateTyped
<1>2. CASE AppTurns \/ AppSwitches \/ OrientationSeen \/ MenuClosesItself \/ UNCHANGED rotateVars
  BY <1>1, <1>2 DEF AppTurns, AppSwitches, OrientationSeen, MenuClosesItself, rotateVars, WalkTyped, CountsTyped
<1>3. CASE BeginTurn \/ EndTurn
  BY <1>1, <1>3, RotateConstants DEF BeginTurn, EndTurn, NoWalk, NotClosing, WalkTyped, CountsTyped, Ways
<1>4. CASE lookAtMenu
  <2>1. walk'.seen \in {PageSeen, NoPage} /\ DOMAIN walk' = DOMAIN walk /\ walk'.looks = walk.looks + 1
        /\ walk'.to = walk.to /\ walk'.from = walk.from /\ walk'.presses = walk.presses
        /\ walk'.waits = walk.waits /\ walk'.expect = walk.expect
    BY <1>1, <1>4 DEF lookAtMenu, WalkTyped, NoWalk
  <2>2. turnPc' = "choose" /\ UNCHANGED closingMenu /\ walk.looks < MaxLooks
    BY <1>4 DEF lookAtMenu
  <2>3. QED
    BY <1>1, <2>1, <2>2, RotateConstants, PageSeenTyped DEF WalkTyped, CountsTyped
<1>5. ASSUME NEW ok, Close(ok) PROVE WalkTyped' /\ CountsTyped'
  BY <1>1, <1>5, RotateConstants DEF Close, NoWalk, NotClosing, WalkTyped, CountsTyped, Ways
<1>6. ASSUME NEW flipped, Proceed(flipped), turnPc = "choose" PROVE WalkTyped' /\ CountsTyped'
  <2>1. CASE walk.seen = NoPage /\ walk.presses = 3
    BY <1>5, <1>6, <2>1 DEF Proceed
  <2>2. CASE ~(walk.seen = NoPage /\ walk.presses = 3)
    <3>1. /\ turnPc' = "act" /\ UNCHANGED closingMenu /\ DOMAIN walk' = DOMAIN walk
          /\ walk'.to = walk.to /\ walk'.seen = walk.seen /\ walk'.looks = walk.looks
          /\ walk'.waits = 0 /\ walk'.from = walk.seen
          /\ walk'.presses = IF walk.seen = NoPage THEN walk.presses + 1 ELSE walk.presses
      BY <1>1, <1>6, <2>2, Proceeds
    <3>2. walk'.expect \in Known \cup {NoPage, anyMenu}
      BY <1>1, <1>6, <2>2, Proceeds DEF WalkTyped, Known
    <3>3. QED
      BY <1>1, <2>2, <3>1, <3>2 DEF WalkTyped, CountsTyped
  <2>3. QED
    BY <2>1, <2>2
<1>7. CASE Choose
  <2>1. ASSUME walk.waits < 3, walk' = [walk EXCEPT !.waits = @ + 1], turnPc' = "look", UNCHANGED closingMenu
        PROVE  WalkTyped' /\ CountsTyped'
    BY <1>1, <2>1 DEF WalkTyped, CountsTyped, NoWalk
  <2>2. QED
    BY <1>5, <1>6, <1>7, <2>1 DEF Choose
<1>8. CASE LooksOver \/ waitOrientation
  BY <1>5, <1>8 DEF LooksOver, waitOrientation
<1>9. CASE Act \/ ActFails
  BY <1>1, <1>9 DEF Act, ActFails, WalkTyped, CountsTyped
<1>10. CASE CloseLook
  <2>1. /\ DOMAIN walk' = DOMAIN walk /\ walk'.to = walk.to /\ walk'.looks = walk.looks /\ walk'.seen \in {PageSeen, NoPage}
        /\ walk'.waits = walk.waits /\ walk'.from = walk.from /\ walk'.presses = walk.presses
        /\ walk'.expect = walk.expect
    BY <1>1, <1>10 DEF CloseLook, WalkTyped, NoWalk
  <2>2. /\ DOMAIN closingMenu' = DOMAIN closingMenu /\ closingMenu'.was = closingMenu.was
        /\ closingMenu'.presses = closingMenu.presses /\ closingMenu'.tries \in 0..3
        /\ turnPc' \in {"closeLook", "closeAct", "end"} /\ (turnPc' = "closeAct" => closingMenu.presses # 3)
    BY <1>1, <1>10 DEF CloseLook, WalkTyped, CountsTyped, NotClosing
  <2>3. QED
    BY <1>1, <2>1, <2>2, PageSeenTyped DEF WalkTyped, CountsTyped
<1>11. CASE CloseAct
  BY <1>1, <1>11 DEF CloseAct, WalkTyped, CountsTyped, NotClosing
<1>12. QED
  BY <1>1, <1>2, <1>3, <1>4, <1>7, <1>8, <1>9, <1>10, <1>11 DEF RotateNext

\* The fields of the walk after the steps that change only a few.
LEMMA WalkFields ==
    ASSUME WalkTyped
    PROVE  /\ BeginTurn => /\ walk'.flipped = FALSE /\ walk'.ok = FALSE /\ walk'.expect = NoPage
                           /\ walk'.waits = 0 /\ walk'.from = NoPage
           /\ lookAtMenu => /\ walk'.flipped = walk.flipped /\ walk'.ok = walk.ok /\ walk'.to = walk.to
                            /\ walk'.expect = walk.expect /\ walk'.from = walk.from
                            /\ walk'.waits = walk.waits /\ (calm' => walk'.seen = PageSeen)
           /\ walk' = [walk EXCEPT !.waits = walk.waits + 1] =>
                 /\ walk'.flipped = walk.flipped /\ walk'.ok = walk.ok /\ walk'.to = walk.to
                 /\ walk'.expect = walk.expect /\ walk'.from = walk.from
                 /\ walk'.waits = walk.waits + 1 /\ walk'.seen = walk.seen
           /\ CloseLook => walk'.flipped = walk.flipped /\ walk'.ok = walk.ok
           /\ \A ok : Close(ok) => /\ walk'.flipped = FALSE /\ walk'.ok = ok /\ turnPc' = "closeLook"
           /\ EndTurn => walk'.flipped = FALSE /\ walk'.ok = FALSE
<1>1. DOMAIN walk = {"to", "seen", "looks", "presses", "waits", "from", "expect", "flipped", "ok"}
  BY DEF WalkTyped, NoWalk
<1>2. BeginTurn => /\ walk'.flipped = FALSE /\ walk'.ok = FALSE /\ walk'.expect = NoPage
                   /\ walk'.waits = 0 /\ walk'.from = NoPage
  BY DEF BeginTurn, NoWalk
<1>3. lookAtMenu => /\ walk'.flipped = walk.flipped /\ walk'.ok = walk.ok /\ walk'.to = walk.to
                    /\ walk'.expect = walk.expect /\ walk'.from = walk.from
                    /\ walk'.waits = walk.waits /\ (calm' => walk'.seen = PageSeen)
  BY <1>1 DEF lookAtMenu
<1>4. walk' = [walk EXCEPT !.waits = walk.waits + 1] =>
         /\ walk'.flipped = walk.flipped /\ walk'.ok = walk.ok /\ walk'.to = walk.to
         /\ walk'.expect = walk.expect /\ walk'.from = walk.from
         /\ walk'.waits = walk.waits + 1 /\ walk'.seen = walk.seen
  BY <1>1
<1>5. CloseLook => walk'.flipped = walk.flipped /\ walk'.ok = walk.ok
  BY <1>1 DEF CloseLook
<1>6. \A ok : Close(ok) => /\ walk'.flipped = FALSE /\ walk'.ok = ok /\ turnPc' = "closeLook"
  BY DEF Close, NoWalk
<1>7. EndTurn => walk'.flipped = FALSE /\ walk'.ok = FALSE
  BY DEF EndTurn, NoWalk
<1>8. QED
  BY <1>2, <1>3, <1>4, <1>5, <1>6, <1>7

LEMMA FlagsStep == RotateTyped /\ [RotateNext]_rotateVars => FlagsTyped'
<1>1. SUFFICES ASSUME WalkTyped, FlagsTyped, [RotateNext]_rotateVars PROVE FlagsTyped'
  BY DEF RotateTyped
<1> USE DEF phoneVars
<1>2. ASSUME NEW ok \in BOOLEAN, Close(ok) PROVE walk'.flipped \in BOOLEAN /\ walk'.ok \in BOOLEAN
  BY <1>1, <1>2, WalkFields DEF Close
<1>3. ASSUME NEW flipped \in BOOLEAN, Proceed(flipped) PROVE walk'.flipped \in BOOLEAN /\ walk'.ok \in BOOLEAN
  <2>1. CASE walk.seen = NoPage /\ walk.presses = 3
    <3>1. Close(FALSE)
      BY <1>3, <2>1 DEF Proceed
    <3>2. QED
      BY <3>1, <1>2
  <2>2. CASE ~(walk.seen = NoPage /\ walk.presses = 3)
    <3>1. walk'.flipped = flipped /\ walk'.ok = walk.ok
      BY <1>1, <1>3, <2>2, Proceeds
    <3>2. QED
      BY <1>1, <1>3, <3>1, Zenon DEF FlagsTyped
  <2>3. QED
    BY <2>1, <2>2
<1>4. CASE AppTurns \/ MenuClosesItself \/ OrientationSeen \/ UNCHANGED rotateVars
  BY <1>1, <1>4, Zenon DEF AppTurns, MenuClosesItself, OrientationSeen, rotateVars, FlagsTyped
<1>5. CASE AppSwitches
  BY <1>1, <1>5, Zenon DEF AppSwitches, FlagsTyped
<1>6. CASE BeginTurn
  <2>1. walk'.flipped = FALSE /\ walk'.ok = FALSE
    BY <1>1, <1>6, WalkFields DEF BeginTurn
  <2>2. UNCHANGED <<canTurn, landscape>> /\ calm' \in BOOLEAN /\ knew' \in BOOLEAN
    BY <1>6, Zenon DEF BeginTurn
  <2>3. QED
    BY <1>1, <2>1, <2>2, Zenon DEF FlagsTyped
<1>7. CASE EndTurn
  <2>1. walk'.flipped = FALSE /\ walk'.ok = FALSE
    BY <1>1, <1>7, WalkFields DEF EndTurn
  <2>2. UNCHANGED <<canTurn, landscape>> /\ calm' \in BOOLEAN /\ knew' \in BOOLEAN
    BY <1>7, Zenon DEF EndTurn
  <2>3. QED
    BY <1>1, <2>1, <2>2, Zenon DEF FlagsTyped
<1>8. CASE lookAtMenu \/ CloseLook
  <2>1. walk'.flipped = walk.flipped /\ walk'.ok = walk.ok
    BY <1>1, <1>8, WalkFields DEF lookAtMenu, CloseLook
  <2>2. UNCHANGED <<canTurn, landscape, knew>> /\ calm' \in {calm, FALSE}
    BY <1>8 DEF lookAtMenu, CloseLook, Look, BlindLook
  <2>3. QED
    BY <1>1, <2>1, <2>2, Zenon DEF FlagsTyped
<1>9. CASE LooksOver
  BY <1>1, <1>2, <1>9, Zenon DEF LooksOver, FlagsTyped
<1>10. CASE waitOrientation
  BY <1>1, <1>2, <1>10, Zenon DEF waitOrientation, FlagsTyped
<1>11. CASE Choose
  <2>1. landscape' \in BOOLEAN
    BY <1>1, <1>11, Zenon DEF Choose, FlagsTyped
  <2>2. CASE walk' = [walk EXCEPT !.waits = walk.waits + 1]
    <3>1. walk'.flipped = walk.flipped /\ walk'.ok = walk.ok
      BY <1>1, <2>2, WalkFields
    <3>2. QED
      BY <1>1, <1>11, <2>1, <3>1, Zenon DEF Choose, FlagsTyped
  <2>3. CASE \E f \in BOOLEAN : Proceed(f) \/ Close(f)
    BY <1>1, <1>2, <1>3, <1>11, <2>1, <2>3, Zenon DEF Choose, FlagsTyped
  <2>4. \/ walk' = [walk EXCEPT !.waits = walk.waits + 1]
        \/ Proceed(walk.flipped) \/ Close(FALSE) \/ Proceed(TRUE)
    BY <1>11 DEF Choose
  <2>5. QED
    BY <1>1, <2>2, <2>3, <2>4, Zenon DEF FlagsTyped
<1>12. CASE Act \/ CloseAct \/ ActFails
  <2>1. UNCHANGED canTurn
    BY <1>12 DEF Act, CloseAct, ActFails, MenuButton, ClickItem
  <2>2. /\ UNCHANGED <<walk, knew>> /\ landscape' \in BOOLEAN /\ calm' \in BOOLEAN
    BY <1>1, <1>12, Zenon DEF Act, CloseAct, ActFails, FlagsTyped
  <2>3. QED
    BY <1>1, <2>1, <2>2, Zenon DEF FlagsTyped
<1>13. QED
  BY <1>1, <1>4, <1>5, <1>6, <1>7, <1>8, <1>9, <1>10, <1>11, <1>12 DEF RotateNext

LEMMA RotateTypedStep == RotateTyped /\ [RotateNext]_rotateVars => RotateTyped'
  BY PhoneStep, WalkStep, FlagsStep DEF RotateTyped

\* Steps outside the walk's own leave what it holds alone.
LEMMA FacesStep == RotateTyped /\ AppFaces /\ [RotateNext]_rotateVars => AppFaces'
<1>1. SUFFICES ASSUME PhoneTyped, AppFaces, [RotateNext]_rotateVars PROVE AppFaces'
  BY DEF RotateTyped
<1>2. CASE AppTurns
  BY <1>2, Zenon DEF AppTurns, AppFaces
<1>3. CASE AppSwitches
  BY <1>3, Zenon DEF AppSwitches, AppFaces
<1>4. CASE MenuClosesItself \/ OrientationSeen \/ BeginTurn \/ LooksOver \/ Choose \/ waitOrientation \/ EndTurn \/ UNCHANGED rotateVars
  BY <1>1, <1>4, Zenon DEF MenuClosesItself, OrientationSeen, BeginTurn, LooksOver, Choose, waitOrientation, EndTurn, rotateVars, phoneVars, AppFaces
<1>5. CASE lookAtMenu \/ CloseLook \/ Act \/ ActFails \/ CloseAct
  <2>1. UNCHANGED <<canTurn, facing>>
    BY <1>5, <1>1, MenuTyped DEF lookAtMenu, CloseLook, Act, ActFails, CloseAct, phoneVars
  <2>2. QED
    BY <1>1, <2>1, Zenon DEF AppFaces
<1>6. QED
  BY <1>1, <1>2, <1>3, <1>4, <1>5 DEF RotateNext

LEMMA PlannedStep == RotateTyped /\ ClickPlanned /\ [RotateNext]_rotateVars => ClickPlanned'
<1>1. SUFFICES ASSUME WalkTyped, ClickPlanned, [RotateNext]_rotateVars PROVE ClickPlanned'
  BY DEF RotateTyped
<1>2. CASE turnPc' # "act"
  BY <1>2 DEF ClickPlanned
<1>3. CASE UNCHANGED <<turnPc, walk>>
  BY <1>1, <1>3 DEF ClickPlanned
<1>4. ASSUME NEW flipped, Proceed(flipped), turnPc' = "act" PROVE ClickPlanned'
  <2>1. ~(walk.seen = NoPage /\ walk.presses = 3)
    BY <1>4 DEF Proceed, Close
  <2>2. QED
    BY <1>1, <1>4, <2>1, Proceeds DEF ClickPlanned
<1>5. CASE Choose /\ turnPc' = "act"
  BY <1>4, <1>5 DEF Choose, Close
<1>6. CASE ~Choose
  <2>1. turnPc' # "act" \/ UNCHANGED <<turnPc, walk>>
    BY <1>1, <1>6 DEF RotateNext, AppTurns, AppSwitches, MenuClosesItself, OrientationSeen, BeginTurn, lookAtMenu,
          LooksOver, Act, ActFails, waitOrientation, CloseLook, CloseAct, EndTurn, rotateVars, Close
  <2>2. QED
    BY <1>2, <1>3, <2>1
<1>7. QED
  BY <1>2, <1>5, <1>6

\* Where the picture stands when the walk goes on: what it saw is open, and a
\* page that it did not expect is the mark of a click that landed elsewhere.
LEMMA OnPage ==
    ASSUME RotateIInv, calm, turnPc = "choose"
    PROVE  /\ Expected \/ walk.seen # walk.from \/ walk.waits >= 3 => late = 0 /\ walk.seen = PageOf(menu)
           /\ ~Expected /\ walk.seen # walk.from =>
                 /\ ~PointerLands /\ ~Right /\ facing = "portrait" /\ orientation = "portrait"
                 /\ ~walk.flipped /\ ~knew /\ menu # "rotate"
<1>1. /\ PhoneTyped /\ FlagsTyped /\ WalkTyped /\ CountsTyped /\ AppFaces /\ Still /\ ClickTook
      /\ (menu = "rotate" \/ walk.flipped => PointerLands) /\ (knew => Right)
      /\ \/ late = 0 /\ walk.seen = PageOf(menu)
         \/ walk.seen = walk.from /\ late + walk.waits < MaxLate /\ ShowsFrom
  BY DEF RotateIInv, RotateTyped, WalkSteady, PictureLate
<1>2. Expected \/ walk.seen # walk.from \/ walk.waits >= 3 => late = 0 /\ walk.seen = PageOf(menu)
  <2>1. SUFFICES ASSUME walk.seen = walk.from, late + walk.waits < MaxLate, ShowsFrom, Expected \/ walk.waits >= 3
                 PROVE  FALSE
    BY <1>1
  <2>2. late \in Nat /\ walk.waits \in Nat /\ MaxLate \in Nat /\ MaxLate <= 3
    BY <1>1, RotateConstants DEF PhoneTyped, CountsTyped
  <2>3. walk.waits < 3
    BY <2>1, <2>2
  <2>4. Expected
    BY <2>1, <2>2, <2>3
  <2>5. QED
    BY <1>1, <2>1, <2>4, NoPageApart DEF Expected, ClickTook, ShowsFrom, anyMenu, WalkTyped, Known
<1>3. ASSUME ~Expected, walk.seen # walk.from
      PROVE  /\ ~PointerLands /\ ~Right /\ facing = "portrait" /\ orientation = "portrait"
             /\ ~walk.flipped /\ ~knew /\ menu # "rotate"
  <2>1. walk.seen = PageOf(menu)
    BY <1>2, <1>3
  <2>2. ~PointerLands
    <3>1. SUFFICES ASSUME PointerLands PROVE FALSE
      OBVIOUS
    <3>2. CASE walk.expect = NoPage \/ (walk.expect = anyMenu /\ walk.from = NoPage)
      BY <1>3, <3>2 DEF Expected
    <3>3. CASE /\ \/ walk.from = "top" /\ walk.expect = "device"
                  \/ walk.from = "device" /\ walk.expect = "rotate"
               /\ menu \in {walk.from, walk.expect}
      BY <1>3, <2>1, <3>3 DEF PageOf, Expected
    <3>4. QED
      BY <1>1, <3>1, <3>2, <3>3 DEF ClickTook
  <2>3. facing = "portrait" /\ ~Right
    BY <1>1, <2>2, Landing DEF PhoneTyped, Ways
  <2>4. QED
    BY <1>1, <2>2, <2>3 DEF Still
<1>4. QED
  BY <1>2, <1>3

\* The flip after such a page sets it right.
LEMMA Flip ==
    ASSUME RotateIInv, calm, turnPc = "choose", ~Expected, walk.seen # walk.from,
           landscape' = ~landscape, UNCHANGED <<phoneVars, orientation>>
    PROVE  Right' /\ PointerLands'
<1>1. ~Right /\ facing = "portrait" /\ landscape \in BOOLEAN
  BY OnPage DEF RotateIInv, RotateTyped, FlagsTyped
<1>2. Right'
  BY <1>1, Zenon DEF Right, phoneVars
<1>3. orientation = "portrait"
  BY OnPage
<1>4. UNCHANGED <<phoneHeld, facing, orientation>>
  BY DEF phoneVars
<1>5. landscape' = (phoneHeld' = "landscape") /\ facing' = "portrait" /\ orientation' = "portrait" /\ "portrait" # "landscape"
  BY <1>1, <1>2, <1>3, <1>4 DEF Right
<1>6. QED
  BY <1>2, <1>5, Zenon DEF PointerLands, pointerTurned

\* What a turn holds to, over each of its steps and the phone's.
Holds == WalkSteady /\ PictureLate /\ TurnTaken /\ WayKept

LEMMA PhoneKeeps ==
    ASSUME RotateIInv, AppTurns \/ AppSwitches \/ MenuClosesItself \/ OrientationSeen \/ UNCHANGED rotateVars
    PROVE  Holds'
<1>0. WalkSteady /\ PictureLate /\ TurnTaken /\ WayKept
  BY DEF RotateIInv
<1>1. CASE AppTurns \/ OrientationSeen
  <2>2. ~Still
    BY <1>1 DEF AppTurns, OrientationSeen, Still
  <2>3. UNCHANGED <<turnPc, calm, walk, landscape, phoneHeld, knew>>
    BY <1>1 DEF AppTurns, OrientationSeen, phoneVars
  <2>4. ~(calm /\ turnPc \in {"look", "choose", "act"})
    BY <1>0, <2>2 DEF WalkSteady
  <2>5. QED
    BY <1>0, <2>3, <2>4 DEF Holds, WalkSteady, PictureLate, TurnTaken, WayKept, Right
<1>2. CASE AppSwitches
  BY <1>2 DEF AppSwitches, Holds, WalkSteady, PictureLate, TurnTaken, WayKept
<1>3. CASE MenuClosesItself
  BY <1>3 DEF MenuClosesItself, Holds, WalkSteady, PictureLate, TurnTaken, WayKept
<1>4. CASE UNCHANGED rotateVars
  BY <1>0, <1>4 DEF rotateVars, phoneVars, Holds, WalkSteady, PictureLate, TurnTaken, WayKept, Right, Still,
        PointerLands, pointerTurned, ClickTook, ShowsFrom
<1>5. QED
  BY <1>1, <1>2, <1>3, <1>4

LEMMA BeginKeeps == ASSUME RotateIInv, BeginTurn PROVE Holds'
<1>1. /\ turnPc' = "look" /\ Still /\ calm' = (late = 0 /\ menu # "rotate")
      /\ UNCHANGED phoneVars /\ UNCHANGED <<orientation, landscape>>
  BY DEF BeginTurn
<1>2. knew' = Right
  BY DEF BeginTurn, Right
<1>3. walk'.flipped = FALSE /\ walk'.ok = FALSE /\ walk'.expect = NoPage
  BY WalkFields DEF RotateIInv, RotateTyped
<1>4. Still' /\ (Right' <=> Right)
  BY <1>1 DEF Still, Right, phoneVars
<1>5. calm' => late' = 0 /\ menu' # "rotate"
  BY <1>1 DEF phoneVars
<1>6. WalkSteady'
  BY <1>1, <1>2, <1>3, <1>4, <1>5 DEF WalkSteady
<1>7. PictureLate'
  BY <1>1, <1>3, <1>5 DEF PictureLate, ClickTook
<1>8. QED
  BY <1>1, <1>6, <1>7 DEF Holds, TurnTaken, WayKept

LEMMA LookKeeps == ASSUME RotateIInv, lookAtMenu PROVE Holds'
<1> SUFFICES ASSUME calm' PROVE Holds'
  BY DEF lookAtMenu, Holds, WalkSteady, PictureLate, TurnTaken, WayKept
<1>0. /\ Look /\ UNCHANGED <<calm, orientation, landscape, knew>>
      /\ turnPc = "look" /\ turnPc' = "choose"
      /\ late \in Nat /\ walk.waits \in Nat /\ MaxLate \in Nat
  <2>1. Look /\ UNCHANGED <<calm, orientation, landscape, knew>> /\ turnPc = "look" /\ turnPc' = "choose"
    BY DEF lookAtMenu
  <2>2. late \in Nat /\ walk.waits \in Nat /\ MaxLate \in Nat
    BY RotateConstants DEF RotateIInv, RotateTyped, PhoneTyped, CountsTyped
  <2>3. QED
    BY <2>1, <2>2
<1>1. /\ turnPc = "look" /\ turnPc' = "choose" /\ late \in Nat /\ walk.waits \in Nat /\ MaxLate \in Nat
      /\ UNCHANGED <<menu, phoneHeld, canTurn, facing, orientation, landscape, calm, knew>>
      /\ late' = IF late > 0 THEN late - 1 ELSE 0
      /\ shown' = IF late > 1 THEN shown ELSE NoPage
  BY <1>0 DEF Look
<1>2. /\ walk'.flipped = walk.flipped /\ walk'.ok = walk.ok /\ walk'.expect = walk.expect
      /\ walk'.from = walk.from /\ walk'.waits = walk.waits /\ walk'.seen = PageSeen
  BY WalkFields DEF RotateIInv, RotateTyped
<1>3. /\ WalkSteady /\ (calm => ClickTook)
      /\ (calm => late = 0 \/ (late + walk.waits <= MaxLate /\ ShowsFrom))
  BY <1>1 DEF RotateIInv, PictureLate
<1>4. PageSeen = IF late > 0 THEN PageOf(shown) ELSE PageOf(menu)
  BY DEF PageSeen, PageOf
<1>5. WalkSteady'
  <2>1. (PointerLands' <=> PointerLands) /\ (Right' <=> Right) /\ (Still' <=> Still)
    BY <1>1, Zenon DEF PointerLands, pointerTurned, Right, Still
  <2>2. calm' => calm /\ turnPc \in {"look", "choose", "act"}
    BY <1>1
  <2>3. QED
    BY <1>1, <1>2, <1>3, <2>1, <2>2 DEF WalkSteady
<1>6. PictureLate'
  <2>1. ASSUME calm PROVE ClickTook'
    <3>1. PointerLands' <=> PointerLands
      BY <1>1, Zenon DEF PointerLands, pointerTurned
    <3>2. QED
      BY <1>1, <1>2, <1>3, <2>1, <3>1 DEF ClickTook
  <2>2. ASSUME calm
        PROVE  \/ late' = 0 /\ walk'.seen = PageOf(menu')
               \/ walk'.seen = walk'.from /\ late' + walk'.waits < MaxLate /\ ShowsFrom'
    <3>1. CASE late = 0
      BY <1>1, <1>2, <1>4, <3>1
    <3>2. CASE late > 0
      <4>1. walk.expect # NoPage /\ PageOf(shown) = walk.from /\ late + walk.waits <= MaxLate
        BY <1>3, <2>2, <3>2 DEF ShowsFrom
      <4>2. late' > 0 => PageOf(shown') = walk.from
        BY <1>1, <3>2, <4>1
      <4>3. late' + walk'.waits < MaxLate
        BY <1>1, <1>2, <3>2, <4>1
      <4>4. QED
        BY <1>2, <1>4, <3>2, <4>1, <4>2, <4>3 DEF ShowsFrom
    <3>3. QED
      BY <1>1, <3>1, <3>2
  <2>3. QED
    BY <1>1, <2>1, <2>2 DEF PictureLate
<1>7. QED
  BY <1>1, <1>5, <1>6 DEF Holds, TurnTaken, WayKept

\* A walk that closes the menu without a turn.
LEMMA GivesUp ==
    ASSUME Close(FALSE), calm' /\ knew' => Right'
    PROVE  Holds'
<1>1. turnPc' = "closeLook" /\ walk'.ok = FALSE
  BY DEF Close, NoWalk
<1>2. QED
  BY <1>1 DEF Holds, WalkSteady, PictureLate, TurnTaken, WayKept

LEMMA ChooseKeeps == ASSUME RotateIInv, Choose PROVE Holds'
<1>1. /\ turnPc = "choose" /\ UNCHANGED phoneVars /\ UNCHANGED <<orientation, calm, knew>>
      /\ PhoneTyped /\ FlagsTyped /\ WalkTyped /\ CountsTyped /\ WalkSteady /\ PictureLate
  BY DEF Choose, RotateIInv, RotateTyped
<1>2. UNCHANGED <<menu, phoneHeld, canTurn, facing, shown, late>>
  BY <1>1 DEF phoneVars
<1>3. calm => /\ Still /\ ~walk.ok /\ (knew => Right) /\ (menu = "rotate" \/ walk.flipped => PointerLands)
  BY <1>1 DEF WalkSteady
<1>4. Still' <=> Still
  BY <1>1, <1>2, Zenon DEF Still
<1>5. ASSUME ~calm PROVE Holds'
  BY <1>1, <1>5 DEF Holds, WalkSteady, PictureLate, TurnTaken, WayKept
<1>6. ASSUME UNCHANGED landscape PROVE (PointerLands' <=> PointerLands) /\ (Right' <=> Right)
  BY <1>1, <1>2, <1>6, Zenon DEF PointerLands, pointerTurned, Right
<1>7. ASSUME calm, Proceed(walk.flipped), UNCHANGED landscape, Expected \/ walk.waits >= 3 PROVE Holds'
  <2>1. CASE walk.seen = NoPage /\ walk.presses = 3
    <3>1. Close(FALSE)
      BY <1>7, <2>1 DEF Proceed
    <3>2. knew' => Right'
      BY <1>1, <1>3, <1>6, <1>7
    <3>3. QED
      BY <3>1, <3>2, GivesUp
  <2>2. CASE ~(walk.seen = NoPage /\ walk.presses = 3)
    <3>1. turnPc' = "act" /\ walk'.seen = walk.seen /\ walk'.ok = walk.ok /\ walk'.flipped = walk.flipped
      BY <1>1, <1>7, <2>2, Proceeds
    <3>2. late = 0 /\ walk.seen = PageOf(menu)
      BY <1>1, <1>7, OnPage
    <3>3. WalkSteady'
      BY <1>1, <1>2, <1>3, <1>4, <1>6, <1>7, <3>1 DEF WalkSteady
    <3>4. QED
      BY <1>2, <3>1, <3>2, <3>3 DEF Holds, PictureLate, TurnTaken, WayKept
  <2>3. QED
    BY <2>1, <2>2
<1>8. ASSUME calm, ~Expected, walk.seen # walk.from, Proceed(TRUE), landscape' = ~landscape PROVE Holds'
  <2>1. Right' /\ PointerLands'
    BY <1>1, <1>8, Flip
  <2>2. CASE walk.seen = NoPage /\ walk.presses = 3
    <3>1. Close(FALSE)
      BY <1>8, <2>2 DEF Proceed
    <3>2. QED
      BY <2>1, <3>1, GivesUp
  <2>3. CASE ~(walk.seen = NoPage /\ walk.presses = 3)
    <3>1. turnPc' = "act" /\ walk'.seen = walk.seen /\ walk'.ok = walk.ok
      BY <1>1, <1>8, <2>3, Proceeds
    <3>2. late = 0 /\ walk.seen = PageOf(menu)
      BY <1>1, <1>8, OnPage
    <3>3. WalkSteady'
      BY <1>1, <1>3, <1>4, <1>8, <2>1, <3>1 DEF WalkSteady
    <3>4. QED
      BY <1>2, <3>1, <3>2, <3>3 DEF Holds, PictureLate, TurnTaken, WayKept
  <2>4. QED
    BY <2>2, <2>3
<1>9. ASSUME calm, ~Expected, walk.seen = walk.from, walk' = [walk EXCEPT !.waits = walk.waits + 1], turnPc' = "look",
             UNCHANGED landscape
      PROVE  Holds'
  <2>1. /\ walk'.flipped = walk.flipped /\ walk'.ok = walk.ok /\ walk'.expect = walk.expect
        /\ walk'.from = walk.from /\ walk'.waits = walk.waits + 1 /\ walk'.seen = walk.seen
    BY <1>1, <1>9, WalkFields
  <2>2. WalkSteady'
    BY <1>1, <1>2, <1>3, <1>4, <1>6, <1>9, <2>1 DEF WalkSteady
  <2>3. /\ ClickTook
        /\ \/ late = 0
           \/ late + walk.waits < MaxLate /\ ShowsFrom
    BY <1>1, <1>9 DEF PictureLate
  <2>4. ClickTook'
    BY <1>2, <1>6, <1>9, <2>1, <2>3 DEF ClickTook
  <2>5. late' = 0 \/ (late' + walk'.waits <= MaxLate /\ ShowsFrom')
    <3>1. late \in Nat /\ walk.waits \in Nat /\ MaxLate \in Nat
      BY <1>1, RotateConstants DEF PhoneTyped, CountsTyped
    <3>2. CASE late = 0
      BY <1>2, <3>2
    <3>3. CASE late + walk.waits < MaxLate /\ ShowsFrom
      <4>1. late' + walk'.waits <= MaxLate
        BY <1>2, <2>1, <3>1, <3>3
      <4>2. ShowsFrom'
        BY <1>2, <2>1, <3>3 DEF ShowsFrom
      <4>3. QED
        BY <4>1, <4>2
    <3>4. QED
      BY <2>3, <3>2, <3>3
  <2>6. QED
    BY <1>9, <2>2, <2>4, <2>5 DEF Holds, PictureLate, TurnTaken, WayKept
<1>10. QED
  <2>1. SUFFICES ASSUME calm PROVE Holds'
    BY <1>5
  <2>2. CASE Expected
    BY <1>7, <2>1, <2>2 DEF Choose
  <2>3. CASE ~Expected /\ walk.seen = walk.from /\ walk.waits < 3
    BY <1>9, <2>1, <2>3 DEF Choose
  <2>4. CASE ~Expected /\ walk.seen = walk.from /\ ~(walk.waits < 3)
    <3>1. walk.waits >= 3
      BY <1>1, <2>4 DEF CountsTyped
    <3>2. QED
      BY <1>7, <2>1, <2>4, <3>1 DEF Choose
  <2>5. CASE ~Expected /\ walk.seen # walk.from
    <3>1. ~(walk.flipped \/ orientation # "portrait")
      BY <1>1, <2>1, <2>5, OnPage
    <3>2. Proceed(TRUE) /\ landscape' = ~landscape
      BY <2>5, <3>1 DEF Choose
    <3>3. QED
      BY <1>8, <2>1, <2>5, <3>2
  <2>6. QED
    BY <2>2, <2>3, <2>4, <2>5

LEMMA ActKeeps == ASSUME RotateIInv, Act PROVE Holds'
<1>1. /\ turnPc = "act" /\ UNCHANGED <<orientation, walk, closingMenu, knew>>
      /\ calm' => calm /\ (walk.seen = "rotate" => phoneHeld' = walk.to)
      /\ PhoneTyped /\ FlagsTyped /\ WalkTyped /\ WalkSteady /\ PictureLate /\ ClickPlanned
      /\ turnPc' = IF walk.seen = "rotate" THEN "wait" ELSE "look"
  BY DEF Act, RotateIInv, RotateTyped
<1>2. SUFFICES ASSUME calm, calm' PROVE Holds'
  BY <1>1 DEF Holds, WalkSteady, PictureLate, TurnTaken, WayKept
<1>3. /\ Still /\ ~walk.ok /\ (knew => Right) /\ (menu = "rotate" \/ walk.flipped => PointerLands)
      /\ late = 0 /\ walk.seen = PageOf(menu) /\ walk.from = walk.seen /\ walk.waits = 0
  BY <1>1, <1>2 DEF WalkSteady, PictureLate, ClickPlanned
<1>4. UNCHANGED <<canTurn, facing>>
  BY <1>1, MenuTyped DEF Act
<1>5. ASSUME NEW p \in Pages, MenuBecomes(p)
      PROVE  menu' = p /\ (late' > 0 => shown' = menu) /\ late' \in 0..MaxLate /\ (p = menu => late' = 0)
  BY <1>3, <1>5, RotateConstants DEF MenuBecomes
<1>6. menu \in Pages /\ Known \subseteq Pages /\ {NoPage, "top", "other"} \subseteq Pages
  BY <1>1 DEF PhoneTyped, Pages, Known
<1>7. ASSUME late' \in 0..MaxLate, walk.expect # NoPage, late' > 0 => shown' = menu, UNCHANGED walk
      PROVE  late' = 0 \/ (late' + walk'.waits <= MaxLate /\ ShowsFrom')
  <2>1. CASE late' = 0
    BY <2>1
  <2>2. CASE late' # 0
    <3>1. late' \in Nat /\ late' <= MaxLate /\ late' > 0
      BY <1>7, <2>2, RotateConstants
    <3>2. late' + walk'.waits <= MaxLate
      BY <1>3, <1>7, <3>1, RotateConstants
    <3>3. PageOf(shown') = walk'.from
      BY <1>3, <1>7, <3>1
    <3>4. QED
      BY <1>7, <3>2, <3>3 DEF ShowsFrom
  <2>3. QED
    BY <2>1, <2>2
<1>8. CASE walk.seen = NoPage
  <2>1. MenuButton /\ landscape' = landscape /\ turnPc' = "look" /\ walk.expect = anyMenu
    BY <1>1, <1>8, NoPageApart, Zenon DEF Act, ClickPlanned, FlagsTyped
  <2>2. UNCHANGED <<phoneHeld, canTurn, facing>>
    BY <2>1 DEF MenuButton
  <2>3. /\ menu' \in {NoPage, "top", "other"} /\ (late' > 0 => shown' = menu) /\ late' \in 0..MaxLate
    BY <1>5, <1>6, <2>1 DEF MenuButton
  <2>4. (PointerLands' <=> PointerLands) /\ (Right' <=> Right) /\ (Still' <=> Still)
    BY <1>1, <2>1, <2>2, Zenon DEF PointerLands, pointerTurned, Right, Still
  <2>5. WalkSteady'
    BY <1>1, <1>2, <1>3, <2>1, <2>3, <2>4, NoPageApart DEF WalkSteady
  <2>6. ClickTook'
    BY <1>1, <1>3, <1>8, <2>1, <2>3, NoPageApart DEF ClickTook, PageOf
  <2>7. late' = 0 \/ (late' + walk'.waits <= MaxLate /\ ShowsFrom')
    BY <1>1, <1>7, <2>1, <2>3, NoPageApart DEF anyMenu
  <2>8. QED
    BY <2>1, <2>5, <2>6, <2>7 DEF Holds, PictureLate, TurnTaken, WayKept
<1>9. CASE walk.seen \in {"top", "device"}
  <2>1. menu = walk.seen
    BY <1>3, <1>9, NoPageApart DEF PageOf
  <2>2. /\ ClickItem(walk.seen, walk.expect) /\ landscape' = landscape /\ turnPc' = "look"
        /\ walk.expect \in {"device", "rotate"}
        /\ \/ walk.from = "top" /\ walk.expect = "device"
           \/ walk.from = "device" /\ walk.expect = "rotate"
    <3>1. walk.seen # NoPage /\ walk.seen # "rotate" /\ NextItem = walk.expect
      BY <1>1, <1>9, NoPageApart DEF NextItem, ClickPlanned
    <3>2. landscape' = landscape
      BY <1>1, <3>1, Zenon DEF Act, FlagsTyped
    <3>3. QED
      BY <1>1, <1>3, <1>9, <3>1, <3>2 DEF Act, ClickPlanned
  <2>3. /\ UNCHANGED <<phoneHeld, canTurn, facing>>
        /\ \E p \in {menu, IF PointerLands THEN walk.expect ELSE NoPage} : MenuBecomes(p)
    BY <2>1, <2>2 DEF ClickItem, Ways
  <2>4. {menu, IF PointerLands THEN walk.expect ELSE NoPage} \subseteq Pages
    BY <1>6, <2>2 DEF Known
  <2>5. /\ menu' \in {menu, IF PointerLands THEN walk.expect ELSE NoPage}
        /\ (late' > 0 => shown' = menu) /\ late' \in 0..MaxLate
    BY <1>5, <2>3, <2>4
  <2>6. (PointerLands' <=> PointerLands) /\ (Right' <=> Right) /\ (Still' <=> Still)
    BY <1>1, <2>2, <2>3, Zenon DEF PointerLands, pointerTurned, Right, Still
  <2>7. WalkSteady'
    BY <1>1, <1>2, <1>3, <1>9, <2>1, <2>2, <2>5, <2>6, NoPageApart DEF WalkSteady
  <2>8. ClickTook'
    BY <1>1, <1>3, <2>1, <2>2, <2>5, <2>6 DEF ClickTook
  <2>9. late' = 0 \/ (late' + walk'.waits <= MaxLate /\ ShowsFrom')
    BY <1>1, <1>7, <2>2, <2>5, NoPageApart
  <2>10. QED
    BY <2>2, <2>7, <2>8, <2>9 DEF Holds, PictureLate, TurnTaken, WayKept
<1>10. CASE walk.seen = "rotate"
  <2>1. turnPc' = "wait" /\ phoneHeld' = walk.to
    BY <1>1, <1>2, <1>10
  <2>2. QED
    BY <1>1, <2>1 DEF Holds, WalkSteady, PictureLate, TurnTaken, WayKept
<1>11. QED
  BY <1>1, <1>8, <1>9, <1>10 DEF WalkTyped, Known

LEMMA WalkEndKeeps ==
    ASSUME RotateIInv, LooksOver \/ ActFails \/ waitOrientation \/ CloseLook \/ CloseAct \/ EndTurn
    PROVE  Holds'
<1>1. WalkSteady /\ PictureLate /\ TurnTaken /\ WayKept /\ WalkTyped /\ FlagsTyped
  BY DEF RotateIInv, RotateTyped
<1>2. CASE LooksOver
  <2>1. /\ Close(FALSE) /\ turnPc = "look" /\ UNCHANGED <<phoneHeld, landscape, calm, knew>>
    BY <1>2 DEF LooksOver, phoneVars
  <2>2. calm' /\ knew' => Right'
    BY <1>1, <2>1 DEF WalkSteady, Right
  <2>3. QED
    BY <2>1, <2>2, GivesUp
<1>3. CASE ActFails
  <2>1. turnPc' = "end" /\ turnPc \in {"act", "closeAct"} /\ UNCHANGED <<landscape, walk, knew>>
    BY <1>3 DEF ActFails
  <2>2. calm' => calm /\ UNCHANGED phoneHeld
    <3>1. UNCHANGED <<phoneVars, calm>> \/ calm' = FALSE
      BY <1>3 DEF ActFails
    <3>2. QED
      BY <3>1, Zenon DEF phoneVars
  <2>3. QED
    BY <1>1, <2>1, <2>2 DEF Holds, WalkSteady, PictureLate, TurnTaken, WayKept, Right
<1>4. CASE waitOrientation
  <2>1. turnPc = "wait" /\ Close(TRUE) /\ UNCHANGED <<phoneHeld, calm>> /\ landscape' = (walk.to = "landscape")
    BY <1>4 DEF waitOrientation, phoneVars
  <2>2. turnPc' = "closeLook"
    BY <2>1 DEF Close
  <2>3. calm' => Right'
    BY <1>1, <2>1 DEF TurnTaken, Right
  <2>4. QED
    BY <2>2, <2>3 DEF Holds, WalkSteady, PictureLate, TurnTaken, WayKept
<1>5. CASE CloseLook
  <2>1. /\ turnPc = "closeLook" /\ turnPc' \in {"closeLook", "closeAct", "end"}
        /\ UNCHANGED <<phoneHeld, landscape, calm, knew>>
    BY <1>5 DEF CloseLook, Look, BlindLook, phoneVars
  <2>2. walk'.ok = walk.ok
    BY <1>1, <1>5, WalkFields
  <2>3. QED
    BY <1>1, <2>1, <2>2 DEF Holds, WalkSteady, PictureLate, TurnTaken, WayKept, Right
<1>6. CASE CloseAct
  <2>1. /\ turnPc = "closeAct" /\ turnPc' = "closeLook" /\ UNCHANGED <<phoneHeld, landscape, walk, calm, knew>>
    BY <1>6 DEF CloseAct, MenuButton
  <2>2. QED
    BY <1>1, <2>1 DEF Holds, WalkSteady, PictureLate, TurnTaken, WayKept, Right
<1>7. CASE EndTurn
  BY <1>7 DEF EndTurn, Holds, WalkSteady, PictureLate, TurnTaken, WayKept
<1>8. QED
  BY <1>2, <1>3, <1>4, <1>5, <1>6, <1>7

LEMMA RotateStep == RotateIInv /\ [RotateNext]_rotateVars => RotateIInv'
<1>1. SUFFICES ASSUME RotateIInv, [RotateNext]_rotateVars PROVE RotateIInv'
  OBVIOUS
<1>2. RotateTyped' /\ AppFaces' /\ ClickPlanned'
  BY <1>1, RotateTypedStep, FacesStep, PlannedStep DEF RotateIInv
<1>3. Holds'
  BY <1>1, PhoneKeeps, BeginKeeps, LookKeeps, ChooseKeeps, ActKeeps, WalkEndKeeps DEF RotateNext
<1>4. QED
  BY <1>2, <1>3 DEF RotateIInv, Holds

\* A turn that is through, or given up, knows which way the phone takes itself
\* to be held, for any number of looks and any lateness of the picture the walk
\* allows for, unless what it cannot tell from a missed click happened, or a
\* click on the turn itself did not take (TurnKnowsPhone lists the cases).
THEOREM TurnEndsRight == RotateSpec => []TurnKnowsPhone
<1>1. RotateIInv => TurnKnowsPhone
  BY DEF RotateIInv, WayKept, TurnKnowsPhone, Right
<1>2. QED
  BY <1>1, RotateInitiates, RotateStep, PTL DEF RotateSpec

\* Every variable of the turn keeps to its type.
THEOREM TurnIsTyped == RotateSpec => []RotateTypeOK
<1>1. RotateIInv => RotateTypeOK
  BY RotateTypesAgree DEF RotateIInv
<1>2. QED
  BY <1>1, RotateInitiates, RotateStep, PTL DEF RotateSpec

-----------------------------------------------------------------------------
(* BiDiSession: what the backend holds is noted, and the session is served.  *)

\* What asks the backend for an input, and what lets go of it.
Presses(d) == IF d = "finger" THEN touch({"finger"}) ELSE press(d)
Lets(d) == IF d = "finger" THEN touch({}) ELSE release(d)
HidSteps == {Presses(d) : d \in HidInputs} \cup {Lets(d) : d \in HidInputs} \cup {collect, lifted}

HeldInputs == [heldKeys : Seq({"x", "shift"}), shiftFor : SUBSET {"x"}, heldButtons : SUBSET {"left"},
               touchState : {"none", "down", "up"}]

SessionsTyped ==
    /\ bidiActive \in BiDiSessions \cup {NoSession}
    /\ session \in [BiDiSessions -> [owner : Conns \cup {"nobody"}, input : HeldInputs]]
    /\ conn \in [Conns -> {"gone", "open", "closed"}]
    /\ down \subseteq HidInputs

KeysBounded == \A s \in BiDiSessions : Len(session[s].input.heldKeys) <= MaxHeld

ThreadsTyped ==
    /\ thread \in [Threads -> [mode : {"free", "acting", "releasing", "dropping", "closing"},
                               on : BiDiSessions \cup {NoSession}, todo : Seq(HidSteps)]]
    /\ \A t \in Threads : thread[t].on = NoSession => thread[t].mode # "acting" /\ thread[t].todo = <<>>
    /\ \A t \in Threads : thread[t].mode = "free" => thread[t].on = NoSession

RacesTyped == mixed \in BOOLEAN /\ cut \in BOOLEAN

\* The active session's connection has a handler that has yet to drop it.
OwnerServed ==
    bidiActive # NoSession =>
        LET c == session[bidiActive].owner
        IN  c \in Conns /\ conn[c] # "gone" /\ thread[Handler(c)].mode # "dropping"

\* The elements of a sequence.
Elems(q) == {q[i] : i \in 1..Len(q)}

\* A thread that releases has all it holds to collect, or releases left to make.
\* One that acts may lose, when a call fails, no release but a Shift's; a finger
\* is forgotten after the report without it.
Releases == {Lets(d) : d \in HidInputs}
TodoShape(r) ==
    LET q == r.todo
    IN  IF r.mode = "acting"
        THEN /\ collect \notin Elems(q)
             /\ q # <<>> => \A d \in HidInputs : Lets(d) \in Elems(Tail(q)) => d = "shift"
             /\ lifted \in Elems(q) => q = <<lifted>> \/ q = <<Lets("finger"), lifted>>
        ELSE q = <<collect>> \/ Elems(q) \subseteq Releases

\* Without a race, who acts does so with the active session, and alone; what it
\* has yet to press is noted; a finger about to be forgotten is off the screen.
Lone(t) ==
    /\ thread[t].on = bidiActive
    /\ \A u \in Threads \ {t} : thread[u].on # thread[t].on
Noting(t) ==
    \A d \in HidInputs :
        Presses(d) \in Elems(thread[t].todo) => d \in InputHeld(session[thread[t].on].input)
LiftReady(t) == thread[t].todo = <<lifted>> => "finger" \notin down
Alone ==
    ~mixed => \A t \in Threads :
        thread[t].mode = "acting" => Lone(t) /\ Noting(t) /\ LiftReady(t)

\* What a thread has yet to let go.
Owes(t, d) ==
    \/ Lets(d) \in Elems(thread[t].todo)
    \/ thread[t].todo = <<collect>> /\ d \in InputHeld(session[thread[t].on].input)
Accounted ==
    ~mixed /\ ~cut => \A d \in down : d \in Noted \/ \E t \in Threads : Owes(t, d)

ServedInv == SessionsTyped /\ KeysBounded /\ ThreadsTyped /\ RacesTyped /\ OwnerServed
Shaped == \A t \in Threads : TodoShape(thread[t])
HeldInv == Shaped /\ Alone /\ Accounted

LEMMA StepsApart ==
    /\ \A d, e \in HidInputs : Presses(d) # Lets(e) /\ (Presses(d) = Presses(e) => d = e) /\ (Lets(d) = Lets(e) => d = e)
    /\ \A d \in HidInputs : collect \notin {Presses(d), Lets(d)} /\ lifted \notin {Presses(d), Lets(d)}
    /\ collect # lifted
    /\ press("x") = Presses("x") /\ press("shift") = Presses("shift") /\ press("left") = Presses("left")
    /\ touch({"finger"}) = Presses("finger")
    /\ release("x") = Lets("x") /\ release("shift") = Lets("shift") /\ release("left") = Lets("left")
    /\ touch({}) = Lets("finger")
    /\ {"x", "shift", "left", "finger"} = HidInputs
<1>1. {"x", "shift", "left", "finger"} = HidInputs
  BY DEF HidInputs
<1>2. \A d, e \in HidInputs : Presses(d) # Lets(e)
  BY DEF HidInputs, Presses, Lets, press, release, touch
<1>3. \A d, e \in HidInputs : Presses(d) = Presses(e) => d = e
  BY DEF HidInputs, Presses, press, touch
<1>4. \A d, e \in HidInputs : Lets(d) = Lets(e) => d = e
  BY DEF HidInputs, Lets, release, touch
<1>5. \A d \in HidInputs : collect \notin {Presses(d), Lets(d)} /\ lifted \notin {Presses(d), Lets(d)}
  BY DEF HidInputs, Presses, Lets, press, release, touch, collect, lifted
<1>6. collect # lifted
  BY DEF collect, lifted
<1>7. /\ press("x") = Presses("x") /\ press("shift") = Presses("shift") /\ press("left") = Presses("left")
      /\ touch({"finger"}) = Presses("finger")
      /\ release("x") = Lets("x") /\ release("shift") = Lets("shift") /\ release("left") = Lets("left")
      /\ touch({}) = Lets("finger")
  BY DEF Presses, Lets
<1>8. QED
  BY <1>1, <1>2, <1>3, <1>4, <1>5, <1>6, <1>7

\* What a HID call does.
CallOf(step) ==
    /\ step[1] \in {"press", "release", "touch"}
    /\ down' = CASE step[1] = "press" -> down \cup {step[2]}
                 [] step[1] = "release" -> down \ {step[2]}
                 [] OTHER -> (down \ {"finger"}) \cup step[2]

LEMMA CallDoes ==
    /\ \A d \in HidInputs : CallOf(Presses(d)) => down' = down \cup {d}
    /\ \A d \in HidInputs : CallOf(Lets(d)) => down' = down \ {d}
    /\ ~CallOf(collect) /\ ~CallOf(lifted)
<1>1. ASSUME NEW d \in HidInputs, CallOf(Presses(d)) PROVE down' = down \cup {d}
  <2>1. CASE d = "finger"
    BY <1>1, <2>1 DEF CallOf, Presses, touch
  <2>2. CASE d # "finger"
    BY <1>1, <2>2 DEF CallOf, Presses, press
  <2>3. QED
    BY <2>1, <2>2
<1>2. ASSUME NEW d \in HidInputs, CallOf(Lets(d)) PROVE down' = down \ {d}
  <2>1. CASE d = "finger"
    BY <1>2, <2>1 DEF CallOf, Lets, touch
  <2>2. CASE d # "finger"
    BY <1>2, <2>2 DEF CallOf, Lets, release
  <2>3. QED
    BY <2>1, <2>2
<1>3. ~CallOf(collect) /\ ~CallOf(lifted)
  BY DEF CallOf, collect, lifted
<1>4. QED
  BY <1>1, <1>2, <1>3

LEMMA ElemsAre ==
    ASSUME NEW S, NEW q \in Seq(S)
    PROVE  /\ Range(q) = Elems(q) /\ Elems(q) \subseteq S
           /\ \A a \in S : Append(q, a) \in Seq(S) /\ Elems(Append(q, a)) = Elems(q) \cup {a}
           /\ q # <<>> => /\ Head(q) \in S /\ Tail(q) \in Seq(S) /\ Elems(q) = {Head(q)} \cup Elems(Tail(q))
                          /\ Len(Tail(q)) = Len(q) - 1
<1>1. DOMAIN q = 1..Len(q) /\ Len(q) \in Nat /\ \A i \in 1..Len(q) : q[i] \in S
  OBVIOUS
<1>2. Range(q) = Elems(q) /\ Elems(q) \subseteq S
  BY <1>1 DEF Range, Elems
<1>3. ASSUME NEW a \in S PROVE Append(q, a) \in Seq(S) /\ Elems(Append(q, a)) = Elems(q) \cup {a}
  <2>1. /\ Append(q, a) \in Seq(S) /\ Len(Append(q, a)) = Len(q) + 1
        /\ \A i \in 1..Len(q) : Append(q, a)[i] = q[i]
        /\ Append(q, a)[Len(q) + 1] = a
    OBVIOUS
  <2>2. 1..Len(q) + 1 = 1..Len(q) \cup {Len(q) + 1}
    BY <1>1
  <2>3. QED
    BY <1>1, <2>1, <2>2 DEF Elems
<1>4. ASSUME q # <<>>
      PROVE  /\ Head(q) \in S /\ Tail(q) \in Seq(S) /\ Elems(q) = {Head(q)} \cup Elems(Tail(q))
             /\ Len(Tail(q)) = Len(q) - 1
  <2>1. /\ Head(q) = q[1] /\ Tail(q) \in Seq(S) /\ Len(Tail(q)) = Len(q) - 1 /\ Len(q) > 0
        /\ \A i \in 1..Len(q) - 1 : Tail(q)[i] = q[i + 1]
    BY <1>4
  <2>2. ASSUME NEW i \in 1..Len(q) PROVE q[i] \in {Head(q)} \cup Elems(Tail(q))
    <3>1. CASE i = 1
      BY <2>1, <3>1
    <3>2. CASE i # 1
      <4>1. i - 1 \in 1..Len(q) - 1 /\ (i - 1) + 1 = i
        BY <1>1, <2>2, <3>2
      <4>2. q[i] = Tail(q)[i - 1]
        BY <2>1, <4>1
      <4>3. QED
        BY <2>1, <4>1, <4>2 DEF Elems
    <3>3. QED
      BY <3>1, <3>2
  <2>3. ASSUME NEW i \in 1..Len(Tail(q)) PROVE Tail(q)[i] \in Elems(q)
    <3>1. i + 1 \in 1..Len(q) /\ Tail(q)[i] = q[i + 1]
      BY <1>1, <2>1, <2>3
    <3>2. QED
      BY <3>1 DEF Elems
  <2>4. Head(q) \in Elems(q)
    BY <1>1, <2>1 DEF Elems
  <2>5. Elems(q) = {Head(q)} \cup Elems(Tail(q))
    BY <2>2, <2>3, <2>4 DEF Elems
  <2>6. QED
    BY <1>1, <2>1, <2>5
<1>5. QED
  BY <1>2, <1>3, <1>4

LEMMA ElemsOfConcat ==
    ASSUME NEW S, NEW q \in Seq(S), NEW r \in Seq(S)
    PROVE  q \o r \in Seq(S) /\ Elems(q \o r) = Elems(q) \cup Elems(r) /\ Len(q \o r) = Len(q) + Len(r)
<1>1. /\ q \o r \in Seq(S) /\ Len(q \o r) = Len(q) + Len(r) /\ Len(q) \in Nat /\ Len(r) \in Nat
      /\ \A i \in 1..Len(q) + Len(r) : (q \o r)[i] = IF i <= Len(q) THEN q[i] ELSE r[i - Len(q)]
  OBVIOUS
<1>2. ASSUME NEW i \in 1..Len(q \o r) PROVE (q \o r)[i] \in Elems(q) \cup Elems(r)
  <2>1. CASE i <= Len(q)
    BY <1>1, <1>2, <2>1 DEF Elems
  <2>2. CASE ~(i <= Len(q))
    <3>1. i - Len(q) \in 1..Len(r)
      BY <1>1, <1>2, <2>2
    <3>2. QED
      BY <1>1, <1>2, <2>2, <3>1 DEF Elems
  <2>3. QED
    BY <2>1, <2>2
<1>3. ASSUME NEW i \in 1..Len(q) PROVE q[i] \in Elems(q \o r)
  <2>1. i \in 1..Len(q) + Len(r) /\ (q \o r)[i] = q[i]
    BY <1>1, <1>3
  <2>2. QED
    BY <1>1, <2>1 DEF Elems
<1>4. ASSUME NEW i \in 1..Len(r) PROVE r[i] \in Elems(q \o r)
  <2>1. i + Len(q) \in 1..Len(q) + Len(r) /\ ~(i + Len(q) <= Len(q)) /\ (i + Len(q)) - Len(q) = i
    BY <1>1, <1>4
  <2>2. (q \o r)[i + Len(q)] = r[i]
    BY <1>1, <2>1
  <2>3. QED
    BY <1>1, <2>1, <2>2 DEF Elems
<1>5. QED
  BY <1>1, <1>2, <1>3, <1>4 DEF Elems

\* The least of a set of naturals.
LEMMA LeastOf ==
    ASSUME NEW I, I \subseteq Nat, I # {}
    PROVE  \E n \in I : \A m \in I : n <= m
<1>1. PICK z \in I : z \in Nat
  OBVIOUS
<1> DEFINE S == 0..z
           J == {i \in I : i <= z}
           T == {0..i : i \in J}
<1>2. IsFiniteSet(S) /\ S = 0..z
  BY <1>1, FS_Interval
<1>3. T \subseteq FiniteSubsetsOf(S)
  <2>1. ASSUME NEW i \in J PROVE 0..i \in FiniteSubsetsOf(S)
    <3>1. 0..i \subseteq S
      BY <1>1
    <3>2. IsFiniteSet(0..i)
      BY <1>2, <3>1, FS_Subset
    <3>3. QED
      BY <3>1, <3>2 DEF FiniteSubsetsOf
  <2>2. QED
    BY <2>1
<1>4. z \in J /\ T # {}
  BY <1>1
<1> HIDE DEF S, T
<1>5. IsWellFoundedOn(StrictSubsetOrdering(S), FiniteSubsetsOf(S))
  BY FS_StrictSubsetOrderingWellFounded
<1>6. PICK x \in T : \A y \in T : <<y, x>> \notin StrictSubsetOrdering(S)
  BY <1>3, <1>4, <1>5, WFMin
<1>7. PICK n \in J : x = 0..n
  BY <1>6 DEF T
<1>8. ASSUME NEW m \in J, m < n PROVE FALSE
  <2>1. 0..m \in T
    BY <1>8 DEF T
  <2>2. 0..m \subseteq 0..n /\ n \in 0..n /\ n \notin 0..m
    BY <1>8, <1>7
  <2>3. 0..m \in SUBSET S /\ 0..n \in SUBSET S
    BY <1>3, <1>6, <1>7, <2>1 DEF FiniteSubsetsOf
  <2>4. <<0..m, x>> \in StrictSubsetOrdering(S)
    BY <1>7, <2>2, <2>3 DEF StrictSubsetOrdering
  <2>5. QED
    BY <1>6, <2>1, <2>4
<1>9. n \in I /\ \A m \in I : n <= m
  BY <1>1, <1>7, <1>8
<1>10. QED
  BY <1>9

\* A key let go is held no more than once less; the others are as they were.
LEMMA KeyRemoved ==
    ASSUME NEW S, NEW q \in Seq(S), NEW k
    PROVE  /\ removeKey(q, k) \in Seq(S) /\ Len(removeKey(q, k)) <= Len(q)
           /\ Elems(q) \ {k} \subseteq Elems(removeKey(q, k))
<1>1. Len(q) \in Nat /\ \A i \in 1..Len(q) : q[i] \in S
  OBVIOUS
<1>2. CASE ~\E i \in 1..Len(q) : q[i] = k
  BY <1>1, <1>2 DEF removeKey, Contains
<1>3. CASE \E i \in 1..Len(q) : q[i] = k
  <2> DEFINE I == {i \in 1..Len(q) : q[i] = k}
             n == Min(I)
             l == SubSeq(q, 1, n - 1)
             r == SubSeq(q, n + 1, Len(q))
  <2>1. I # {} /\ I \subseteq Nat
    BY <1>3
  <2>2. removeKey(q, k) = l \o r
    BY <1>3, <2>1 DEF removeKey, Contains, RemoveFirst, RemoveAt, SelectInSeq
  <2>3. n \in I
    BY <2>1, LeastOf DEF Min
  <2>4. n \in 1..Len(q) /\ q[n] = k
    BY <2>3
  <2> HIDE DEF n
  <2>5. /\ l \in Seq(S) /\ r \in Seq(S) /\ Len(l) = n - 1 /\ Len(r) = Len(q) - n
        /\ \A i \in 1..n - 1 : l[i] = q[i]
        /\ \A i \in 1..Len(q) - n : r[i] = q[n + i]
    BY <1>1, <2>4
  <2> HIDE DEF l, r
  <2>10. /\ l \o r \in Seq(S) /\ Elems(l \o r) = Elems(l) \cup Elems(r)
         /\ Len(l \o r) = Len(l) + Len(r)
    BY <2>5, ElemsOfConcat
  <2>6. /\ l \o r \in Seq(S) /\ Elems(l \o r) = Elems(l) \cup Elems(r)
        /\ Len(l \o r) = Len(q) - 1
    BY <1>1, <2>4, <2>5, <2>10
  <2>7. ASSUME NEW i \in 1..Len(q), i # n PROVE q[i] \in Elems(l) \cup Elems(r)
    <3>1. CASE i < n
      BY <1>1, <2>4, <2>5, <3>1 DEF Elems
    <3>2. CASE i > n
      <4>1. i - n \in 1..Len(q) - n /\ n + (i - n) = i
        BY <1>1, <2>4, <3>2
      <4>2. QED
        BY <2>5, <4>1 DEF Elems
    <3>3. QED
      BY <1>1, <2>4, <2>7, <3>1, <3>2
  <2>8. Elems(q) \ {k} \subseteq Elems(l) \cup Elems(r)
    BY <2>4, <2>7 DEF Elems
  <2>9. QED
    BY <1>1, <2>2, <2>6, <2>8
<1>4. QED
  BY <1>2, <1>3

\* Short sequences.
LEMMA ShortSeqs ==
    /\ Elems(<<>>) = {}
    /\ \A a : Elems(<<a>>) = {a} /\ <<a>> # <<>> /\ Head(<<a>>) = a /\ Tail(<<a>>) = <<>>
    /\ \A a, b : /\ Elems(<<a, b>>) = {a, b} /\ <<a, b>> # <<>> /\ Head(<<a, b>>) = a
                 /\ Tail(<<a, b>>) = <<b>>
    /\ \A a, b : <<a>> = <<b>> => a = b
    /\ \A a, b, c : <<a>> # <<b, c>>
<1>1. Elems(<<>>) = {}
  BY DEF Elems
<1>2. ASSUME NEW a PROVE Elems(<<a>>) = {a} /\ <<a>> # <<>> /\ Head(<<a>>) = a /\ Tail(<<a>>) = <<>>
  <2>1. Len(<<a>>) = 1 /\ 1..1 = {1} /\ <<a>>[1] = a
    OBVIOUS
  <2>2. Elems(<<a>>) = {a}
    BY <2>1 DEF Elems
  <2>3. QED
    BY <2>2
<1>3. ASSUME NEW a, NEW b
      PROVE  /\ Elems(<<a, b>>) = {a, b} /\ <<a, b>> # <<>> /\ Head(<<a, b>>) = a
             /\ Tail(<<a, b>>) = <<b>>
  <2>1. Len(<<a, b>>) = 2 /\ 1..2 = {1, 2} /\ <<a, b>>[1] = a /\ <<a, b>>[2] = b
    OBVIOUS
  <2>2. Elems(<<a, b>>) = {a, b}
    BY <2>1 DEF Elems
  <2>3. QED
    BY <2>2
<1>4. \A a, b : <<a>> = <<b>> => a = b
  OBVIOUS
<1>5. \A a, b, c : <<a>> # <<b, c>>
  OBVIOUS
<1>6. QED
  BY <1>1, <1>2, <1>3, <1>4, <1>5

\* What an input holds.
LEMMA HeldIs ==
    ASSUME NEW i \in HeldInputs, BiDiConstants
    PROVE  /\ InputHeld(i) = Elems(i.heldKeys) \cup i.heldButtons
                             \cup (IF i.touchState = "none" THEN {} ELSE {"finger"})
           /\ InputHeld(i) \subseteq HidInputs
           /\ Held(i) <= MaxHeld => Len(i.heldKeys) <= MaxHeld
<1>1. /\ i.heldKeys \in Seq({"x", "shift"}) /\ i.heldButtons \subseteq {"left"}
      /\ i.touchState \in {"none", "down", "up"}
  BY DEF HeldInputs
<1>2. Range(i.heldKeys) = Elems(i.heldKeys) /\ Elems(i.heldKeys) \subseteq {"x", "shift"}
  BY <1>1, ElemsAre
<1>3. Cardinality(i.heldButtons) \in Nat
  <2>1. IsFiniteSet({"left"})
    BY FS_Singleton
  <2>2. IsFiniteSet(i.heldButtons)
    BY <1>1, <2>1, FS_Subset
  <2>3. QED
    BY <2>2, FS_CardinalityType
<1>4. Held(i) <= MaxHeld => Len(i.heldKeys) <= MaxHeld
  <2>1. Len(i.heldKeys) \in Nat /\ MaxHeld \in Nat
    BY <1>1 DEF BiDiConstants
  <2>2. (IF i.touchState = "none" THEN 0 ELSE 1) \in Nat
    OBVIOUS
  <2>3. QED
    BY <1>3, <2>1, <2>2 DEF Held
<1>5. QED
  BY <1>1, <1>2, <1>4 DEF InputHeld, HidInputs

LEMMA NothingHeld == NoInput \in HeldInputs /\ InputHeld(NoInput) = {} /\ Len(NoInput.heldKeys) = 0
<1>1. NoInput \in HeldInputs
  BY DEF NoInput, HeldInputs
<1>2. Range(<<>>) = {}
  BY DEF Range
<1>3. QED
  BY <1>1, <1>2 DEF NoInput, InputHeld

\* What notes a change of a session's input, and the calls that follow.
NoteOK(t, input, steps) ==
    /\ input \in HeldInputs /\ steps \in Seq(HidSteps)
    /\ collect \notin Elems(steps)
    /\ steps # <<>> => \A d \in HidInputs : Lets(d) \in Elems(Tail(steps)) => d = "shift"
    /\ lifted \in Elems(steps) => steps = <<Lets("finger"), lifted>>
    /\ \A d \in HidInputs : Presses(d) \in Elems(steps) => d \in InputHeld(input)
    /\ \A d \in InputHeld(Input(t)) : d \in InputHeld(input) \/ Lets(d) \in Elems(steps)

LEMMA OneStep ==
    ASSUME NEW t, NEW input \in HeldInputs, NEW d \in HidInputs, NEW step \in {Presses(d), Lets(d)},
           step = Presses(d) => d \in InputHeld(input),
           InputHeld(Input(t)) \subseteq HidInputs,
           \A e \in InputHeld(Input(t)) : e \in InputHeld(input) \/ (e = d /\ step = Lets(d))
    PROVE  NoteOK(t, input, <<step>>)
<1>1. step \in HidSteps /\ step # collect /\ step # lifted /\ <<step>> \in Seq(HidSteps)
  BY StepsApart DEF HidSteps
<1>2. Elems(<<step>>) = {step} /\ Tail(<<step>>) = <<>> /\ Elems(<<>>) = {} /\ <<step>> # <<>>
  BY ShortSeqs
<1>3. \A e \in HidInputs : Presses(e) \in Elems(<<step>>) => e \in InputHeld(input)
  BY <1>2, StepsApart
<1>4. QED
  BY <1>1, <1>2, <1>3 DEF NoteOK

LEMMA TwoSteps ==
    ASSUME NEW t, NEW input \in HeldInputs, NEW d \in {"x", "shift"}, InputHeld(Input(t)) \subseteq HidInputs
    PROVE  /\ d \in InputHeld(input) /\ "shift" \in InputHeld(input) /\ InputHeld(Input(t)) \subseteq InputHeld(input)
                => NoteOK(t, input, <<Presses("shift"), Presses(d)>>)
           /\ InputHeld(Input(t)) \ {d, "shift"} \subseteq InputHeld(input)
                => NoteOK(t, input, <<Lets(d), Lets("shift")>>)
<1>1. d \in HidInputs /\ "shift" \in HidInputs
  BY DEF HidInputs
<1>2. ASSUME NEW a \in HidSteps, NEW b \in HidSteps, a \notin {collect, lifted}, b \notin {collect, lifted}
      PROVE  /\ <<a, b>> \in Seq(HidSteps) /\ Elems(<<a, b>>) = {a, b} /\ Elems(Tail(<<a, b>>)) = {b}
             /\ collect \notin Elems(<<a, b>>) /\ lifted \notin Elems(<<a, b>>)
  BY <1>2, ShortSeqs
<1>3. Presses("shift") \in HidSteps /\ Presses(d) \in HidSteps /\ Lets("shift") \in HidSteps /\ Lets(d) \in HidSteps
  BY <1>1 DEF HidSteps
<1>4. /\ \A e \in HidInputs : collect \notin {Presses(e), Lets(e)} /\ lifted \notin {Presses(e), Lets(e)}
      /\ \A e, f \in HidInputs : /\ Presses(e) # Lets(f) /\ (Presses(e) = Presses(f) => e = f)
                                 /\ (Lets(e) = Lets(f) => e = f)
  BY StepsApart
<1>5. ASSUME d \in InputHeld(input), "shift" \in InputHeld(input), InputHeld(Input(t)) \subseteq InputHeld(input)
      PROVE  NoteOK(t, input, <<Presses("shift"), Presses(d)>>)
  <2> DEFINE q == <<Presses("shift"), Presses(d)>>
  <2>1. /\ q \in Seq(HidSteps) /\ Elems(q) = {Presses("shift"), Presses(d)} /\ Elems(Tail(q)) = {Presses(d)}
        /\ collect \notin Elems(q) /\ lifted \notin Elems(q)
    BY <1>1, <1>2, <1>3, <1>4
  <2>2. \A e \in HidInputs : Lets(e) \notin Elems(Tail(q))
    BY <1>1, <1>4, <2>1
  <2>3. \A e \in HidInputs : Presses(e) \in Elems(q) => e \in InputHeld(input)
    BY <1>1, <1>4, <1>5, <2>1
  <2>4. QED
    BY <1>5, <2>1, <2>2, <2>3 DEF NoteOK
<1>6. ASSUME InputHeld(Input(t)) \ {d, "shift"} \subseteq InputHeld(input)
      PROVE  NoteOK(t, input, <<Lets(d), Lets("shift")>>)
  <2> DEFINE q == <<Lets(d), Lets("shift")>>
  <2>1. /\ q \in Seq(HidSteps) /\ Elems(q) = {Lets(d), Lets("shift")} /\ Elems(Tail(q)) = {Lets("shift")}
        /\ collect \notin Elems(q) /\ lifted \notin Elems(q)
    BY <1>1, <1>2, <1>3, <1>4
  <2>2. \A e \in HidInputs : Lets(e) \in Elems(Tail(q)) => e = "shift"
    BY <1>1, <1>4, <2>1
  <2>3. \A e \in HidInputs : Presses(e) \notin Elems(q)
    BY <1>1, <1>4, <2>1
  <2>4. \A e \in InputHeld(Input(t)) : e \in InputHeld(input) \/ Lets(e) \in Elems(q)
    BY <1>6, <2>1
  <2>5. QED
    BY <2>1, <2>2, <2>3, <2>4 DEF NoteOK
<1>7. QED
  BY <1>5, <1>6

Notes(t) == \E input, steps : Acting(t) /\ NoteOK(t, input, steps) /\ Note(t, input, steps)

\* Every action but the last of a thread that acts is such a note.
LEMMA ActionNotes ==
    ASSUME BiDiConstants, NEW t, Input(t) \in HeldInputs, Action(t)
    PROVE  Notes(t) \/ EndActions(t)
<1> DEFINE i == Input(t)
<1>1. /\ i \in HeldInputs /\ InputHeld(i) \subseteq HidInputs
      /\ i.heldKeys \in Seq({"x", "shift"}) /\ i.shiftFor \subseteq {"x"}
      /\ i.heldButtons \subseteq {"left"} /\ i.touchState \in {"none", "down", "up"}
  BY HeldIs DEF HeldInputs
<1>2. ASSUME NEW j \in HeldInputs
      PROVE  InputHeld(j) = Elems(j.heldKeys) \cup j.heldButtons
                            \cup (IF j.touchState = "none" THEN {} ELSE {"finger"})
  BY <1>2, HeldIs
<1>3. InputHeld(i) = Elems(i.heldKeys) \cup i.heldButtons
                     \cup (IF i.touchState = "none" THEN {} ELSE {"finger"})
  BY <1>1, <1>2
<1> HIDE DEF i
<1>4. ASSUME NEW v, KeyDown(t, v) PROVE Notes(t)
  <2> DEFINE k == bidiKeyToHID(v)
             addShift == bidiKeyNeedsShift(v) /\ ~shiftHeld(i.heldKeys)
             one == [i EXCEPT !.heldKeys = Append(@, k)]
             two == [i EXCEPT !.heldKeys = @ \o <<"shift", k>>, !.shiftFor = @ \cup {k}]
  <2>1. k \in {"x", "shift"} /\ Acting(t) /\ k \in HidInputs
    BY <1>4 DEF KeyDown, bidiKeyToHID, HidInputs
  <2>2. CASE addShift
    <3>1. k = "x"
      BY <2>2 DEF bidiKeyToHID, bidiKeyNeedsShift
    <3>2. Note(t, two, <<press("shift"), press(k)>>)
      BY <1>4, <2>2 DEF KeyDown, i
    <3> HIDE DEF k
    <3>3. /\ <<"shift", k>> \in Seq({"x", "shift"}) /\ Elems(<<"shift", k>>) = {"shift", k}
      BY <2>1, ShortSeqs
    <3>4. /\ i.heldKeys \o <<"shift", k>> \in Seq({"x", "shift"})
          /\ Elems(i.heldKeys \o <<"shift", k>>) = Elems(i.heldKeys) \cup {"shift", k}
      <4> DEFINE q == i.heldKeys
                 r == <<"shift", k>>
      <4>1. q \in Seq({"x", "shift"}) /\ r \in Seq({"x", "shift"}) /\ Elems(r) = {"shift", k}
        BY <1>1, <3>3
      <4> HIDE DEF q, r
      <4>2. q \o r \in Seq({"x", "shift"}) /\ Elems(q \o r) = Elems(q) \cup Elems(r)
        BY <4>1, ElemsOfConcat
      <4>3. QED
        BY <4>1, <4>2 DEF q, r
    <3>5. /\ two.heldKeys = i.heldKeys \o <<"shift", k>> /\ two.heldButtons = i.heldButtons
          /\ two.touchState = i.touchState /\ two.shiftFor = i.shiftFor \cup {k} /\ two \in HeldInputs
      BY <1>1, <3>1, <3>4 DEF HeldInputs
    <3> HIDE DEF two
    <3>6. InputHeld(two) = InputHeld(i) \cup {"shift", k}
      BY <1>2, <1>3, <3>4, <3>5
    <3>7. NoteOK(t, two, <<Presses("shift"), Presses(k)>>)
      BY <1>1, <2>1, <3>5, <3>6, TwoSteps DEF i
    <3>8. press("shift") = Presses("shift") /\ press(k) = Presses(k)
      BY <2>1, StepsApart
    <3>9. QED
      BY <2>1, <3>2, <3>7, <3>8 DEF Notes
  <2>3. CASE ~addShift
    <3>1. Note(t, one, <<press(k)>>)
      BY <1>4, <2>3 DEF KeyDown, i
    <3>2. /\ Append(i.heldKeys, k) \in Seq({"x", "shift"})
          /\ Elems(Append(i.heldKeys, k)) = Elems(i.heldKeys) \cup {k}
      BY <1>1, <2>1, ElemsAre
    <3>3. /\ one.heldKeys = Append(i.heldKeys, k) /\ one.heldButtons = i.heldButtons
          /\ one.touchState = i.touchState /\ one \in HeldInputs
      BY <1>1, <3>2 DEF HeldInputs
    <3> HIDE DEF one, k
    <3>4. InputHeld(one) = InputHeld(i) \cup {k}
      BY <1>2, <1>3, <3>2, <3>3
    <3>5. press(k) = Presses(k)
      BY <2>1, StepsApart
    <3>6. NoteOK(t, one, <<Presses(k)>>)
      BY <1>1, <2>1, <3>3, <3>4, OneStep DEF i
    <3>7. QED
      BY <2>1, <3>1, <3>5, <3>6 DEF Notes
  <2>4. QED
    BY <2>2, <2>3
<1>5. ASSUME NEW v, KeyUp(t, v) PROVE Notes(t)
  <2> DEFINE k == bidiKeyToHID(v)
             keys == removeKey(i.heldKeys, k)
             rest == removeKey(keys, "shift")
             one == [i EXCEPT !.heldKeys = keys]
             two == [i EXCEPT !.heldKeys = rest, !.shiftFor = @ \ {k}]
  <2>1. k \in {"x", "shift"} /\ Acting(t) /\ k \in HidInputs
    BY <1>5 DEF KeyUp, bidiKeyToHID, HidInputs
  <2>2. keys \in Seq({"x", "shift"}) /\ Elems(i.heldKeys) \ {k} \subseteq Elems(keys)
    BY <1>1, KeyRemoved
  <2>3. CASE k \in i.shiftFor
    <3>1. Note(t, two, <<release(k), release("shift")>>)
      BY <1>5, <2>3 DEF KeyUp, i
    <3> HIDE DEF keys, k
    <3>2. rest \in Seq({"x", "shift"}) /\ Elems(keys) \ {"shift"} \subseteq Elems(rest)
      BY <2>2, KeyRemoved
    <3> HIDE DEF rest
    <3>3. /\ two.heldKeys = rest /\ two.heldButtons = i.heldButtons
          /\ two.touchState = i.touchState /\ two \in HeldInputs
      BY <1>1, <3>2 DEF HeldInputs
    <3> HIDE DEF two
    <3>4. InputHeld(i) \ {k, "shift"} \subseteq InputHeld(two)
      BY <1>2, <1>3, <2>2, <3>2, <3>3
    <3>5. NoteOK(t, two, <<Lets(k), Lets("shift")>>)
      BY <1>1, <2>1, <3>3, <3>4, TwoSteps DEF i
    <3>6. release("shift") = Lets("shift") /\ release(k) = Lets(k)
      BY <2>1, StepsApart
    <3>7. QED
      BY <2>1, <3>1, <3>5, <3>6 DEF Notes
  <2>4. CASE k \notin i.shiftFor
    <3>1. Note(t, one, <<release(k)>>)
      BY <1>5, <2>4 DEF KeyUp, i
    <3> HIDE DEF keys, k
    <3>2. /\ one.heldKeys = keys /\ one.heldButtons = i.heldButtons
          /\ one.touchState = i.touchState /\ one \in HeldInputs
      BY <1>1, <2>2 DEF HeldInputs
    <3> HIDE DEF one
    <3>3. InputHeld(i) \ {k} \subseteq InputHeld(one)
      BY <1>2, <1>3, <2>2, <3>2
    <3>4. release(k) = Lets(k) /\ Lets(k) # Presses(k)
      BY <2>1, StepsApart
    <3>5. NoteOK(t, one, <<Lets(k)>>)
      BY <1>1, <2>1, <3>2, <3>3, <3>4, OneStep DEF i
    <3>6. QED
      BY <2>1, <3>1, <3>4, <3>5 DEF Notes
  <2>5. QED
    BY <2>3, <2>4
<1>6. "left" \in HidInputs /\ "finger" \in HidInputs
  BY DEF HidInputs
<1>7. ASSUME NEW v, PointerDown(t, v) PROVE Notes(t)
  <2>1. CASE v = "left" /\ Note(t, [i EXCEPT !.heldButtons = @ \cup {v}], <<press(v)>>)
    <3> DEFINE j == [i EXCEPT !.heldButtons = @ \cup {v}]
    <3>1. /\ j.heldKeys = i.heldKeys /\ j.heldButtons = i.heldButtons \cup {"left"}
          /\ j.touchState = i.touchState /\ j \in HeldInputs
      BY <1>1, <2>1 DEF HeldInputs
    <3> HIDE DEF j
    <3>2. InputHeld(j) = InputHeld(i) \cup {"left"}
      BY <1>2, <1>3, <3>1
    <3>3. NoteOK(t, j, <<Presses("left")>>)
      BY <1>1, <1>6, <3>1, <3>2, OneStep DEF i
    <3>4. press(v) = Presses("left") /\ Note(t, j, <<press(v)>>)
      BY <2>1, StepsApart DEF j
    <3>5. QED
      BY <1>7, <3>3, <3>4 DEF Notes, PointerDown
  <2>2. CASE v = "finger" /\ Note(t, [i EXCEPT !.touchState = "down"], <<touch({v})>>)
    <3> DEFINE j == [i EXCEPT !.touchState = "down"]
    <3>1. /\ j.heldKeys = i.heldKeys /\ j.heldButtons = i.heldButtons
          /\ j.touchState = "down" /\ j \in HeldInputs
      BY <1>1, <2>2 DEF HeldInputs
    <3> HIDE DEF j
    <3>2. InputHeld(j) = InputHeld(i) \cup {"finger"}
      BY <1>2, <1>3, <3>1
    <3>3. NoteOK(t, j, <<Presses("finger")>>)
      BY <1>1, <1>6, <3>1, <3>2, OneStep DEF i
    <3>4. touch({v}) = Presses("finger") /\ Note(t, j, <<touch({v})>>)
      BY <2>2, StepsApart DEF j
    <3>5. QED
      BY <1>7, <3>3, <3>4 DEF Notes, PointerDown
  <2>3. QED
    BY <1>7, <2>1, <2>2 DEF PointerDown, i
<1>8. ASSUME NEW v, PointerUp(t, v) PROVE Notes(t)
  <2>1. CASE v = "left" /\ Note(t, [i EXCEPT !.heldButtons = @ \ {v}], <<release(v)>>)
    <3> DEFINE j == [i EXCEPT !.heldButtons = @ \ {v}]
    <3>1. /\ j.heldKeys = i.heldKeys /\ j.heldButtons = i.heldButtons \ {"left"}
          /\ j.touchState = i.touchState /\ j \in HeldInputs
      BY <1>1, <2>1 DEF HeldInputs
    <3> HIDE DEF j
    <3>2. InputHeld(i) \ {"left"} \subseteq InputHeld(j)
      BY <1>2, <1>3, <3>1
    <3>3. Lets("left") # Presses("left")
      BY <1>6, StepsApart
    <3>4. NoteOK(t, j, <<Lets("left")>>)
      BY <1>1, <1>6, <3>1, <3>2, <3>3, OneStep DEF i
    <3>5. release(v) = Lets("left") /\ Note(t, j, <<release(v)>>)
      BY <2>1, StepsApart DEF j
    <3>6. QED
      BY <1>8, <3>4, <3>5 DEF Notes, PointerUp
  <2>2. CASE v = "finger" /\ Note(t, [i EXCEPT !.touchState = IF @ = "none" THEN @ ELSE "up"],
                                  <<touch({}), lifted>>)
    <3> DEFINE j == [i EXCEPT !.touchState = IF @ = "none" THEN @ ELSE "up"]
               q == <<Lets("finger"), lifted>>
    <3>1. /\ j.heldKeys = i.heldKeys /\ j.heldButtons = i.heldButtons
          /\ j.touchState = (IF i.touchState = "none" THEN "none" ELSE "up") /\ j \in HeldInputs
      BY <1>1 DEF HeldInputs
    <3>2. touch({}) = Lets("finger") /\ Note(t, j, <<touch({}), lifted>>)
      BY <2>2, StepsApart
    <3> HIDE DEF j
    <3>3. InputHeld(j) = InputHeld(i)
      BY <1>2, <1>3, <3>1
    <3>4. /\ Elems(q) = {Lets("finger"), lifted} /\ Tail(q) = <<lifted>> /\ Elems(<<lifted>>) = {lifted}
      BY ShortSeqs
    <3>5. lifted # collect /\ \A d \in HidInputs : collect # Lets(d) /\ lifted # Lets(d)
                                 /\ Presses(d) # lifted /\ Presses(d) # Lets("finger")
      BY <1>6, StepsApart
    <3>6. q \in Seq(HidSteps)
      BY <1>6 DEF HidSteps
    <3>7. NoteOK(t, j, q)
      BY <1>6, <3>1, <3>3, <3>4, <3>5, <3>6 DEF NoteOK, i
    <3>8. QED
      BY <1>8, <3>2, <3>7 DEF Notes, PointerUp
  <2>3. QED
    BY <1>8, <2>1, <2>2 DEF PointerUp, i
<1>9. ASSUME NEW v, PointerMove(t, v) PROVE Notes(t)
  <2>1. i.touchState = "down" /\ Note(t, i, <<touch({"finger"})>>) /\ Acting(t)
    BY <1>9 DEF PointerMove, i
  <2>2. "finger" \in InputHeld(i)
    BY <1>3, <2>1
  <2>3. NoteOK(t, i, <<Presses("finger")>>)
    BY <1>1, <1>6, <2>2, OneStep DEF i
  <2>4. touch({"finger"}) = Presses("finger")
    BY StepsApart
  <2>5. QED
    BY <2>1, <2>3, <2>4 DEF Notes
<1>10. QED
  BY <1>4, <1>5, <1>7, <1>8, <1>9 DEF Action

-----------------------------------------------------------------------------
(* What a step does: its effect on the threads and the sessions.             *)

ThreadRec == [mode : {"free", "acting", "releasing", "dropping", "closing"},
              on : BiDiSessions \cup {NoSession}, todo : Seq(HidSteps)]

\* Only connections change, and none goes away.
ConnsChange ==
    /\ UNCHANGED <<bidiActive, session, thread, down, mixed, cut>>
    /\ conn' \in [Conns -> {"gone", "open", "closed"}]
    /\ \A c \in Conns : conn'[c] = "gone" => conn[c] = "gone"

\* A free thread takes the active session.
Takes(t) ==
    \E mode, steps :
        /\ thread[t].mode = "free" /\ bidiActive # NoSession
        /\ Use(t, bidiActive, mode, steps)
        /\ \/ mode = "acting" /\ steps = <<>> /\ bidiActive' = bidiActive
           \/ mode \in {"releasing", "closing"} /\ steps = <<collect>> /\ bidiActive' \in {bidiActive, NoSession}
           \/ mode = "dropping" /\ steps = <<collect>> /\ bidiActive' = NoSession
        /\ UNCHANGED <<session, conn, down, cut>>

\* A free thread finds that the active session is not its connection's.
Passes(t) ==
    /\ thread[t].mode = "free"
    /\ \E mode \in {"dropping", "closing"} : thread' = [thread EXCEPT ![t] = [Free EXCEPT !.mode = mode]]
    /\ \A c \in Conns : t = Handler(c) /\ bidiActive # NoSession => session[bidiActive].owner # c
    /\ UNCHANGED <<bidiActive, session, conn, down, mixed, cut>>

\* A thread is done with its session.
Leaves(t) ==
    /\ Idle(t) /\ Finish(t)
    /\ conn' \in [Conns -> {"gone", "open", "closed"}]
    /\ \A c \in Conns : conn'[c] = "gone" =>
           conn[c] = "gone" \/ (t = Handler(c) /\ thread[t].mode = "dropping")
    /\ UNCHANGED <<bidiActive, down, mixed, cut>>

LEMMA Effects ==
    ASSUME BiDiConstants, ServedInv, BiDiNext
    PROVE  \/ ConnsChange
           \/ \E c \in Conns : bidiSessionNew(c)
           \/ \E t \in Threads : \/ Takes(t) \/ Passes(t) \/ Leaves(t) \/ Notes(t)
                                 \/ Call(t) \/ Lifted(t) \/ releaseAllInput(t)
<1>1. /\ conn \in [Conns -> {"gone", "open", "closed"}] /\ Timed \subseteq Conns
      /\ \A c \in Conns : Handler(c) \in Threads
      /\ \A c \in Timed : Timer(c) \in Threads /\ \A b \in Conns : Timer(c) # Handler(b)
  BY DEF ServedInv, SessionsTyped, BiDiConstants, Threads, Handler, Timer
<1>2. ASSUME NEW c \in Conns, Accept(c) PROVE ConnsChange
  BY <1>1, <1>2 DEF Accept, ConnsChange
<1>3. ASSUME NEW c \in Conns, ClientCloses(c) PROVE ConnsChange
  BY <1>1, <1>3 DEF ClientCloses, ConnsChange
<1>4. ASSUME NEW c \in Conns, bidiSessionEnd(c) \/ bidiReleaseActions(c) \/ bidiPerformActions(c)
      PROVE  Takes(Handler(c))
  <2>1. CASE bidiSessionEnd(c)
    BY <2>1 DEF bidiSessionEnd, Reading, Takes
  <2>2. CASE bidiReleaseActions(c)
    BY <2>2 DEF bidiReleaseActions, Reading, Takes
  <2>3. CASE bidiPerformActions(c)
    BY <2>3 DEF bidiPerformActions, Reading, Takes
  <2>4. QED
    BY <1>4, <2>1, <2>2, <2>3
<1>5. ASSUME NEW c \in Conns, HandlerDrops(c) PROVE Takes(Handler(c)) \/ Passes(Handler(c))
  <2>1. CASE bidiActive # NoSession /\ session[bidiActive].owner = c
    BY <1>5, <2>1 DEF HandlerDrops, bidiDrop, Takes
  <2>2. CASE ~(bidiActive # NoSession /\ session[bidiActive].owner = c)
    <3>1. \A b \in Conns : Handler(c) = Handler(b) => b = c
      BY DEF Handler
    <3>2. /\ thread[Handler(c)].mode = "free"
          /\ thread' = [thread EXCEPT ![Handler(c)] = [Free EXCEPT !.mode = "dropping"]]
          /\ UNCHANGED <<bidiActive, session, conn, down, mixed, cut>>
      BY <1>5, <2>2 DEF HandlerDrops, bidiDrop
    <3>3. QED
      BY <2>2, <3>1, <3>2 DEF Passes
  <2>3. QED
    BY <2>1, <2>2
<1>6. ASSUME NEW c \in Timed, IdleFires(c) PROVE Takes(Timer(c)) \/ Passes(Timer(c))
  <2>1. CASE bidiActive # NoSession /\ session[bidiActive].owner = c
    BY <1>6, <2>1 DEF IdleFires, bidiDrop, Takes
  <2>2. CASE ~(bidiActive # NoSession /\ session[bidiActive].owner = c)
    <3>1. /\ thread[Timer(c)].mode = "free"
          /\ thread' = [thread EXCEPT ![Timer(c)] = [Free EXCEPT !.mode = "closing"]]
          /\ UNCHANGED <<bidiActive, session, conn, down, mixed, cut>>
      BY <1>6, <2>2 DEF IdleFires, bidiDrop
    <3>2. QED
      BY <1>1, <3>1 DEF Passes
  <2>3. QED
    BY <2>1, <2>2
<1>7. ASSUME NEW c \in Conns, HandlerEnds(c) PROVE Leaves(Handler(c))
  BY <1>1, <1>7 DEF HandlerEnds, Leaves
<1>8. ASSUME NEW c \in Timed, IdleCloses(c) PROVE Leaves(Timer(c))
  <2>1. conn' = [conn EXCEPT ![c] = IF @ = "open" THEN "closed" ELSE @]
    BY <1>8 DEF IdleCloses
  <2>2. conn' \in [Conns -> {"gone", "open", "closed"}] /\ \A b \in Conns : conn'[b] = "gone" => conn[b] = "gone"
    BY <1>1, <2>1
  <2>3. QED
    BY <1>8, <2>2 DEF IdleCloses, Leaves
<1>9. ASSUME NEW t \in Threads, EndActions(t) \/ Released(t) PROVE Leaves(t)
  <2>1. CASE EndActions(t)
    BY <1>1, <2>1 DEF EndActions, Acting, Leaves
  <2>2. CASE Released(t)
    BY <1>1, <2>2 DEF Released, Leaves
  <2>3. QED
    BY <1>9, <2>1, <2>2
<1>10. ASSUME NEW t \in Threads, Action(t) PROVE Notes(t) \/ Leaves(t)
  <2>1. Acting(t)
    BY <1>10 DEF Action, KeyDown, KeyUp, PointerDown, PointerUp, PointerMove, EndActions
  <2>2. thread[t].on \in BiDiSessions
    BY <2>1 DEF Acting, ServedInv, ThreadsTyped
  <2>3. Input(t) \in HeldInputs
    BY <2>2 DEF Input, ServedInv, SessionsTyped
  <2>4. QED
    BY <1>9, <1>10, <2>3, ActionNotes
<1>11. QED
  BY <1>1, <1>2, <1>3, <1>4, <1>5, <1>6, <1>7, <1>8, <1>9, <1>10 DEF BiDiNext

LEMMA ThreadSet ==
    ASSUME ThreadsTyped, NEW t \in Threads, NEW r \in ThreadRec, thread' = [thread EXCEPT ![t] = r],
           r.on = NoSession => r.mode # "acting" /\ r.todo = <<>>,
           r.mode = "free" => r.on = NoSession
    PROVE  ThreadsTyped' /\ thread'[t] = r /\ \A u \in Threads : u # t => thread'[u] = thread[u]
<1>1. thread' \in [Threads -> ThreadRec] /\ thread'[t] = r
      /\ \A u \in Threads : u # t => thread'[u] = thread[u]
  BY DEF ThreadsTyped, ThreadRec
<1>2. QED
  BY <1>1 DEF ThreadsTyped, ThreadRec

LEMMA FreeTyped == Free \in ThreadRec /\ Free.on = NoSession /\ Free.todo = <<>> /\ Free.mode = "free"
  BY DEF Free, ThreadRec

\* The steps of one thread change.
LEMMA DoDoes ==
    ASSUME ThreadsTyped, NEW t \in Threads, NEW q \in Seq(HidSteps), thread[t].on # NoSession, Do(t, q)
    PROVE  /\ ThreadsTyped' /\ \A u \in Threads : u # t => thread'[u] = thread[u]
           /\ thread'[t].mode = thread[t].mode /\ thread'[t].on = thread[t].on /\ thread'[t].todo = q
<1> DEFINE r == [thread[t] EXCEPT !.todo = q]
<1>1. r \in ThreadRec /\ r.mode = thread[t].mode /\ r.on = thread[t].on /\ r.todo = q
  BY DEF ThreadsTyped, ThreadRec
<1>2. thread' = [thread EXCEPT ![t] = r]
  BY DEF Do
<1>3. thread[t].mode # "free"
  BY DEF ThreadsTyped
<1> HIDE DEF r
<1>4. QED
  BY <1>1, <1>2, <1>3, ThreadSet

LEMMA FinishDoes ==
    ASSUME BiDiConstants, SessionsTyped, KeysBounded, ThreadsTyped, NEW t \in Threads, Finish(t)
    PROVE  /\ ThreadsTyped' /\ thread'[t] = Free /\ \A u \in Threads : u # t => thread'[u] = thread[u]
           /\ session' \in [BiDiSessions -> [owner : Conns \cup {"nobody"}, input : HeldInputs]]
           /\ KeysBounded'
           /\ bidiActive \in BiDiSessions => session'[bidiActive] = session[bidiActive]
           /\ \A u \in Threads : u # t /\ thread[u].on \in BiDiSessions
                                    => session'[thread[u].on] = session[thread[u].on]
<1>1. ThreadsTyped' /\ thread'[t] = Free /\ \A u \in Threads : u # t => thread'[u] = thread[u]
  BY FreeTyped, ThreadSet DEF Finish
<1> DEFINE s == thread[t].on
<1>2. CASE session' = session
  BY <1>1, <1>2 DEF SessionsTyped, KeysBounded
<1>3. CASE session' # session
  <2>1. /\ session' = [session EXCEPT ![s] = NewSession("nobody")]
        /\ s \notin {bidiActive, NoSession} /\ \A u \in Threads \ {t} : thread[u].on # s
    BY <1>3 DEF Finish
  <2>2. s \in BiDiSessions
    BY <2>1 DEF ThreadsTyped
  <2>3. NewSession("nobody") \in [owner : Conns \cup {"nobody"}, input : HeldInputs]
        /\ NewSession("nobody").input = NoInput
    BY NothingHeld DEF NewSession
  <2>4. /\ session' \in [BiDiSessions -> [owner : Conns \cup {"nobody"}, input : HeldInputs]]
        /\ session'[s] = NewSession("nobody")
        /\ \A z \in BiDiSessions : z # s => session'[z] = session[z]
    BY <2>1, <2>2, <2>3 DEF SessionsTyped
  <2>5. KeysBounded'
    <3>1. 0 <= MaxHeld
      BY DEF BiDiConstants
    <3>2. Len(session'[s].input.heldKeys) <= MaxHeld
      BY <2>3, <2>4, <3>1, NothingHeld
    <3>3. QED
      BY <2>4, <3>2 DEF KeysBounded
  <2>6. QED
    BY <1>1, <2>1, <2>4, <2>5
<1>4. QED
  BY <1>2, <1>3

\* What a HID call does to the input held, and that steps are one of these four.
LEMMA StepsAre ==
    ASSUME NEW step \in HidSteps
    PROVE  \/ \E d \in HidInputs : step = Presses(d)
           \/ \E d \in HidInputs : step = Lets(d)
           \/ step = collect \/ step = lifted
  BY DEF HidSteps

LEMMA CallSteps ==
    ASSUME ServedInv, NEW t \in Threads, Call(t)
    PROVE  LET step == Head(thread[t].todo)
           IN  /\ thread[t].todo # <<>> /\ thread[t].on \in BiDiSessions /\ CallOf(step)
               /\ \E d \in HidInputs : \/ step = Presses(d) /\ down' = down \cup {d}
                                       \/ step = Lets(d) /\ down' = down \ {d}
<1> DEFINE step == Head(thread[t].todo)
<1>1. thread[t].todo # <<>> /\ CallOf(step)
  BY DEF Call, Idle, CallOf
<1>2. thread[t].todo \in Seq(HidSteps) /\ thread[t].on \in BiDiSessions
  BY <1>1 DEF ServedInv, ThreadsTyped
<1>3. step \in HidSteps
  BY <1>1, <1>2, ElemsAre
<1> HIDE DEF step
<1>4. \E d \in HidInputs : \/ step = Presses(d) /\ down' = down \cup {d}
                           \/ step = Lets(d) /\ down' = down \ {d}
  BY <1>1, <1>3, StepsAre, CallDoes
<1>5. QED
  BY <1>1, <1>2, <1>4 DEF step

\* Releasing all: each input held is released once it is no longer noted.
LEMMA Collects ==
    ASSUME BiDiConstants, ServedInv, NEW t \in Threads, releaseAllInput(t)
    PROVE  /\ thread[t].todo # <<>> /\ Head(thread[t].todo) = collect /\ thread[t].on \in BiDiSessions
           /\ session' = [session EXCEPT ![thread[t].on].input = NoInput]
           /\ \E q \in Seq(HidSteps) : /\ Do(t, q) /\ Elems(q) \subseteq Releases
                                    /\ \A d \in InputHeld(Input(t)) : Lets(d) \in Elems(q)
           /\ UNCHANGED <<bidiActive, conn, down, mixed, cut>>
<1> DEFINE i == Input(t)
           keys == [n \in DOMAIN i.heldKeys |-> release(i.heldKeys[n])]
           rev == Reverse(keys)
           buttons == IF i.heldButtons = {} THEN <<>> ELSE <<release("left")>>
           fingers == IF i.touchState = "none" THEN <<>> ELSE <<touch({})>>
<1>1. /\ thread[t].todo # <<>> /\ Head(thread[t].todo) = collect
      /\ session' = [session EXCEPT ![thread[t].on].input = NoInput]
      /\ Do(t, rev \o buttons \o fingers)
      /\ UNCHANGED <<bidiActive, conn, down, mixed, cut>>
  BY DEF releaseAllInput, Idle
<1>2. thread[t].on \in BiDiSessions
  BY <1>1 DEF ServedInv, ThreadsTyped
<1>3. i \in HeldInputs
  BY <1>2 DEF Input, ServedInv, SessionsTyped
<1>4. /\ i.heldKeys \in Seq({"x", "shift"}) /\ i.heldButtons \subseteq {"left"}
      /\ i.touchState \in {"none", "down", "up"}
      /\ InputHeld(i) = Elems(i.heldKeys) \cup i.heldButtons
                        \cup (IF i.touchState = "none" THEN {} ELSE {"finger"})
  BY <1>3, HeldIs DEF HeldInputs
<1> HIDE DEF i
<1>5. Releases \subseteq HidSteps /\ \A d \in HidInputs : Lets(d) \in Releases
  BY DEF Releases, HidSteps
<1>6. /\ "x" \in HidInputs /\ "shift" \in HidInputs /\ "left" \in HidInputs /\ "finger" \in HidInputs
      /\ release("x") = Lets("x") /\ release("shift") = Lets("shift")
      /\ release("left") = Lets("left") /\ touch({}) = Lets("finger")
  BY StepsApart DEF HidInputs
<1>7. rev \in Seq(Releases) /\ \A d \in Elems(i.heldKeys) : Lets(d) \in Elems(rev)
  <2> DEFINE m == Len(i.heldKeys)
  <2>1. m \in Nat /\ DOMAIN i.heldKeys = 1..m /\ \A n \in 1..m : i.heldKeys[n] \in {"x", "shift"}
    BY <1>4
  <2>2. \A n \in 1..m : keys[n] = Lets(i.heldKeys[n]) /\ keys[n] \in Releases
    BY <1>5, <1>6, <2>1
  <2>3. keys \in Seq(Releases) /\ Len(keys) = m
    <3>1. keys = [n \in 1..m |-> release(i.heldKeys[n])]
      BY <2>1
    <3>2. \A n \in 1..m : release(i.heldKeys[n]) \in Releases
      BY <2>2, <3>1
    <3>3. QED
      BY <2>1, <3>1, <3>2
  <2> HIDE DEF keys
  <2>4. rev = [n \in 1..m |-> keys[(m - n) + 1]]
    BY <2>3 DEF Reverse
  <2>5. \A n \in 1..m : (m - n) + 1 \in 1..m
    BY <2>1
  <2>6. rev \in Seq(Releases) /\ Len(rev) = m
    BY <2>1, <2>2, <2>4, <2>5
  <2>7. ASSUME NEW n \in 1..m PROVE Lets(i.heldKeys[n]) \in Elems(rev)
    <3>1. (m - n) + 1 \in 1..m /\ (m - ((m - n) + 1)) + 1 = n
      BY <2>1
    <3>2. rev[(m - n) + 1] = Lets(i.heldKeys[n])
      BY <2>2, <2>4, <3>1
    <3>3. QED
      BY <2>6, <3>1, <3>2 DEF Elems
  <2>8. QED
    BY <2>6, <2>7 DEF Elems
<1>8. buttons \in Seq(Releases) /\ ("left" \in i.heldButtons => Lets("left") \in Elems(buttons))
  <2>1. CASE i.heldButtons = {}
    BY <2>1
  <2>2. CASE i.heldButtons # {}
    BY <1>5, <1>6, <2>2, ShortSeqs
  <2>3. QED
    BY <2>1, <2>2
<1>9. fingers \in Seq(Releases) /\ (i.touchState # "none" => Lets("finger") \in Elems(fingers))
  <2>1. CASE i.touchState = "none"
    BY <2>1
  <2>2. CASE i.touchState # "none"
    BY <1>5, <1>6, <2>2, ShortSeqs
  <2>3. QED
    BY <2>1, <2>2
<1> HIDE DEF rev, buttons, fingers
<1>10. /\ rev \o buttons \in Seq(Releases) /\ Elems(rev \o buttons) = Elems(rev) \cup Elems(buttons)
  BY <1>7, <1>8, ElemsOfConcat
<1> DEFINE both == rev \o buttons
<1>11. both \in Seq(Releases) /\ Elems(both) = Elems(rev) \cup Elems(buttons)
  BY <1>10
<1> HIDE DEF both
<1>12. both \o fingers \in Seq(Releases) /\ Elems(both \o fingers) = Elems(both) \cup Elems(fingers)
  BY <1>9, <1>11, ElemsOfConcat
<1> DEFINE all == both \o fingers
<1>13. all \in Seq(Releases) /\ Elems(all) = Elems(rev) \cup Elems(buttons) \cup Elems(fingers) /\ Do(t, all)
  BY <1>1, <1>11, <1>12 DEF both
<1> HIDE DEF all
<1>14. all \in Seq(HidSteps) /\ Elems(all) \subseteq Releases
  <2>1. \A n \in 1..Len(all) : all[n] \in Releases
    BY <1>13
  <2>2. QED
    BY <1>5, <1>13, <2>1 DEF Elems
<1>15. \A d \in InputHeld(i) : Lets(d) \in Elems(all)
  BY <1>4, <1>7, <1>8, <1>9, <1>13
<1>16. QED
  BY <1>1, <1>2, <1>13, <1>14, <1>15 DEF i

-----------------------------------------------------------------------------
(* The session in memory is served.                                          *)

\* What of a step keeps the owner served: the active session and its owner stay,
\* its connection does not go, and its handler does not drop it.
LEMMA OwnerStays ==
    ASSUME OwnerServed, bidiActive' \in {bidiActive, NoSession},
           bidiActive' # NoSession => session'[bidiActive].owner = session[bidiActive].owner,
           \A c \in Conns : conn'[c] = "gone" => conn[c] = "gone" \/ thread[Handler(c)].mode = "dropping",
           \A c \in Conns : bidiActive' # NoSession /\ session[bidiActive].owner = c
                               /\ thread'[Handler(c)].mode = "dropping"
                             => thread[Handler(c)].mode = "dropping"
    PROVE  OwnerServed'
  BY DEF OwnerServed, Handler

LEMMA ServedStep == BiDiConstants /\ ServedInv /\ [BiDiNext]_bidiVars => ServedInv'
<1> SUFFICES ASSUME BiDiConstants, ServedInv, [BiDiNext]_bidiVars PROVE ServedInv'
  OBVIOUS
<1>1. /\ SessionsTyped /\ KeysBounded /\ ThreadsTyped /\ RacesTyped /\ OwnerServed
      /\ bidiActive \in BiDiSessions \cup {NoSession} /\ NoSession \notin BiDiSessions
      /\ session \in [BiDiSessions -> [owner : Conns \cup {"nobody"}, input : HeldInputs]]
      /\ conn \in [Conns -> {"gone", "open", "closed"}] /\ down \subseteq HidInputs
      /\ mixed \in BOOLEAN /\ cut \in BOOLEAN /\ MaxHeld \in Nat
      /\ \A c \in Conns : Handler(c) \in Threads
  BY DEF ServedInv, SessionsTyped, BiDiConstants, RacesTyped, Threads, Handler
<1>2. CASE UNCHANGED bidiVars
  BY <1>2 DEF bidiVars, ServedInv, SessionsTyped, KeysBounded, ThreadsTyped, RacesTyped, OwnerServed
<1>3. CASE ConnsChange
  <2>1. SessionsTyped' /\ KeysBounded' /\ ThreadsTyped' /\ RacesTyped'
    BY <1>1, <1>3 DEF ConnsChange, SessionsTyped, KeysBounded, ThreadsTyped, RacesTyped
  <2>2. OwnerServed'
    BY <1>1, <1>3, OwnerStays DEF ConnsChange
  <2>3. QED
    BY <2>1, <2>2 DEF ServedInv
<1>4. ASSUME NEW c \in Conns, bidiSessionNew(c) PROVE ServedInv'
  <2>1. PICK s \in BiDiSessions : bidiActive' = s /\ session' = [session EXCEPT ![s] = NewSession(c)]
    BY <1>4 DEF bidiSessionNew
  <2>2. /\ conn[c] = "open" /\ thread[Handler(c)].mode = "free"
        /\ UNCHANGED <<conn, thread, down, mixed, cut>>
    BY <1>4 DEF bidiSessionNew, Reading
  <2>3. /\ NewSession(c) \in [owner : Conns \cup {"nobody"}, input : HeldInputs]
        /\ NewSession(c).owner = c /\ Len(NewSession(c).input.heldKeys) = 0
    BY NothingHeld DEF NewSession
  <2> HIDE DEF NewSession
  <2>4. /\ session' \in [BiDiSessions -> [owner : Conns \cup {"nobody"}, input : HeldInputs]]
        /\ session'[s].owner = c /\ Len(session'[s].input.heldKeys) = 0
        /\ \A z \in BiDiSessions : z # s => session'[z] = session[z]
    BY <1>1, <2>1, <2>3
  <2>5. SessionsTyped' /\ KeysBounded'
    BY <1>1, <2>1, <2>2, <2>4 DEF SessionsTyped, KeysBounded
  <2>6. ThreadsTyped' /\ RacesTyped'
    BY <1>1, <2>2 DEF ThreadsTyped, RacesTyped
  <2>7. OwnerServed'
    BY <2>1, <2>2, <2>4 DEF OwnerServed, Handler
  <2>8. QED
    BY <2>5, <2>6, <2>7 DEF ServedInv
<1>5. ASSUME NEW t \in Threads, Takes(t) PROVE ServedInv'
  <2>1. PICK mode, steps :
            /\ thread[t].mode = "free" /\ bidiActive # NoSession
            /\ Use(t, bidiActive, mode, steps)
            /\ \/ mode = "acting" /\ steps = <<>> /\ bidiActive' = bidiActive
               \/ mode \in {"releasing", "closing"} /\ steps = <<collect>> /\ bidiActive' \in {bidiActive, NoSession}
               \/ mode = "dropping" /\ steps = <<collect>> /\ bidiActive' = NoSession
            /\ UNCHANGED <<session, conn, down, cut>>
    BY <1>5 DEF Takes
  <2> DEFINE r == [mode |-> mode, on |-> bidiActive, todo |-> steps]
  <2>2. steps \in Seq(HidSteps)
    <3>1. collect \in HidSteps
      BY DEF HidSteps
    <3>2. <<>> \in Seq(HidSteps) /\ <<collect>> \in Seq(HidSteps)
      BY <3>1
    <3>3. QED
      BY <2>1, <3>2
  <2>3. r \in ThreadRec /\ r.on = bidiActive /\ r.mode = mode /\ mode # "free"
    BY <1>1, <2>1, <2>2 DEF ThreadRec
  <2>4. thread' = [thread EXCEPT ![t] = r] /\ mixed' \in BOOLEAN
    <3>1. thread' = [thread EXCEPT ![t] = r]
      BY <2>1 DEF Use
    <3>2. mixed' \in BOOLEAN
      BY <1>1, <2>1 DEF Use
    <3>3. QED
      BY <3>1, <3>2
  <2> HIDE DEF r
  <2>5. ThreadsTyped' /\ thread'[t] = r /\ \A u \in Threads : u # t => thread'[u] = thread[u]
    BY <1>1, <2>1, <2>3, <2>4, ThreadSet
  <2>6. SessionsTyped' /\ KeysBounded' /\ RacesTyped'
    <3>1. bidiActive' \in BiDiSessions \cup {NoSession}
      BY <1>1, <2>1
    <3>2. SessionsTyped' /\ KeysBounded'
      BY <1>1, <2>1, <3>1 DEF SessionsTyped, KeysBounded
    <3>3. RacesTyped'
      BY <1>1, <2>1, <2>4 DEF RacesTyped
    <3>4. QED
      BY <3>2, <3>3
  <2>7. OwnerServed'
    <3>1. bidiActive' \in {bidiActive, NoSession} /\ session' = session /\ conn' = conn
      BY <2>1
    <3>2. ASSUME NEW c \in Conns, bidiActive' # NoSession, thread'[Handler(c)].mode = "dropping"
          PROVE  thread[Handler(c)].mode = "dropping"
      BY <1>1, <2>1, <2>3, <2>5, <3>2
    <3>3. QED
      BY <1>1, <3>1, <3>2, OwnerStays
  <2>8. QED
    BY <2>5, <2>6, <2>7 DEF ServedInv
<1>6. ASSUME NEW t \in Threads, Passes(t) PROVE ServedInv'
  <2>1. PICK mode \in {"dropping", "closing"} : thread' = [thread EXCEPT ![t] = [Free EXCEPT !.mode = mode]]
    BY <1>6 DEF Passes
  <2>2. /\ \A c \in Conns : t = Handler(c) /\ bidiActive # NoSession => session[bidiActive].owner # c
        /\ UNCHANGED <<bidiActive, session, conn, down, mixed, cut>>
    BY <1>6 DEF Passes
  <2> DEFINE r == [Free EXCEPT !.mode = mode]
  <2>3. r \in ThreadRec /\ r.on = NoSession /\ r.mode = mode /\ r.todo = <<>> /\ thread' = [thread EXCEPT ![t] = r]
    <3>1. r = [mode |-> mode, on |-> NoSession, todo |-> <<>>] /\ thread' = [thread EXCEPT ![t] = r]
      BY <2>1 DEF Free
    <3>2. <<>> \in Seq(HidSteps)
      OBVIOUS
    <3> HIDE DEF r
    <3>3. QED
      BY <2>1, <3>1, <3>2 DEF ThreadRec
  <2> HIDE DEF r
  <2>4. ThreadsTyped' /\ thread'[t] = r /\ \A u \in Threads : u # t => thread'[u] = thread[u]
    BY <1>1, <2>3, ThreadSet
  <2>5. SessionsTyped' /\ KeysBounded' /\ RacesTyped'
    BY <1>1, <2>2 DEF SessionsTyped, KeysBounded, RacesTyped
  <2>6. OwnerServed'
    BY <1>1, <2>2, <2>4, OwnerStays
  <2>7. QED
    BY <2>4, <2>5, <2>6 DEF ServedInv
<1>7. ASSUME NEW t \in Threads, Leaves(t) PROVE ServedInv'
  <2>1. /\ conn' \in [Conns -> {"gone", "open", "closed"}]
        /\ \A c \in Conns : conn'[c] = "gone" => conn[c] = "gone" \/ (t = Handler(c) /\ thread[t].mode = "dropping")
        /\ UNCHANGED <<bidiActive, down, mixed, cut>> /\ Finish(t)
    BY <1>7 DEF Leaves
  <2>2. /\ ThreadsTyped' /\ thread'[t] = Free /\ \A u \in Threads : u # t => thread'[u] = thread[u]
        /\ session' \in [BiDiSessions -> [owner : Conns \cup {"nobody"}, input : HeldInputs]]
        /\ KeysBounded'
        /\ bidiActive \in BiDiSessions => session'[bidiActive] = session[bidiActive]
    BY <1>1, <2>1, FinishDoes
  <2>3. SessionsTyped' /\ RacesTyped'
    BY <1>1, <2>1, <2>2 DEF SessionsTyped, RacesTyped
  <2>4. OwnerServed'
    BY <1>1, <2>1, <2>2, FreeTyped, OwnerStays
  <2>5. QED
    BY <2>2, <2>3, <2>4 DEF ServedInv
<1>8. ASSUME NEW t \in Threads, Notes(t) PROVE ServedInv'
  <2>1. PICK input, steps : Acting(t) /\ NoteOK(t, input, steps) /\ Note(t, input, steps)
    BY <1>8 DEF Notes
  <2>2. thread[t].on \in BiDiSessions
    BY <1>1, <2>1 DEF Acting, ThreadsTyped
  <2>3. input \in HeldInputs /\ steps \in Seq(HidSteps)
    BY <2>1 DEF NoteOK
  <2>4. Len(input.heldKeys) <= MaxHeld
    BY <2>1, <2>3, HeldIs DEF Note
  <2>5. /\ session' = [session EXCEPT ![thread[t].on].input = input] /\ Do(t, steps)
        /\ UNCHANGED <<bidiActive, conn, down, mixed, cut>>
    BY <2>1 DEF Note
  <2>6. /\ session' \in [BiDiSessions -> [owner : Conns \cup {"nobody"}, input : HeldInputs]]
        /\ \A s \in BiDiSessions : session'[s].owner = session[s].owner
        /\ session'[thread[t].on].input = input
        /\ \A s \in BiDiSessions : s # thread[t].on => session'[s] = session[s]
    BY <1>1, <2>2, <2>3, <2>5
  <2>7. /\ ThreadsTyped' /\ \A u \in Threads : u # t => thread'[u] = thread[u]
        /\ thread'[t].mode = thread[t].mode
    BY <1>1, <2>2, <2>3, <2>5, DoDoes
  <2>8. SessionsTyped' /\ RacesTyped' /\ KeysBounded'
    BY <1>1, <2>4, <2>5, <2>6 DEF SessionsTyped, RacesTyped, KeysBounded
  <2>9. OwnerServed'
    BY <1>1, <2>5, <2>6, <2>7, OwnerStays
  <2>10. QED
    BY <2>7, <2>8, <2>9 DEF ServedInv
<1>9. ASSUME NEW t \in Threads, Call(t) PROVE ServedInv'
  <2> DEFINE q == thread[t].todo
  <2>1. PICK d \in HidInputs : down' \in {down \cup {d}, down \ {d}}
    BY <1>9, CallSteps
  <2>2. q # <<>> /\ thread[t].on \in BiDiSessions /\ UNCHANGED <<bidiActive, conn, mixed>>
    BY <1>9, CallSteps DEF Call
  <2>3. q \in Seq(HidSteps) /\ Tail(q) \in Seq(HidSteps)
    BY <1>1, <2>2 DEF ThreadsTyped
  <2>4. CASE Do(t, Tail(q)) /\ UNCHANGED <<session, cut>>
    <3>1. /\ ThreadsTyped' /\ \A u \in Threads : u # t => thread'[u] = thread[u]
          /\ thread'[t].mode = thread[t].mode
      BY <1>1, <2>2, <2>3, <2>4, DoDoes
    <3>2. SessionsTyped' /\ RacesTyped' /\ KeysBounded'
      BY <1>1, <2>1, <2>2, <2>4 DEF SessionsTyped, RacesTyped, KeysBounded
    <3>3. OwnerServed'
      BY <1>1, <2>2, <2>4, <3>1, OwnerStays
    <3>4. QED
      BY <3>1, <3>2, <3>3 DEF ServedInv
  <2>5. CASE Finish(t) /\ cut' = (cut \/ release("shift") \in Range(Tail(q)))
    <3>1. /\ ThreadsTyped' /\ thread'[t] = Free /\ \A u \in Threads : u # t => thread'[u] = thread[u]
          /\ session' \in [BiDiSessions -> [owner : Conns \cup {"nobody"}, input : HeldInputs]]
          /\ KeysBounded'
          /\ bidiActive \in BiDiSessions => session'[bidiActive] = session[bidiActive]
      BY <1>1, <2>5, FinishDoes
    <3>2. SessionsTyped'
      BY <1>1, <2>1, <2>2, <3>1 DEF SessionsTyped
    <3>3. RacesTyped'
      <4>1. cut' \in BOOLEAN
        BY <2>5
      <4>2. QED
        BY <1>1, <2>2, <4>1 DEF RacesTyped
    <3>4. OwnerServed'
      BY <1>1, <2>2, <3>1, FreeTyped, OwnerStays
    <3>5. QED
      BY <3>1, <3>2, <3>3, <3>4 DEF ServedInv
  <2>6. QED
    BY <1>9, <2>4, <2>5 DEF Call
<1>10. ASSUME NEW t \in Threads, NEW input \in HeldInputs, NEW q \in Seq(HidSteps), thread[t].on \in BiDiSessions,
              session' = [session EXCEPT ![thread[t].on].input = input], Do(t, q),
              Len(input.heldKeys) <= MaxHeld, UNCHANGED <<bidiActive, conn, down, mixed, cut>>
       PROVE  ServedInv'
  <2>1. /\ session' \in [BiDiSessions -> [owner : Conns \cup {"nobody"}, input : HeldInputs]]
        /\ \A s \in BiDiSessions : session'[s].owner = session[s].owner
        /\ session'[thread[t].on].input = input
        /\ \A s \in BiDiSessions : s # thread[t].on => session'[s] = session[s]
    BY <1>1, <1>10
  <2>2. /\ ThreadsTyped' /\ \A u \in Threads : u # t => thread'[u] = thread[u]
        /\ thread'[t].mode = thread[t].mode
    BY <1>1, <1>10, DoDoes
  <2>3. SessionsTyped' /\ RacesTyped' /\ KeysBounded'
    BY <1>1, <1>10, <2>1 DEF SessionsTyped, RacesTyped, KeysBounded
  <2>4. OwnerServed'
    BY <1>1, <1>10, <2>1, <2>2, OwnerStays
  <2>5. QED
    BY <2>2, <2>3, <2>4 DEF ServedInv
<1>11. ASSUME NEW t \in Threads, Lifted(t) PROVE ServedInv'
  <2> DEFINE input == [session[thread[t].on].input EXCEPT !.touchState = "none"]
             q == Tail(thread[t].todo)
  <2>1. thread[t].todo # <<>> /\ thread[t].on \in BiDiSessions /\ q \in Seq(HidSteps)
    BY <1>1, <1>11 DEF Lifted, Idle, ThreadsTyped
  <2>2. session[thread[t].on].input \in HeldInputs
    BY <1>1, <2>1
  <2>3. input \in HeldInputs /\ input.heldKeys = session[thread[t].on].input.heldKeys
    BY <2>2 DEF HeldInputs
  <2>4. /\ session' = [session EXCEPT ![thread[t].on].input = input] /\ Do(t, q)
        /\ UNCHANGED <<bidiActive, conn, down, mixed, cut>>
    BY <1>1, <1>11, <2>1 DEF Lifted
  <2>5. Len(input.heldKeys) <= MaxHeld
    BY <1>1, <2>1, <2>3 DEF KeysBounded
  <2> HIDE DEF input, q
  <2>6. QED
    BY <1>10, <2>1, <2>3, <2>4, <2>5
<1>12. ASSUME NEW t \in Threads, releaseAllInput(t) PROVE ServedInv'
  <2>1. Len(NoInput.heldKeys) <= MaxHeld /\ NoInput \in HeldInputs
    BY <1>1, NothingHeld
  <2>2. QED
    BY <1>10, <1>12, <2>1, Collects
<1>13. QED
  BY <1>2, <1>3, <1>4, <1>5, <1>6, <1>7, <1>8, <1>9, <1>11, <1>12, Effects

-----------------------------------------------------------------------------
(* What the backend holds is accounted for.                                  *)

\* Threads free of a session have nothing to do; those that act have one.
LEMMA Typed ==
    ASSUME BiDiConstants, ServedInv
    PROVE  /\ bidiActive \in BiDiSessions \cup {NoSession} /\ NoSession \notin BiDiSessions
           /\ session \in [BiDiSessions -> [owner : Conns \cup {"nobody"}, input : HeldInputs]]
           /\ down \subseteq HidInputs /\ mixed \in BOOLEAN /\ cut \in BOOLEAN
           /\ \A t \in Threads :
                 /\ thread[t] \in ThreadRec
                 /\ thread[t].on \in BiDiSessions \cup {NoSession} /\ thread[t].todo \in Seq(HidSteps)
                 /\ thread[t].on = NoSession => thread[t].mode # "acting" /\ thread[t].todo = <<>>
                 /\ thread[t].mode = "free" => thread[t].on = NoSession /\ thread[t].todo = <<>>
  BY DEF ServedInv, SessionsTyped, ThreadsTyped, RacesTyped, BiDiConstants, ThreadRec

LEMMA IdleShape ==
    \A r : r.todo = <<>> => TodoShape(r)
<1>1. Elems(<<>>) = {}
  BY ShortSeqs
<1>2. QED
  BY <1>1 DEF TodoShape

LEMMA TakesKeeps ==
    ASSUME BiDiConstants, ServedInv, HeldInv, NEW t \in Threads, Takes(t)
    PROVE  HeldInv'
<1>1. PICK mode, steps :
          /\ thread[t].mode = "free" /\ bidiActive # NoSession
          /\ Use(t, bidiActive, mode, steps)
          /\ \/ mode = "acting" /\ steps = <<>> /\ bidiActive' = bidiActive
             \/ mode \in {"releasing", "closing"} /\ steps = <<collect>> /\ bidiActive' \in {bidiActive, NoSession}
             \/ mode = "dropping" /\ steps = <<collect>> /\ bidiActive' = NoSession
          /\ UNCHANGED <<session, conn, down, cut>>
  BY DEF Takes
<1>2. /\ thread'[t].mode = mode /\ thread'[t].on = bidiActive /\ thread'[t].todo = steps
      /\ \A u \in Threads : u # t => thread'[u] = thread[u]
      /\ thread[t].todo = <<>>
  <2>1. thread' = [thread EXCEPT ![t] = [mode |-> mode, on |-> bidiActive, todo |-> steps]] /\ t \in DOMAIN thread
    BY <1>1 DEF Use, ServedInv, ThreadsTyped
  <2>2. QED
    BY <1>1, <2>1, Typed
<1>3. \/ mode = "acting" /\ steps = <<>> /\ bidiActive' = bidiActive
      \/ mode # "acting" /\ steps = <<collect>> /\ bidiActive' \in {bidiActive, NoSession}
  BY <1>1
<1>4. ~mixed' => ~mixed /\ \A u \in Threads \ {t} : thread[u].on = bidiActive => mode # "acting" /\ thread[u].mode # "acting"
  BY <1>1 DEF Use
<1>5. Shaped'
  <2>1. TodoShape(thread'[t])
    <3>1. CASE mode = "acting"
      BY <1>2, <1>3, <3>1, IdleShape
    <3>2. CASE mode # "acting"
      BY <1>2, <1>3, <3>2 DEF TodoShape
    <3>3. QED
      BY <3>1, <3>2
  <2>2. QED
    BY <1>2, <2>1 DEF HeldInv, Shaped
<1>6. Alone'
  <2> SUFFICES ASSUME ~mixed', NEW v \in Threads, thread'[v].mode = "acting"
               PROVE  (Lone(v) /\ Noting(v) /\ LiftReady(v))'
    BY DEF Alone
  <2>1. v = t
    <3>1. CASE v # t
      <4>1. thread[v].mode = "acting" /\ ~mixed
        BY <1>2, <1>4, <3>1
      <4>2. thread[v].on = bidiActive
        BY <4>1 DEF HeldInv, Alone, Lone
      <4>3. QED
        BY <1>4, <3>1, <4>1, <4>2
    <3>2. QED
      BY <3>1
  <2>2. mode = "acting" /\ steps = <<>> /\ bidiActive' = bidiActive
    BY <1>2, <1>3, <2>1
  <2>3. Lone(v)'
    BY <1>2, <1>4, <2>1, <2>2 DEF Lone
  <2>4. Noting(v)' /\ LiftReady(v)'
    BY <1>2, <2>1, <2>2, ShortSeqs DEF Noting, LiftReady
  <2>5. QED
    BY <2>3, <2>4
<1>7. Accounted'
  <2> SUFFICES ASSUME ~mixed', ~cut', NEW d \in down' PROVE (d \in Noted)' \/ \E u \in Threads : Owes(u, d)'
    BY DEF Accounted
  <2>1. d \in Noted \/ \E u \in Threads : Owes(u, d)
    BY <1>1, <1>4 DEF HeldInv, Accounted
  <2>2. CASE d \in Noted
    <3>1. d \in InputHeld(session[bidiActive].input)
      BY <1>1, <2>2 DEF Noted
    <3>2. CASE bidiActive' = bidiActive
      BY <1>1, <3>1, <3>2 DEF Noted
    <3>3. CASE bidiActive' # bidiActive
      BY <1>1, <1>2, <1>3, <3>1, <3>3 DEF Owes
    <3>4. QED
      BY <3>2, <3>3
  <2>3. ASSUME NEW u \in Threads, Owes(u, d) PROVE Owes(u, d)'
    <3>1. u # t
      BY <1>2, <2>3, ShortSeqs DEF Owes
    <3>2. QED
      BY <1>1, <1>2, <2>3, <3>1 DEF Owes
  <2>4. QED
    BY <2>1, <2>2, <2>3
<1>8. QED
  BY <1>5, <1>6, <1>7 DEF HeldInv

\* An idle thread gives up what session it had.
LEMMA RestKeeps ==
    ASSUME BiDiConstants, ServedInv, HeldInv, NEW t \in Threads, thread[t].todo = <<>>,
           thread'[t].on = NoSession, thread'[t].mode # "acting", thread'[t].todo = <<>>,
           \A u \in Threads : u # t => thread'[u] = thread[u],
           bidiActive \in BiDiSessions => session'[bidiActive] = session[bidiActive],
           \A u \in Threads : u # t /\ thread[u].on \in BiDiSessions
                                => session'[thread[u].on] = session[thread[u].on],
           UNCHANGED <<bidiActive, down, mixed, cut>>
    PROVE  HeldInv'
<1>1. Shaped'
  BY IdleShape DEF HeldInv, Shaped
<1>2. Alone'
  <2> SUFFICES ASSUME ~mixed', NEW v \in Threads, thread'[v].mode = "acting"
               PROVE  (Lone(v) /\ Noting(v) /\ LiftReady(v))'
    BY DEF Alone
  <2>1. v # t /\ thread'[v] = thread[v] /\ thread[v].mode = "acting" /\ thread[v].on \in BiDiSessions
    BY Typed
  <2>2. Lone(v) /\ Noting(v) /\ LiftReady(v)
    BY <2>1 DEF HeldInv, Alone
  <2>3. Lone(v)'
    BY <2>1, <2>2, Typed DEF Lone
  <2>4. Noting(v)' /\ LiftReady(v)'
    BY <2>1, <2>2 DEF Noting, LiftReady
  <2>5. QED
    BY <2>3, <2>4
<1>3. Accounted'
  <2> SUFFICES ASSUME ~mixed', ~cut', NEW d \in down' PROVE (d \in Noted)' \/ \E u \in Threads : Owes(u, d)'
    BY DEF Accounted
  <2>1. d \in Noted \/ \E u \in Threads : Owes(u, d)
    BY DEF HeldInv, Accounted
  <2>2. CASE d \in Noted
    BY <2>2, Typed DEF Noted
  <2>3. ASSUME NEW u \in Threads, Owes(u, d) PROVE Owes(u, d)'
    <3>1. u # t
      BY <2>3, ShortSeqs DEF Owes
    <3>2. thread[u].todo = <<collect>> => thread[u].on \in BiDiSessions
      BY Typed, ShortSeqs
    <3>3. QED
      BY <2>3, <3>1, <3>2 DEF Owes
  <2>4. QED
    BY <2>1, <2>2, <2>3
<1>4. QED
  BY <1>1, <1>2, <1>3 DEF HeldInv

LEMMA NewKeeps ==
    ASSUME BiDiConstants, ServedInv, HeldInv, NEW c \in Conns, bidiSessionNew(c)
    PROVE  HeldInv'
<1>1. /\ bidiActive = NoSession /\ UNCHANGED <<conn, thread, down, mixed, cut>>
      /\ \E s \in BiDiSessions : /\ \A t \in Threads : thread[t].on # s
                                 /\ session' = [session EXCEPT ![s] = NewSession(c)]
  BY DEF bidiSessionNew
<1>2. \A t \in Threads : thread[t].on \in BiDiSessions => session'[thread[t].on] = session[thread[t].on]
  BY <1>1, Typed
<1>3. Shaped'
  BY <1>1 DEF HeldInv, Shaped
<1>4. Alone'
  <2> SUFFICES ASSUME ~mixed', NEW v \in Threads, thread'[v].mode = "acting" PROVE FALSE
    BY DEF Alone
  <2>1. thread[v].on = NoSession
    BY <1>1 DEF HeldInv, Alone, Lone
  <2>2. QED
    BY <1>1, <2>1, Typed
<1>5. Accounted'
  <2> SUFFICES ASSUME ~mixed', ~cut', NEW d \in down' PROVE \E u \in Threads : Owes(u, d)'
    BY DEF Accounted
  <2>1. PICK u \in Threads : Owes(u, d)
    BY <1>1 DEF HeldInv, Accounted, Noted
  <2>2. thread[u].todo = <<collect>> => thread[u].on \in BiDiSessions
    BY Typed, ShortSeqs
  <2>3. Owes(u, d)'
    BY <1>1, <1>2, <2>1, <2>2 DEF Owes
  <2>4. QED
    BY <2>3
<1>6. QED
  BY <1>3, <1>4, <1>5 DEF HeldInv

\* While no race was, who acts has the active session; a thread that has all to
\* collect does not act.
LEMMA ActsAlone ==
    ASSUME ServedInv, HeldInv, ~mixed, NEW t \in Threads, thread[t].mode = "acting"
    PROVE  /\ thread[t].on = bidiActive /\ bidiActive \in BiDiSessions
           /\ \A u \in Threads : u # t => thread[u].on # bidiActive /\ thread[u].mode # "acting"
           /\ thread[t].todo # <<collect>>
<1>1. Lone(t) /\ bidiActive \in BiDiSessions
  BY DEF HeldInv, Alone, Lone, ServedInv, ThreadsTyped, SessionsTyped
<1>2. \A u \in Threads : u # t => thread[u].mode # "acting"
  BY <1>1 DEF HeldInv, Alone, Lone
<1>3. collect \notin Elems(thread[t].todo)
  BY DEF HeldInv, Shaped, TodoShape
<1>4. thread[t].todo # <<collect>>
  <2>1. Elems(<<collect>>) = {collect}
    BY ShortSeqs
  <2>2. QED
    BY <1>3, <2>1
<1>5. QED
  BY <1>1, <1>2, <1>4 DEF Lone

LEMMA NotesKeeps ==
    ASSUME BiDiConstants, ServedInv, HeldInv, NEW t \in Threads, Notes(t)
    PROVE  HeldInv'
<1>1. PICK input, steps : Acting(t) /\ NoteOK(t, input, steps) /\ Note(t, input, steps)
  BY DEF Notes
<1>2. /\ thread[t].mode = "acting" /\ thread[t].todo = <<>> /\ thread[t].on = bidiActive /\ ~mixed
      /\ bidiActive \in BiDiSessions
      /\ \A u \in Threads : u # t => thread[u].on # bidiActive /\ thread[u].mode # "acting"
      /\ session' = [session EXCEPT ![bidiActive].input = input]
      /\ UNCHANGED <<bidiActive, conn, down, mixed, cut>>
  <2>1. Acting(t) /\ Note(t, input, steps) /\ ~mixed
    BY <1>1 DEF Note, Bounded
  <2>2. QED
    BY <2>1, ActsAlone DEF Acting, Idle, Note
<1>3. /\ \A u \in Threads : u # t => thread'[u] = thread[u]
      /\ thread'[t].mode = "acting" /\ thread'[t].on = bidiActive /\ thread'[t].todo = steps
  <2>1. steps \in Seq(HidSteps) /\ Do(t, steps) /\ thread[t].on # NoSession
    BY <1>1, <1>2, Typed DEF NoteOK, Note
  <2>2. QED
    BY <1>2, <2>1, DoDoes DEF ServedInv
<1>4. /\ session'[bidiActive].input = input
      /\ \A s \in BiDiSessions : s # bidiActive => session'[s] = session[s]
  BY <1>2, Typed
<1>5. Shaped'
  <2>1. TodoShape(thread'[t])
    BY <1>1, <1>3 DEF NoteOK, TodoShape
  <2>2. QED
    BY <1>3, <2>1 DEF HeldInv, Shaped
<1>6. Alone'
  <2> SUFFICES ASSUME NEW v \in Threads, thread'[v].mode = "acting"
               PROVE  (Lone(v) /\ Noting(v) /\ LiftReady(v))'
    BY DEF Alone
  <2>1. v = t
    BY <1>2, <1>3
  <2>2. Lone(v)'
    BY <1>2, <1>3, <2>1 DEF Lone
  <2>3. Noting(v)'
    BY <1>1, <1>3, <1>4, <2>1 DEF Noting, NoteOK
  <2>4. LiftReady(v)'
    <3>1. steps # <<lifted>>
      BY <1>1, ShortSeqs DEF NoteOK
    <3>2. QED
      BY <1>3, <2>1, <3>1 DEF LiftReady
  <2>5. QED
    BY <2>2, <2>3, <2>4
<1>7. Accounted'
  <2> SUFFICES ASSUME ~mixed', ~cut', NEW d \in down' PROVE (d \in Noted)' \/ \E u \in Threads : Owes(u, d)'
    BY DEF Accounted
  <2>1. d \in Noted \/ \E u \in Threads : Owes(u, d)
    BY <1>2 DEF HeldInv, Accounted
  <2>2. CASE d \in Noted
    <3>1. d \in InputHeld(Input(t))
      BY <1>2, <2>2, Typed DEF Noted, Input
    <3>2. d \in InputHeld(input) \/ Lets(d) \in Elems(steps)
      BY <1>1, <3>1 DEF NoteOK
    <3>3. CASE d \in InputHeld(input)
      BY <1>2, <1>4, <3>3, Typed DEF Noted
    <3>4. CASE Lets(d) \in Elems(steps)
      BY <1>3, <3>4 DEF Owes
    <3>5. QED
      BY <3>2, <3>3, <3>4
  <2>3. ASSUME NEW u \in Threads, Owes(u, d) PROVE Owes(u, d)'
    <3>1. u # t
      BY <1>2, <2>3, ShortSeqs DEF Owes
    <3>2. thread[u].todo = <<collect>> => thread[u].on \in BiDiSessions /\ thread[u].on # bidiActive
      BY <1>2, <3>1, Typed, ShortSeqs
    <3>3. QED
      BY <1>3, <1>4, <2>3, <3>1, <3>2 DEF Owes
  <2>4. QED
    BY <2>1, <2>2, <2>3
<1>8. QED
  BY <1>5, <1>6, <1>7 DEF HeldInv

LEMMA CollectsKeeps ==
    ASSUME BiDiConstants, ServedInv, HeldInv, NEW t \in Threads, releaseAllInput(t)
    PROVE  HeldInv'
<1> DEFINE s == thread[t].on
<1>1. PICK q \in Seq(HidSteps) : /\ Do(t, q) /\ Elems(q) \subseteq Releases
                              /\ \A d \in InputHeld(Input(t)) : Lets(d) \in Elems(q)
  BY Collects
<1>2. /\ thread[t].todo # <<>> /\ Head(thread[t].todo) = collect /\ s \in BiDiSessions
      /\ session' = [session EXCEPT ![s].input = NoInput]
      /\ UNCHANGED <<bidiActive, conn, down, mixed, cut>>
  BY Collects
<1>3. /\ \A u \in Threads : u # t => thread'[u] = thread[u]
      /\ thread'[t].mode = thread[t].mode /\ thread'[t].on = s /\ thread'[t].todo = q
  BY <1>1, <1>2, Typed, DoDoes DEF ServedInv
<1>4. collect \in Elems(thread[t].todo)
  BY <1>2, Typed, ElemsAre
<1>5. thread[t].mode # "acting" /\ thread[t].todo = <<collect>>
  <2>1. collect \notin Releases
    BY StepsApart DEF Releases
  <2>2. TodoShape(thread[t])
    BY DEF HeldInv, Shaped
  <2>3. QED
    BY <1>4, <2>1, <2>2 DEF TodoShape
<1>6. /\ session'[s].input = NoInput
      /\ \A z \in BiDiSessions : z # s => session'[z] = session[z]
  BY <1>2, Typed
<1>7. Shaped'
  <2>1. TodoShape(thread'[t])
    BY <1>1, <1>3, <1>5 DEF TodoShape
  <2>2. QED
    BY <1>3, <2>1 DEF HeldInv, Shaped
<1>8. Alone'
  <2> SUFFICES ASSUME ~mixed', NEW v \in Threads, thread'[v].mode = "acting"
               PROVE  (Lone(v) /\ Noting(v) /\ LiftReady(v))'
    BY DEF Alone
  <2>1. v # t /\ thread'[v] = thread[v] /\ thread[v].mode = "acting" /\ ~mixed
    BY <1>2, <1>3, <1>5
  <2>2. /\ Lone(v) /\ Noting(v) /\ LiftReady(v) /\ thread[v].on \in BiDiSessions /\ thread[v].on # s
    BY <2>1, ActsAlone, Typed DEF HeldInv, Alone, Lone
  <2>3. Lone(v)'
    BY <1>2, <1>3, <2>1, <2>2 DEF Lone
  <2>4. Noting(v)' /\ LiftReady(v)'
    BY <1>2, <1>6, <2>1, <2>2 DEF Noting, LiftReady
  <2>5. QED
    BY <2>3, <2>4
<1>9. Accounted'
  <2> SUFFICES ASSUME ~mixed', ~cut', NEW d \in down' PROVE (d \in Noted)' \/ \E u \in Threads : Owes(u, d)'
    BY DEF Accounted
  <2>1. d \in Noted \/ \E u \in Threads : Owes(u, d)
    BY <1>2 DEF HeldInv, Accounted
  <2>2. ASSUME d \in InputHeld(session[s].input) PROVE Owes(t, d)'
    BY <1>1, <1>3, <2>2 DEF Owes, Input
  <2>3. CASE d \in Noted
    <3>1. CASE bidiActive = s
      BY <2>2, <2>3, <3>1 DEF Noted
    <3>2. CASE bidiActive # s
      BY <1>2, <1>6, <2>3, <3>2, Typed DEF Noted
    <3>3. QED
      BY <2>2, <3>1, <3>2
  <2>4. ASSUME NEW u \in Threads, Owes(u, d) PROVE \E w \in Threads : Owes(w, d)'
    <3>1. CASE thread[u].todo = <<collect>> /\ d \in InputHeld(session[thread[u].on].input)
      <4>1. thread[u].on \in BiDiSessions
        BY <3>1, Typed, ShortSeqs
      <4>2. CASE thread[u].on = s
        BY <2>2, <3>1, <4>2
      <4>3. CASE thread[u].on # s
        <5>1. u # t /\ session'[thread[u].on] = session[thread[u].on]
          BY <1>6, <4>1, <4>3
        <5>2. Owes(u, d)'
          BY <1>3, <3>1, <5>1 DEF Owes
        <5>3. QED
          BY <5>2
      <4>4. QED
        BY <4>2, <4>3
    <3>2. CASE Lets(d) \in Elems(thread[u].todo)
      <4>1. u # t
        <5>1. d \in HidInputs
          BY <1>2, Typed
        <5>2. Elems(<<collect>>) = {collect}
          BY ShortSeqs
        <5>3. collect # Lets(d)
          BY <5>1, StepsApart
        <5>4. QED
          BY <1>5, <3>2, <5>2, <5>3
      <4>2. Owes(u, d)'
        BY <1>3, <3>2, <4>1 DEF Owes
      <4>3. QED
        BY <4>2
    <3>3. QED
      BY <2>4, <3>1, <3>2 DEF Owes
  <2>5. QED
    BY <2>1, <2>2, <2>3, <2>4
<1>10. QED
  BY <1>7, <1>8, <1>9 DEF HeldInv

LEMMA LiftedKeeps ==
    ASSUME BiDiConstants, ServedInv, HeldInv, NEW t \in Threads, Lifted(t)
    PROVE  HeldInv'
<1> DEFINE s == thread[t].on
           q == thread[t].todo
           i == session[s].input
           input == [i EXCEPT !.touchState = "none"]
<1>1. /\ q # <<>> /\ Head(q) = lifted /\ s \in BiDiSessions /\ q \in Seq(HidSteps)
      /\ Do(t, Tail(q)) /\ UNCHANGED <<bidiActive, conn, down, mixed, cut>>
  BY Typed DEF Lifted, Idle
<1>2. session' = [session EXCEPT ![s].input = input]
  BY <1>1, Typed DEF Lifted
<1>3. lifted \in Elems(q)
  BY <1>1, ElemsAre
<1>4. thread[t].mode = "acting" /\ q = <<lifted>>
  <2>1. lifted \notin Releases
    BY StepsApart DEF Releases
  <2>2. TodoShape(thread[t])
    BY DEF HeldInv, Shaped
  <2>3. thread[t].mode = "acting"
    <3>1. q # <<collect>>
      BY <1>1, ShortSeqs, StepsApart
    <3>2. QED
      BY <1>3, <2>1, <2>2, <3>1 DEF TodoShape
  <2>4. q = <<lifted>> \/ q = <<Lets("finger"), lifted>>
    BY <1>3, <2>2, <2>3 DEF TodoShape
  <2>5. Head(<<Lets("finger"), lifted>>) = Lets("finger") /\ Lets("finger") # lifted
    BY ShortSeqs, StepsApart DEF HidInputs
  <2>6. QED
    BY <1>1, <2>3, <2>4, <2>5
<1>5. Tail(q) = <<>> /\ <<>> \in Seq(HidSteps)
  BY <1>4, ShortSeqs
<1>6. /\ \A u \in Threads : u # t => thread'[u] = thread[u]
      /\ thread'[t].mode = "acting" /\ thread'[t].on = s /\ thread'[t].todo = <<>>
  BY <1>1, <1>4, <1>5, Typed, DoDoes DEF ServedInv
<1>7. i \in HeldInputs
  BY <1>1, Typed
<1>8. input \in HeldInputs /\ InputHeld(i) \ {"finger"} \subseteq InputHeld(input)
  <2>1. input \in HeldInputs /\ input.heldKeys = i.heldKeys /\ input.heldButtons = i.heldButtons
    BY <1>7 DEF HeldInputs
  <2> HIDE DEF input, i
  <2>2. QED
    BY <1>7, <2>1, HeldIs
<1> HIDE DEF input
<1>9. session'[s].input = input /\ \A z \in BiDiSessions : z # s => session'[z] = session[z]
  BY <1>1, <1>2, Typed
<1>10. Shaped'
  BY <1>6, IdleShape DEF HeldInv, Shaped
<1>11. ~mixed => s = bidiActive /\ "finger" \notin down
                 /\ \A u \in Threads : u # t => thread[u].on # s /\ thread[u].mode # "acting"
  BY <1>4, ActsAlone DEF HeldInv, Alone, LiftReady
<1>12. Alone'
  <2> SUFFICES ASSUME ~mixed', NEW v \in Threads, thread'[v].mode = "acting"
               PROVE  (Lone(v) /\ Noting(v) /\ LiftReady(v))'
    BY DEF Alone
  <2>1. v = t /\ ~mixed
    BY <1>1, <1>6, <1>11
  <2>2. Lone(v)'
    BY <1>1, <1>6, <1>11, <2>1 DEF Lone
  <2>3. Noting(v)'
    <3>1. Elems(<<>>) = {}
      BY ShortSeqs
    <3>2. QED
      BY <1>6, <2>1, <3>1 DEF Noting
  <2>4. LiftReady(v)'
    <3>1. <<lifted>> # <<>>
      BY ShortSeqs
    <3>2. QED
      BY <1>6, <2>1, <3>1 DEF LiftReady
  <2>5. QED
    BY <2>2, <2>3, <2>4
<1>13. Accounted'
  <2> SUFFICES ASSUME ~mixed', ~cut', NEW d \in down' PROVE (d \in Noted)' \/ \E u \in Threads : Owes(u, d)'
    BY DEF Accounted
  <2>1. /\ d \in Noted \/ \E u \in Threads : Owes(u, d)
        /\ d \in down /\ ~mixed
    BY <1>1 DEF HeldInv, Accounted
  <2>2. CASE d \in Noted
    <3>1. d # "finger" /\ s = bidiActive
      BY <1>11, <2>1
    <3>2. d \in InputHeld(input)
      BY <1>8, <2>2, <3>1, Typed DEF Noted
    <3>3. QED
      BY <1>1, <1>9, <3>1, <3>2, Typed DEF Noted
  <2>3. ASSUME NEW u \in Threads, Owes(u, d) PROVE Owes(u, d)'
    <3>1. u # t
      <4>1. d \in HidInputs
        BY <2>1, Typed
      <4>2. lifted # Lets(d) /\ lifted # collect
        BY <4>1, StepsApart
      <4>3. Elems(<<lifted>>) = {lifted} /\ <<lifted>> # <<collect>>
        BY <4>2, ShortSeqs
      <4>4. QED
        BY <1>4, <2>3, <4>2, <4>3 DEF Owes
    <3>2. thread[u].todo = <<collect>> => thread[u].on \in BiDiSessions /\ thread[u].on # s
      BY <1>11, <2>1, <3>1, Typed, ShortSeqs
    <3>3. QED
      BY <1>6, <1>9, <2>3, <3>1, <3>2 DEF Owes
  <2>4. QED
    BY <2>1, <2>2, <2>3
<1>14. QED
  BY <1>10, <1>12, <1>13 DEF HeldInv

\* A call that is out, as far as what the backend holds goes.
LEMMA CallAccounts ==
    ASSUME BiDiConstants, ServedInv, HeldInv, ~mixed, ~cut, NEW t \in Threads, Call(t), NEW e \in down'
    PROVE  \/ e \in Noted \/ \E u \in Threads : u # t /\ Owes(u, e)
           \/ Lets(e) \in Elems(Tail(thread[t].todo))
<1> DEFINE q == thread[t].todo
           step == Head(q)
<1>1. PICK d \in HidInputs : \/ step = Presses(d) /\ down' = down \cup {d}
                             \/ step = Lets(d) /\ down' = down \ {d}
  BY CallSteps
<1>2. q # <<>> /\ q \in Seq(HidSteps)
  BY CallSteps, Typed
<1>3. step \in Elems(q) /\ Elems(q) = {step} \cup Elems(Tail(q))
  BY <1>2, ElemsAre
<1>4. e \in HidInputs
  BY <1>1, Typed
<1>5. step # collect /\ step # lifted
  BY <1>1, StepsApart
<1>6. CASE e \notin down
  <2>1. step = Presses(d) /\ e = d
    BY <1>1, <1>6
  <2>2. thread[t].mode = "acting"
    <3>1. Presses(d) \notin Releases
      BY <1>1, StepsApart DEF Releases
    <3>2. Elems(<<collect>>) = {collect}
      BY ShortSeqs
    <3>3. TodoShape(thread[t])
      BY DEF HeldInv, Shaped
    <3>4. QED
      BY <1>3, <1>5, <2>1, <3>1, <3>2, <3>3 DEF TodoShape
  <2>3. Noting(t) /\ thread[t].on = bidiActive /\ bidiActive \in BiDiSessions
    BY <2>2, ActsAlone DEF HeldInv, Alone
  <2>4. e \in Noted
    BY <1>3, <1>4, <2>1, <2>3, Typed DEF Noting, Noted
  <2>5. QED
    BY <2>4
<1>7. CASE e \in down
  <2>1. e \in Noted \/ \E u \in Threads : Owes(u, e)
    BY <1>7 DEF HeldInv, Accounted
  <2>2. ASSUME Owes(t, e) PROVE Lets(e) \in Elems(Tail(q))
    <3>1. Lets(e) \in Elems(q)
      <4>1. Head(<<collect>>) = collect
        BY ShortSeqs
      <4>2. QED
        BY <1>5, <2>2, <4>1 DEF Owes
    <3>2. step # Lets(e)
      <4>1. step = Lets(e) => e = d /\ down' = down \ {d}
        BY <1>1, <1>4, StepsApart
      <4>2. QED
        BY <4>1
    <3>3. QED
      BY <1>3, <3>1, <3>2
  <2>3. QED
    BY <2>1, <2>2
<1>8. QED
  BY <1>6, <1>7

LEMMA StepElems ==
    \A z \in Seq(HidSteps) : Range(z) = Elems(z) /\ (z # <<>> => Elems(Tail(z)) \subseteq Elems(z))
  BY ElemsAre

LEMMA CallKeeps ==
    ASSUME BiDiConstants, ServedInv, HeldInv, NEW t \in Threads, Call(t)
    PROVE  HeldInv'
<1> DEFINE q == thread[t].todo
           rest == Tail(q)
<1>1. PICK d \in HidInputs : \/ Head(q) = Presses(d) /\ down' = down \cup {d}
                             \/ Head(q) = Lets(d) /\ down' = down \ {d}
  BY CallSteps
<1>2. /\ q # <<>> /\ q \in Seq(HidSteps) /\ rest \in Seq(HidSteps) /\ thread[t].on \in BiDiSessions
      /\ Elems(q) = {Head(q)} \cup Elems(rest) /\ UNCHANGED <<bidiActive, conn, mixed>>
  BY CallSteps, Typed, ElemsAre DEF Call
<1>3. Head(q) # collect /\ Head(q) # lifted /\ q # <<collect>>
  <2>1. Head(<<collect>>) = collect
    BY ShortSeqs
  <2>2. QED
    BY <1>1, <2>1, StepsApart
<1>4. TodoShape(thread[t])
  BY DEF HeldInv, Shaped
<1>5. thread[t].mode # "acting" => Elems(q) \subseteq Releases /\ \A e \in HidInputs : Head(q) # Presses(e)
  <2>1. \A e \in HidInputs : Presses(e) \notin Releases
    BY StepsApart DEF Releases
  <2>2. QED
    BY <1>2, <1>3, <1>4, <2>1 DEF TodoShape
\* While one acts, the others only let go.
<1>6. \A v \in Threads : ~mixed /\ thread[v].mode = "acting" /\ v # t => down' \subseteq down
  <2> SUFFICES ASSUME NEW v \in Threads, ~mixed, thread[v].mode = "acting", v # t PROVE down' \subseteq down
    OBVIOUS
  <2>1. thread[t].mode # "acting"
    BY ActsAlone
  <2>2. QED
    BY <1>1, <1>5, <2>1
<1>7. ASSUME Do(t, rest), UNCHANGED <<session, cut>> PROVE HeldInv'
  <2>1. /\ \A u \in Threads : u # t => thread'[u] = thread[u]
        /\ thread'[t].mode = thread[t].mode /\ thread'[t].on = thread[t].on /\ thread'[t].todo = rest
    BY <1>2, <1>7, Typed, DoDoes DEF ServedInv
  <2>2. Shaped'
    <3>1. CASE thread[t].mode # "acting"
      BY <1>2, <1>5, <2>1, <3>1 DEF HeldInv, Shaped, TodoShape
    <3>2. CASE thread[t].mode = "acting"
      <4>1. collect \notin Elems(rest)
        BY <1>2, <1>4, <3>2 DEF TodoShape
      <4>2. rest # <<>> => Elems(Tail(rest)) \subseteq Elems(rest)
        BY <1>2, StepElems
      <4>3. lifted \in Elems(rest) => rest = <<lifted>>
        <5>1. Head(<<lifted>>) = lifted /\ Tail(<<Lets("finger"), lifted>>) = <<lifted>>
          BY ShortSeqs
        <5>2. QED
          BY <1>2, <1>3, <1>4, <3>2, <5>1 DEF TodoShape
      <4>4. TodoShape(thread'[t])
        BY <1>2, <1>4, <2>1, <3>2, <4>1, <4>2, <4>3 DEF TodoShape
      <4>5. QED
        BY <2>1, <4>4 DEF HeldInv, Shaped
    <3>3. QED
      BY <3>1, <3>2
  <2>3. Alone'
    <3> SUFFICES ASSUME ~mixed', NEW v \in Threads, thread'[v].mode = "acting"
                 PROVE  (Lone(v) /\ Noting(v) /\ LiftReady(v))'
      BY DEF Alone
    <3>1. thread[v].mode = "acting" /\ ~mixed
      BY <1>2, <2>1
    <3>2. Lone(v) /\ Noting(v) /\ LiftReady(v)
      BY <3>1 DEF HeldInv, Alone
    <3>3. thread'[v].on = thread[v].on /\ Elems(thread'[v].todo) \subseteq Elems(thread[v].todo)
      BY <1>2, <2>1
    <3>4. Lone(v)'
      BY <1>2, <2>1, <3>2 DEF Lone
    <3>5. Noting(v)'
      BY <1>7, <3>2, <3>3 DEF Noting
    <3>6. LiftReady(v)'
      <4>1. CASE v # t
        BY <1>6, <2>1, <3>1, <3>2, <4>1 DEF LiftReady
      <4>2. CASE v = t /\ rest = <<lifted>>
        <5>1. Elems(<<lifted>>) = {lifted} /\ Head(<<lifted>>) = lifted
              /\ Head(<<Lets("finger"), lifted>>) = Lets("finger")
          BY ShortSeqs
        <5>2. q = <<Lets("finger"), lifted>>
          BY <1>2, <1>3, <1>4, <3>1, <4>2, <5>1 DEF TodoShape
        <5>3. Head(q) = Lets("finger") /\ "finger" \in HidInputs
          BY <5>1, <5>2 DEF HidInputs
        <5>4. d = "finger" /\ down' = down \ {d}
          BY <1>1, <5>3, StepsApart
        <5>5. QED
          BY <5>4 DEF LiftReady
      <4>3. CASE v = t /\ rest # <<lifted>>
        BY <2>1, <4>3 DEF LiftReady
      <4>4. QED
        BY <4>1, <4>2, <4>3
    <3>7. QED
      BY <3>4, <3>5, <3>6
  <2>4. Accounted'
    <3> SUFFICES ASSUME ~mixed', ~cut', NEW e \in down' PROVE (e \in Noted)' \/ \E u \in Threads : Owes(u, e)'
      BY DEF Accounted
    <3>1. \/ e \in Noted \/ \E u \in Threads : u # t /\ Owes(u, e)
          \/ Lets(e) \in Elems(rest)
      BY <1>2, <1>7, CallAccounts
    <3>2. CASE e \in Noted
      BY <1>2, <1>7, <3>2 DEF Noted
    <3>3. ASSUME NEW u \in Threads, u # t, Owes(u, e) PROVE Owes(u, e)'
      BY <1>7, <2>1, <3>3 DEF Owes
    <3>4. CASE Lets(e) \in Elems(rest)
      BY <2>1, <3>4 DEF Owes
    <3>5. QED
      BY <3>1, <3>2, <3>3, <3>4
  <2>5. QED
    BY <2>2, <2>3, <2>4 DEF HeldInv
\* A call that fails ends the actions.
<1>8. ASSUME thread[t].mode = "acting", Finish(t), cut' = (cut \/ release("shift") \in Range(rest)) PROVE HeldInv'
  <2>1. /\ thread'[t] = Free /\ \A u \in Threads : u # t => thread'[u] = thread[u]
        /\ bidiActive \in BiDiSessions => session'[bidiActive] = session[bidiActive]
        /\ \A u \in Threads : u # t /\ thread[u].on \in BiDiSessions
                                => session'[thread[u].on] = session[thread[u].on]
    BY <1>8, FinishDoes DEF ServedInv
  <2>2. Shaped'
    BY <2>1, FreeTyped, IdleShape DEF HeldInv, Shaped
  <2>3. Alone'
    <3> SUFFICES ASSUME ~mixed', NEW v \in Threads, thread'[v].mode = "acting" PROVE FALSE
      BY DEF Alone
    <3>1. v # t /\ thread[v].mode = "acting" /\ ~mixed
      BY <1>2, <2>1, FreeTyped
    <3>2. QED
      BY <1>8, <3>1, ActsAlone
  <2>4. Accounted'
    <3> SUFFICES ASSUME ~mixed', ~cut', NEW e \in down' PROVE (e \in Noted)' \/ \E u \in Threads : Owes(u, e)'
      BY DEF Accounted
    <3>1. ~cut /\ release("shift") \notin Range(rest) /\ ~mixed
      BY <1>2, <1>8
    <3>2. \/ e \in Noted \/ \E u \in Threads : u # t /\ Owes(u, e)
          \/ Lets(e) \in Elems(rest)
      BY <3>1, CallAccounts
    <3>3. CASE e \in Noted
      BY <1>2, <2>1, <3>3, Typed DEF Noted
    <3>4. ASSUME NEW u \in Threads, u # t, Owes(u, e) PROVE Owes(u, e)'
      <4>1. thread[u].todo = <<collect>> => thread[u].on \in BiDiSessions
        BY Typed, ShortSeqs
      <4>2. QED
        BY <2>1, <3>4, <4>1 DEF Owes
    <3>5. Lets(e) \notin Elems(rest)
      <4>1. e \in HidInputs
        BY <1>1, Typed
      <4>2. Lets(e) \in Elems(rest) => e = "shift"
        BY <1>2, <1>4, <1>8, <4>1 DEF TodoShape
      <4>3. Range(rest) = Elems(rest) /\ release("shift") = Lets("shift")
        BY <1>2, StepElems, StepsApart
      <4>4. QED
        BY <3>1, <4>2, <4>3
    <3>6. QED
      BY <3>2, <3>3, <3>4, <3>5
  <2>5. QED
    BY <2>2, <2>3, <2>4 DEF HeldInv
<1>9. QED
  BY <1>7, <1>8 DEF Call

LEMMA HeldStep == BiDiConstants /\ ServedInv /\ HeldInv /\ [BiDiNext]_bidiVars => HeldInv'
<1> SUFFICES ASSUME BiDiConstants, ServedInv, HeldInv, [BiDiNext]_bidiVars PROVE HeldInv'
  OBVIOUS
<1>1. CASE UNCHANGED bidiVars
  BY <1>1 DEF bidiVars, HeldInv, Shaped, Alone, Lone, Noting, LiftReady, Accounted, Owes, Noted
<1>2. CASE ConnsChange
  BY <1>2 DEF ConnsChange, HeldInv, Shaped, Alone, Lone, Noting, LiftReady, Accounted, Owes, Noted
<1>3. ASSUME NEW t \in Threads, Passes(t) PROVE HeldInv'
  <2>1. PICK mode \in {"dropping", "closing"} : thread' = [thread EXCEPT ![t] = [Free EXCEPT !.mode = mode]]
    BY <1>3 DEF Passes
  <2>2. /\ thread'[t].on = NoSession /\ thread'[t].mode # "acting" /\ thread'[t].todo = <<>>
        /\ \A u \in Threads : u # t => thread'[u] = thread[u]
    <3>1. t \in DOMAIN thread
      BY DEF ServedInv, ThreadsTyped
    <3>2. thread'[t] = [mode |-> mode, on |-> NoSession, todo |-> <<>>]
      BY <2>1, <3>1 DEF Free
    <3>3. QED
      BY <2>1, <3>2
  <2>3. thread[t].todo = <<>> /\ UNCHANGED <<bidiActive, session, down, mixed, cut>>
    BY <1>3, Typed DEF Passes
  <2>4. QED
    BY <2>2, <2>3, RestKeeps
<1>4. ASSUME NEW t \in Threads, Leaves(t) PROVE HeldInv'
  <2>1. Finish(t) /\ thread[t].todo = <<>> /\ UNCHANGED <<bidiActive, down, mixed, cut>>
    BY <1>4 DEF Leaves, Idle
  <2>2. /\ thread'[t] = Free /\ \A u \in Threads : u # t => thread'[u] = thread[u]
        /\ bidiActive \in BiDiSessions => session'[bidiActive] = session[bidiActive]
        /\ \A u \in Threads : u # t /\ thread[u].on \in BiDiSessions
                                => session'[thread[u].on] = session[thread[u].on]
    BY <2>1, FinishDoes DEF ServedInv
  <2>3. QED
    BY <2>1, <2>2, FreeTyped, RestKeeps
<1>5. QED
  BY <1>1, <1>2, <1>3, <1>4, Effects, NewKeeps, TakesKeeps, NotesKeeps, CallKeeps, LiftedKeeps, CollectsKeeps

-----------------------------------------------------------------------------
\* The inductive invariant of the endpoint.
BiDiIInv == ServedInv /\ HeldInv

LEMMA BiDiInitiate == BiDiConstants /\ BiDiInit => BiDiIInv
<1> SUFFICES ASSUME BiDiConstants, BiDiInit PROVE BiDiIInv
  OBVIOUS
<1>1. \A s \in BiDiSessions : session[s] = [owner |-> "nobody", input |-> NoInput]
  BY DEF BiDiInit, NewSession
<1>2. \A t \in Threads : thread[t] = Free
  BY DEF BiDiInit
<1>3. SessionsTyped
  <2>1. [owner |-> "nobody", input |-> NoInput] \in [owner : Conns \cup {"nobody"}, input : HeldInputs]
    BY NothingHeld
  <2> HIDE DEF NoInput
  <2>2. QED
    BY <2>1 DEF BiDiInit, NewSession, SessionsTyped
<1>4. KeysBounded
  BY <1>1, NothingHeld DEF KeysBounded, BiDiConstants
<1>5. ThreadsTyped
  <2>1. thread \in [Threads -> ThreadRec]
    BY FreeTyped DEF BiDiInit
  <2>2. QED
    BY <1>2, <2>1, FreeTyped DEF ThreadsTyped, ThreadRec
<1>6. RacesTyped /\ OwnerServed
  BY DEF BiDiInit, RacesTyped, OwnerServed
<1>7. Shaped
  BY <1>2, FreeTyped, IdleShape DEF Shaped
<1>8. Alone
  BY <1>2, FreeTyped DEF Alone
<1>9. Accounted
  BY DEF BiDiInit, Accounted
<1>10. QED
  BY <1>3, <1>4, <1>5, <1>6, <1>7, <1>8, <1>9 DEF BiDiIInv, ServedInv, HeldInv

LEMMA BiDiInvariance == BiDiSpec => []BiDiIInv
<1>1. BiDiIInv /\ [BiDiNext]_bidiVars => BiDiIInv'
  BY BiDiConstants, ServedStep, HeldStep DEF BiDiIInv
<1>2. QED
  BY BiDiConstants, BiDiInitiate, <1>1, PTL DEF BiDiSpec

\* Whenever no action and no release is under way, all that the backend holds is
\* noted in the active session, whatever calls fail and whoever ends sessions
\* (InputAccounted; releaseAllInput, bidiDrop and performActions in bidi.go).
THEOREM HeldIsNoted == BiDiSpec => []InputAccounted
<1>1. BiDiIInv => InputAccounted
  <2> SUFFICES ASSUME BiDiIInv, ~mixed, ~cut, Quiet, NEW d \in down PROVE d \in Noted
    BY DEF InputAccounted
  <2>1. d \in Noted \/ \E t \in Threads : Owes(t, d)
    BY DEF BiDiIInv, HeldInv, Accounted
  <2>2. \A t \in Threads : thread[t].todo = <<>>
    BY BiDiConstants, Typed DEF BiDiIInv, Quiet
  <2>3. QED
    BY <2>1, <2>2, ShortSeqs DEF Owes
<1>2. QED
  BY <1>1, BiDiInvariance, PTL

\* The active session's connection is still served, so its end will be noticed
\* (SessionServed; the handler's deferred bidiDrop, and the idle timer's).
THEOREM ServedToTheEnd == BiDiSpec => []SessionServed
<1>1. BiDiIInv => SessionServed
  BY DEF BiDiIInv, ServedInv, OwnerServed, SessionServed
<1>2. QED
  BY <1>1, BiDiInvariance, PTL

\* Type correctness, with the bound on what a session holds.
THEOREM BiDiIsTyped == BiDiSpec => []BiDiTypeOK
<1>1. BiDiIInv => BiDiTypeOK
  <2> SUFFICES ASSUME BiDiIInv PROVE BiDiTypeOK
    OBVIOUS
  <2>1. /\ SessionsTyped /\ KeysBounded /\ ThreadsTyped /\ RacesTyped
    BY DEF BiDiIInv, ServedInv
  <2>2. ASSUME NEW s \in BiDiSessions
        PROVE  /\ session[s].owner \in Conns \cup {"nobody"}
               /\ session[s].input.heldKeys \in BoundedSeq({"x", "shift"}, MaxHeld)
               /\ session[s].input.shiftFor \subseteq {"x"}
               /\ session[s].input.heldButtons \subseteq {"left"}
               /\ session[s].input.touchState \in {"none", "down", "up"}
    <3> DEFINE i == session[s].input
    <3>1. session[s].owner \in Conns \cup {"nobody"} /\ i \in HeldInputs /\ Len(i.heldKeys) <= MaxHeld
      BY <2>1 DEF SessionsTyped, KeysBounded
    <3>2. /\ i.heldKeys \in Seq({"x", "shift"}) /\ i.shiftFor \subseteq {"x"}
          /\ i.heldButtons \subseteq {"left"} /\ i.touchState \in {"none", "down", "up"}
      BY <3>1 DEF HeldInputs
    <3>3. Len(i.heldKeys) \in 0..MaxHeld /\ i.heldKeys \in [1..Len(i.heldKeys) -> {"x", "shift"}]
      BY <3>1, <3>2, BiDiConstants DEF BiDiConstants
    <3>4. i.heldKeys \in BoundedSeq({"x", "shift"}, MaxHeld)
      BY <3>3 DEF BoundedSeq, SeqOf
    <3>5. QED
      BY <3>1, <3>2, <3>4
  <2>3. QED
    BY <2>1, <2>2 DEF BiDiTypeOK, SessionsTyped, ThreadsTyped, RacesTyped
<1>2. QED
  BY <1>1, BiDiInvariance, PTL
=============================================================================
