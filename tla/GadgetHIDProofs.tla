--------------------------- MODULE GadgetHIDProofs ---------------------------
(* Proofs about GadgetHID, for every set of functions and of keys.          *)
EXTENDS GadgetHID, TLAPS

(***************************************************************************)
(* Typing.                                                                 *)
(***************************************************************************)

\* A write leaves the queue, the device and the flags well typed.
LEMMA WriteLockedType ==
    ASSUME LinkTypeOK, NEW f \in Fns, NEW report \in SUBSET Keys, NEW o,
           WriteLocked(f, report, o)
    PROVE  LinkTypeOK'
  BY DEF LinkTypeOK, WriteLocked

\* The end of a call, either way, leaves the function's state well typed.
LEMMA CallEndType ==
    ASSUME FnTypeOK, NEW f \in Fns, NEW c \in Call, NEW owes \in BOOLEAN,
           Succeed(f, c) \/ Fail(f, c, owes)
    PROVE  FnTypeOK'
<1>1. /\ c.final \in SUBSET Keys /\ c.safe \in SUBSET Keys
      /\ c.add \in SUBSET Keys /\ c.del \in SUBSET Keys
  BY DEF Call
<1>2. CASE Succeed(f, c)
  BY <1>1, <1>2 DEF FnTypeOK, Succeed, SetHeld
<1>3. CASE Fail(f, c, owes)
  BY <1>1, <1>3 DEF FnTypeOK, Fail, SetHeld
<1>4. QED
  BY <1>2, <1>3

\* What a command leaves alone stays well typed.
LEMMA CmdUnchangedType ==
    ASSUME TypeOK, UNCHANGED cmdUnchanged
    PROVE  EnvTypeOK' /\ ProcTypeOK' /\ PollTypeOK'
  BY DEF TypeOK, EnvTypeOK, ProcTypeOK, PollTypeOK, cmdUnchanged, env, memory,
         poll, reset

(***************************************************************************)
(* The inductive invariant.                                                *)
(***************************************************************************)

LEMMA NewCallType ==
    ASSUME NEW mid \in SUBSET SUBSET Keys, NEW final \in SUBSET Keys,
           NEW safe \in SUBSET Keys, NEW add \in SUBSET Keys,
           NEW del \in SUBSET Keys
    PROVE  /\ NewCall(mid, final, safe, add, del) \in Call
           /\ NewCall(mid, final, safe, add, del).final = final
           /\ NewCall(mid, final, safe, add, del).safe = safe
           /\ NewCall(mid, final, safe, add, del).add = add
           /\ NewCall(mid, final, safe, add, del).del = del
  BY DEF NewCall, Call

\* Every command is the sending of one call that ends where its caller was
\* told: its only report, its first, one in between or its last.
LEMMA CommandCases ==
    ASSUME IInv, Command
    PROVE  \E f \in Fns :
              \/ \E c \in Call : GoodCall(f, c) /\ Single(f, c)
              \/ \E c \in Call, first \in SUBSET Keys : GoodCall(f, c) /\ Begin(f, first, c)
              \/ SendMid(f)
              \/ SendLast(f)
<1>1. ASSUME NEW f \in Fns
      PROVE  /\ held[f] \in SUBSET Keys /\ told[f] \in SUBSET Keys
             /\ held[f] \subseteq told[f]
  BY DEF IInv, TypeOK, FnTypeOK, HeldWasAsked
<1>2. ASSUME NEW f \in Fns, NEW k \in Keys, Press(f, k)
      PROVE  \E c \in Call : GoodCall(f, c) /\ Single(f, c)
  <2> DEFINE next == held[f] \cup {k}
             c == NewCall({}, next, HeldBoth(f, next), {k}, {})
  <2>1. c \in Call /\ c.final = next /\ c.safe = held[f] \cap next
        /\ c.add = {k} /\ c.del = {}
    BY <1>1, NewCallType DEF HeldBoth
  <2>2. GoodCall(f, c)
    <3> HIDE DEF c
    <3> QED BY <1>1, <2>1 DEF GoodCall
  <2>3. Single(f, c)
    BY <1>2 DEF Press
  <2>4. QED
    <3> HIDE DEF c
    <3> QED BY <2>1, <2>2, <2>3
<1>3. ASSUME NEW f \in Fns, NEW k \in Keys, Release(f, k)
      PROVE  \E c \in Call : GoodCall(f, c) /\ Single(f, c)
  <2> DEFINE next == held[f] \ {k}
             c == NewCall({}, next, HeldBoth(f, next), {}, {k})
  <2>1. c \in Call /\ c.final = next /\ c.safe = held[f] \cap next
        /\ c.add = {} /\ c.del = {k}
    BY <1>1, NewCallType DEF HeldBoth
  <2>2. GoodCall(f, c)
    <3> HIDE DEF c
    <3> QED BY <1>1, <2>1 DEF GoodCall
  <2>3. Single(f, c)
    BY <1>3 DEF Release
  <2>4. QED
    <3> HIDE DEF c
    <3> QED BY <2>1, <2>2, <2>3
<1>4. ASSUME NEW k \in Keys, Click(k)
      PROVE  /\ "mouse" \in Fns
             /\ \E c \in Call, first \in SUBSET Keys :
                    GoodCall("mouse", c) /\ Begin("mouse", first, c)
  <2> DEFINE up == held["mouse"] \ {k}
             first == up \cup {k}
             c == NewCall({}, up, HeldBoth("mouse", up), {}, {k})
  <2>0. "mouse" \in Fns
    BY <1>4 DEF Click
  <2>1. c \in Call /\ c.final = up /\ c.safe = held["mouse"] \cap up
        /\ c.add = {} /\ c.del = {k}
    BY <1>1, <2>0, NewCallType DEF HeldBoth
  <2>2. GoodCall("mouse", c)
    <3> HIDE DEF c
    <3> QED BY <1>1, <2>0, <2>1 DEF GoodCall
  <2>3. Begin("mouse", first, c) /\ first \in SUBSET Keys
    BY <1>1, <1>4, <2>0 DEF Click
  <2>4. QED
    <3> HIDE DEF c, first
    <3> QED BY <2>0, <2>1, <2>2, <2>3
<1>5. ASSUME NEW k \in Keys, Type(k)
      PROVE  /\ "keyboard" \in Fns
             /\ \E c \in Call, first \in SUBSET Keys :
                    GoodCall("keyboard", c) /\ Begin("keyboard", first, c)
  <2> DEFINE c == NewCall(SUBSET Keys, {}, {}, {}, Keys)
             first == held["keyboard"] \cup {k}
  <2>0. "keyboard" \in Fns
    BY <1>5 DEF Type
  <2>1. c \in Call /\ c.final = {} /\ c.safe = {}
    BY NewCallType
  <2>2. GoodCall("keyboard", c)
    <3> HIDE DEF c
    <3> QED BY <2>1 DEF GoodCall
  <2>3. Begin("keyboard", first, c) /\ first \in SUBSET Keys
    BY <1>1, <1>5, <2>0 DEF Type
  <2>4. QED
    <3> HIDE DEF c, first
    <3> QED BY <2>0, <2>1, <2>2, <2>3
<1>6. ASSUME NEW contacts \in SUBSET Keys, Touch(contacts)
      PROVE  /\ "touch" \in Fns
             /\ \E c \in Call : GoodCall("touch", c) /\ Single("touch", c)
  <2> DEFINE c == NewCall({}, contacts, HeldBoth("touch", contacts),
                          contacts, Keys \ contacts)
  <2>0. "touch" \in Fns
    BY <1>6 DEF Touch
  <2>1. c \in Call /\ c.final = contacts /\ c.safe = held["touch"] \cap contacts
        /\ c.add = contacts /\ c.del = Keys \ contacts
    BY <1>1, <2>0, NewCallType DEF HeldBoth
  <2>2. GoodCall("touch", c)
    <3> HIDE DEF c
    <3> QED BY <1>1, <2>0, <2>1 DEF GoodCall
  <2>3. Single("touch", c)
    BY <1>6 DEF Touch
  <2>4. QED
    <3> HIDE DEF c
    <3> QED BY <2>0, <2>1, <2>2, <2>3
<1>7. ASSUME Move
      PROVE  /\ "mouse" \in Fns
             /\ \E c \in Call : /\ GoodCall("mouse", c)
                      /\ \/ Single("mouse", c)
                         \/ \E first \in SUBSET Keys : Begin("mouse", first, c)
  <2> DEFINE h == held["mouse"]
             c == NewCall({h}, h, h, {}, {})
  <2>0. "mouse" \in Fns
    BY <1>7 DEF Move
  <2>1. c \in Call /\ c.final = h /\ c.safe = h /\ c.add = {} /\ c.del = {}
    BY <1>1, <2>0, NewCallType
  <2>2. GoodCall("mouse", c)
    <3> HIDE DEF c
    <3> QED BY <1>1, <2>0, <2>1 DEF GoodCall
  <2>3. Single("mouse", c) \/ Begin("mouse", h, c)
    BY <1>7 DEF Move
  <2>4. QED
    <3> HIDE DEF c
    <3> QED BY <1>1, <2>0, <2>1, <2>2, <2>3
<1>8. CASE \E f \in Fns, k \in Keys : Press(f, k) \/ Release(f, k)
  BY <1>8, <1>2, <1>3
<1>9. CASE \E k \in Keys : Click(k) \/ Type(k)
  BY <1>9, <1>4, <1>5
<1>10. CASE Move
  BY <1>10, <1>7
<1>11. CASE \E contacts \in SUBSET Keys : Touch(contacts)
  BY <1>11, <1>6
<1>12. CASE \E f \in Fns : SendMid(f) \/ SendLast(f)
  BY <1>12
<1>13. QED
  BY <1>8, <1>9, <1>10, <1>11, <1>12 DEF Command

\* What a write does to the link of its function, and to no other's.  Only a
\* device with nobody behind it answers errUSBNotConfigured.
LEMMA WriteEffect ==
    ASSUME IInv, NEW f \in Fns, NEW report \in SUBSET Keys, NEW o,
           WriteLocked(f, report, o)
    PROVE  /\ LinkTypeOK'
           /\ \A g \in Fns \ {f} : /\ slot'[g] = slot[g] /\ lost'[g] = lost[g]
                                  /\ dev'[g] = dev[g]
           /\ o = "ok" => /\ slot'[f] = report /\ lost'[f] = "no"
                          /\ dev' = dev /\ host # "none" /\ dev[f] # "stale"
           /\ o # "ok" => slot' = slot /\ lost' = lost
           /\ o = "noHost" => slot[f] = None /\ phone[f] = {}
           /\ dev'[f] \in {dev[f], "closed"}
<1>1. LinkTypeOK'
  BY WriteLockedType DEF IInv, TypeOK
<1>2. slot \in [Fns -> (SUBSET Keys) \cup {None}]
      /\ dev \in [Fns -> {"closed", "open", "stale"}]
      /\ lost \in [Fns -> {"no", "restart", "reset"}]
  BY DEF IInv, TypeOK, LinkTypeOK
<1>3. o \in Outcomes(f)
  BY DEF WriteLocked
<1>4. o = "ok" => dev[f] # "stale" /\ host # "none"
  BY <1>3 DEF Outcomes
<1>5. o = "noHost" => host = "none" \/ dev[f] = "stale"
  BY <1>3 DEF Outcomes
<1>6. o = "noHost" => slot[f] = None /\ phone[f] = {}
  BY <1>5 DEF IInv, NobodyThere
<1>7. QED
  BY <1>1, <1>2, <1>4, <1>6 DEF WriteLocked

\* The invariant when only function f's call state and link have changed.
LEMMA OneFunction ==
    ASSUME IInv, NEW f \in Fns, UNCHANGED cmdUnchanged,
           LinkTypeOK', FnTypeOK',
           \A g \in Fns \ {f} :
              /\ slot'[g] = slot[g] /\ lost'[g] = lost[g] /\ dev'[g] = dev[g]
              /\ held'[g] = held[g] /\ dirty'[g] = dirty[g] /\ owed'[g] = owed[g]
              /\ call'[g] = call[g] /\ told'[g] = told[g],
           (host = "none" \/ dev'[f] = "stale")
              => slot'[f] = None /\ phone[f] = {},
           call'[f] # Idle => GoodCall(f, call[f])',
           held'[f] \subseteq told'[f],
           dirty'[f] => owed'[f] = held'[f],
           proc # "down" /\ ~(Wire(f)' \subseteq held'[f])
              => dirty'[f] \/ call'[f] # Idle \/ lost'[f] # "no"
    PROVE  IInv'
<1>1. TypeOK'
  BY CmdUnchangedType DEF IInv, TypeOK
<1>2. host' = host /\ phone' = phone /\ proc' = proc
  BY DEF cmdUnchanged, env
<1>3. CallsGood'
  BY DEF IInv, CallsGood, GoodCall
<1>4. NobodyThere'
  BY <1>2 DEF IInv, NobodyThere
<1>5. HeldWasAsked'
  BY DEF IInv, HeldWasAsked
<1>6. OwedIsHeld'
  BY DEF IInv, OwedIsHeld
<1>7. PhoneAccounted'
  BY <1>2 DEF IInv, PhoneAccounted, Wire
<1>8. QED
  BY <1>1, <1>3, <1>4, <1>5, <1>6, <1>7 DEF IInv

\* A call that ends with its last report, or with one that fails.
LEMMA CallEndInv ==
    ASSUME IInv, NEW f \in Fns, NEW c \in Call, GoodCall(f, c),
           UNCHANGED cmdUnchanged,
           NEW report \in SUBSET Keys, NEW o, WriteLocked(f, report, o),
           \/ o = "ok" /\ report = c.final /\ Succeed(f, c)
           \/ o # "ok" /\ \E owes \in BOOLEAN :
                    /\ owes \/ (o = "noHost" /\ ~dirty[f])
                    /\ Fail(f, c, owes)
    PROVE  IInv'
<1>1. /\ FnTypeOK /\ slot \in [Fns -> (SUBSET Keys) \cup {None}]
      /\ NobodyThere
  BY DEF IInv, TypeOK, LinkTypeOK
<1>2. \A S \in SUBSET Keys : S # None
  BY ConstantsAssumption
<1>3. /\ phone' = phone
      /\ c.final \in SUBSET Keys /\ c.safe \in SUBSET Keys
      /\ c.safe \subseteq told[f] \ c.del
      /\ c.final \subseteq (told[f] \ c.del) \cup c.add
  BY DEF cmdUnchanged, env, Call, GoodCall
<1>. DEFINE effect ==
        /\ LinkTypeOK'
        /\ \A g \in Fns \ {f} : /\ slot'[g] = slot[g] /\ lost'[g] = lost[g]
                               /\ dev'[g] = dev[g]
        /\ o = "ok" => /\ slot'[f] = report /\ lost'[f] = "no"
                       /\ dev' = dev /\ host # "none" /\ dev[f] # "stale"
        /\ o # "ok" => slot' = slot /\ lost' = lost
        /\ o = "noHost" => slot[f] = None /\ phone[f] = {}
        /\ dev'[f] \in {dev[f], "closed"}
<1>0. effect
  BY WriteEffect
<1>4. CASE o = "ok" /\ report = c.final /\ Succeed(f, c)
  <2>1. FnTypeOK'
    BY <1>1, <1>4, CallEndType
  <2>2. /\ held'[f] = c.final /\ dirty'[f] = FALSE /\ call'[f] = Idle
        /\ told'[f] = (told[f] \ c.del) \cup c.add
        /\ \A g \in Fns \ {f} :
              /\ held'[g] = held[g] /\ dirty'[g] = dirty[g] /\ owed'[g] = owed[g]
              /\ call'[g] = call[g] /\ told'[g] = told[g]
    BY <1>1, <1>4 DEF Succeed, SetHeld, FnTypeOK
  <2>3. slot'[f] = c.final /\ Wire(f)' = c.final
    BY <1>0, <1>2, <1>3, <1>4 DEF Wire
  <2>4. held'[f] \subseteq told'[f]
    BY <1>3, <2>2
  <2>5. QED
    BY <1>0, <1>4, <2>1, <2>2, <2>3, <2>4, OneFunction
<1>5. ASSUME o # "ok", NEW owes \in BOOLEAN,
             owes \/ (o = "noHost" /\ ~dirty[f]), Fail(f, c, owes)
      PROVE  IInv'
  <2>1. FnTypeOK'
    BY <1>1, <1>5, CallEndType
  <2>2. /\ held'[f] = c.safe /\ call'[f] = Idle
        /\ told'[f] = told[f] \ c.del
        /\ owes => dirty'[f] = TRUE /\ owed'[f] = c.safe
        /\ ~owes => dirty' = dirty /\ owed' = owed
        /\ \A g \in Fns \ {f} :
              /\ held'[g] = held[g] /\ dirty'[g] = dirty[g] /\ owed'[g] = owed[g]
              /\ call'[g] = call[g] /\ told'[g] = told[g]
    BY <1>1, <1>5 DEF Fail, SetHeld, FnTypeOK
  <2>3. slot' = slot /\ lost' = lost /\ dev'[f] \in {dev[f], "closed"}
    BY <1>0, <1>5
  <2>4. ~owes => Wire(f)' = {} /\ ~dirty'[f]
    BY <1>0, <1>3, <1>5, <2>2, <2>3 DEF Wire
  <2>5. host = "none" \/ dev'[f] = "stale" => slot'[f] = None /\ phone[f] = {}
    BY <1>1, <2>3 DEF NobodyThere
  <2>6. held'[f] \subseteq told'[f] /\ (dirty'[f] => owed'[f] = held'[f])
    BY <1>3, <2>2, <2>4
  <2>7. proc # "down" /\ ~(Wire(f)' \subseteq held'[f])
            => dirty'[f] \/ call'[f] # Idle \/ lost'[f] # "no"
    BY <2>2, <2>4
  <2>8. QED
    BY <1>0, <2>1, <2>2, <2>5, <2>6, <2>7, OneFunction
<1>6. QED
  BY <1>4, <1>5

LEMMA CommandInv ==
    ASSUME IInv, Command
    PROVE  IInv'
<1>0. /\ FnTypeOK /\ CallsGood /\ NobodyThere
  BY DEF IInv, TypeOK
<1>1. ASSUME NEW f \in Fns, NEW c \in Call, GoodCall(f, c), Single(f, c)
      PROVE  IInv'
  <2>1. PICK o \in Outcomes(f) :
          /\ WriteLocked(f, c.final, o)
          /\ \/ o = "ok" /\ Succeed(f, c)
             \/ o # "ok" /\ Fail(f, c, dirty[f] \/ o # "noHost")
    BY <1>1 DEF Single
  <2>2. UNCHANGED cmdUnchanged /\ c.final \in SUBSET Keys
    BY <1>1 DEF Single, Call
  <2>3. QED
    BY <1>1, <2>1, <2>2, CallEndInv
<1>2. ASSUME NEW f \in Fns, NEW c \in Call, NEW first \in SUBSET Keys,
             GoodCall(f, c), Begin(f, first, c)
      PROVE  IInv'
  <2>1. PICK o \in Outcomes(f) :
          /\ WriteLocked(f, first, o)
          /\ \/ o = "ok" /\ call' = [call EXCEPT ![f] = c]
                /\ UNCHANGED <<fnState, told, carried>>
             \/ o # "ok" /\ Fail(f, c, dirty[f] \/ o # "noHost")
    BY <1>2 DEF Begin
  <2>2. UNCHANGED cmdUnchanged
    BY <1>2 DEF Begin
  <2>3. CASE o # "ok" /\ Fail(f, c, dirty[f] \/ o # "noHost")
    BY <1>2, <2>1, <2>2, <2>3, CallEndInv
  <2>4. CASE /\ o = "ok" /\ call' = [call EXCEPT ![f] = c]
             /\ UNCHANGED <<fnState, told, carried>>
    <3>1. /\ held' = held /\ dirty' = dirty /\ owed' = owed /\ told' = told
          /\ call'[f] = c /\ \A g \in Fns \ {f} : call'[g] = call[g]
      BY <1>0, <2>4 DEF fnState, FnTypeOK
    <3>2. FnTypeOK'
      BY <1>0, <2>4 DEF fnState, FnTypeOK
    <3>3. c # Idle
      BY ConstantsAssumption
    <3>4. GoodCall(f, call[f])'
      BY <1>2, <3>1 DEF GoodCall
    <3>5. held'[f] \subseteq told'[f] /\ (dirty'[f] => owed'[f] = held'[f])
      BY <3>1 DEF IInv, HeldWasAsked, OwedIsHeld
    <3>6. /\ LinkTypeOK'
          /\ \A g \in Fns \ {f} : /\ slot'[g] = slot[g] /\ lost'[g] = lost[g]
                                 /\ dev'[g] = dev[g]
          /\ dev' = dev /\ host # "none" /\ dev[f] # "stale"
      BY <2>1, <2>4, WriteEffect
    <3>7. QED
      BY <2>2, <3>1, <3>2, <3>3, <3>4, <3>5, <3>6, OneFunction
  <2>5. QED
    BY <2>1, <2>3, <2>4
<1>3. ASSUME NEW f \in Fns, SendMid(f)
      PROVE  IInv'
  <2>1. GoodCall(f, call[f]) /\ call[f] \in Call
    BY <1>0, <1>3 DEF SendMid, CallsGood, GoodCall
  <2>2. UNCHANGED cmdUnchanged
    BY <1>3 DEF SendMid
  <2>3. PICK r \in call[f].mid, o \in Outcomes(f) :
          /\ WriteLocked(f, r, o)
          /\ \/ o = "ok" /\ UNCHANGED <<fnState, call, told, carried>>
             \/ o # "ok" /\ Fail(f, call[f], TRUE)
    BY <1>3 DEF SendMid
  <2>4. r \in SUBSET Keys
    BY <2>1, <2>3 DEF Call
  <2>5. CASE o # "ok" /\ Fail(f, call[f], TRUE)
    BY <2>1, <2>2, <2>3, <2>4, <2>5, CallEndInv
  <2>6. CASE o = "ok" /\ UNCHANGED <<fnState, call, told, carried>>
    <3>1. /\ held' = held /\ dirty' = dirty /\ owed' = owed /\ told' = told
          /\ call' = call /\ FnTypeOK'
      BY <1>0, <2>6 DEF fnState, FnTypeOK
    <3>2. call'[f] # Idle /\ GoodCall(f, call[f])'
      BY <1>3, <2>1, <3>1 DEF SendMid, GoodCall
    <3>3. held'[f] \subseteq told'[f] /\ (dirty'[f] => owed'[f] = held'[f])
      BY <3>1 DEF IInv, HeldWasAsked, OwedIsHeld
    <3>4. /\ LinkTypeOK'
          /\ \A g \in Fns \ {f} : /\ slot'[g] = slot[g] /\ lost'[g] = lost[g]
                                 /\ dev'[g] = dev[g]
          /\ dev' = dev /\ host # "none" /\ dev[f] # "stale"
      BY <2>3, <2>4, <2>6, WriteEffect
    <3>5. QED
      BY <2>2, <3>1, <3>2, <3>3, <3>4, OneFunction
  <2>7. QED
    BY <2>3, <2>5, <2>6
<1>4. ASSUME NEW f \in Fns, SendLast(f)
      PROVE  IInv'
  <2>1. GoodCall(f, call[f]) /\ call[f] \in Call
    BY <1>0, <1>4 DEF SendLast, CallsGood, GoodCall
  <2>2. UNCHANGED cmdUnchanged /\ call[f].final \in SUBSET Keys
    BY <1>4, <2>1 DEF SendLast, Call
  <2>3. PICK o \in Outcomes(f) :
          /\ WriteLocked(f, call[f].final, o)
          /\ \/ o = "ok" /\ Succeed(f, call[f])
             \/ o # "ok" /\ Fail(f, call[f], TRUE)
    BY <1>4 DEF SendLast
  <2>4. QED
    BY <2>1, <2>2, <2>3, CallEndInv
<1>5. QED
  BY <1>1, <1>2, <1>3, <1>4, CommandCases

(***************************************************************************)
(* The environment, the monitor, the resets and the process.               *)
(***************************************************************************)

\* A step that leaves every function's state, link and calls alone.
LEMMA QuietStep ==
    ASSUME IInv, UNCHANGED <<phone, slot, dev, fnState, call, told, carried, lost>>,
           EnvTypeOK', ProcTypeOK', PollTypeOK', reenumerated' \in BOOLEAN,
           host' = "none" => host = "none",
           proc' # "down" => proc # "down"
    PROVE  IInv'
  BY DEF IInv, TypeOK, LinkTypeOK, FnTypeOK, CallsGood, GoodCall, NobodyThere,
         HeldWasAsked, OwedIsHeld, PhoneAccounted, Wire, fnState

LEMMA EnvironmentInv ==
    ASSUME IInv, Environment
    PROVE  IInv'
<1> USE DEF roadie, memory, poll, reset
<1>0. /\ EnvTypeOK /\ LinkTypeOK /\ FnTypeOK /\ ProcTypeOK /\ PollTypeOK
      /\ NobodyThere /\ CallsGood /\ HeldWasAsked /\ OwedIsHeld /\ PhoneAccounted
  BY DEF IInv, TypeOK
<1>1. \A S \in SUBSET Keys : S # None
  BY ConstantsAssumption
<1>2. CASE Attach
  <2>1. TypeOK'
    BY <1>0, <1>2 DEF Attach, TypeOK, EnvTypeOK, LinkTypeOK, FnTypeOK,
                      ProcTypeOK, PollTypeOK, fnState
  <2>2. \A f \in Fns : slot[f] = None /\ phone[f] = {}
    BY <1>0, <1>2 DEF Attach, NobodyThere
  <2>3. CallsGood' /\ NobodyThere' /\ HeldWasAsked' /\ OwedIsHeld'
    BY <1>0, <1>2 DEF Attach, CallsGood, GoodCall, NobodyThere, HeldWasAsked,
                      OwedIsHeld, fnState
  <2>4. PhoneAccounted'
    BY <1>2, <2>2 DEF Attach, PhoneAccounted, Wire
  <2>5. QED
    BY <2>1, <2>3, <2>4 DEF IInv
<1>3. ASSUME Unplug, UNCHANGED roadie,
             gadget' \in BOOLEAN, pullup' \in BOOLEAN,
             dev' \in [Fns -> {"closed", "open", "stale"}]
      PROVE  IInv'
  <2>1. TypeOK'
    <3>1. EnvTypeOK' /\ ProcTypeOK' /\ PollTypeOK'
      BY <1>0, <1>3 DEF Unplug, EnvTypeOK, ProcTypeOK, PollTypeOK
    <3>2. LinkTypeOK'
      BY <1>0, <1>3 DEF Unplug, LinkTypeOK
    <3>3. FnTypeOK'
      BY <1>0, <1>3 DEF Unplug, FnTypeOK, fnState
    <3>4. QED
      BY <3>1, <3>2, <3>3 DEF TypeOK
  <2>2. \A f \in Fns : slot'[f] = None /\ phone'[f] = {}
    BY <1>3 DEF Unplug
  <2>3. CallsGood' /\ NobodyThere' /\ HeldWasAsked' /\ OwedIsHeld'
    BY <1>0, <1>3, <2>2 DEF CallsGood, GoodCall, NobodyThere, HeldWasAsked,
                            OwedIsHeld, fnState
  <2>4. PhoneAccounted'
    BY <2>2 DEF PhoneAccounted, Wire
  <2>5. QED
    BY <2>1, <2>3, <2>4 DEF IInv
<1>4. CASE Detach
  BY <1>0, <1>3, <1>4 DEF Detach, EnvTypeOK, LinkTypeOK
<1>5. CASE GadgetDown
  BY <1>0, <1>3, <1>5 DEF GadgetDown, EnvTypeOK, LinkTypeOK
<1>6. CASE Suspend \/ Resume \/ GadgetUp
  <2>1. /\ UNCHANGED <<phone, slot, dev, fnState, call, told, carried, lost>>
        /\ reenumerated' = reenumerated /\ proc' = proc
        /\ host' = "none" => host = "none"
    BY <1>6 DEF Suspend, Resume, GadgetUp
  <2>2. EnvTypeOK' /\ ProcTypeOK' /\ PollTypeOK'
    <3>1. EnvTypeOK'
      BY <1>0, <1>6 DEF Suspend, Resume, GadgetUp, EnvTypeOK
    <3>2. ProcTypeOK' /\ PollTypeOK'
      BY <1>0, <1>6 DEF Suspend, Resume, GadgetUp, ProcTypeOK, PollTypeOK
    <3>3. QED
      BY <3>1, <3>2
  <2>3. QED
    BY <1>0, <2>1, <2>2, QuietStep DEF LinkTypeOK
<1>7. ASSUME NEW f \in Fns, Collect(f)
      PROVE  IInv'
  <2>1. slot[f] \in SUBSET Keys
    BY <1>0, <1>7 DEF Collect, LinkTypeOK
  <2>2. TypeOK'
    BY <1>0, <1>7, <2>1 DEF Collect, TypeOK, EnvTypeOK, LinkTypeOK, FnTypeOK,
                            ProcTypeOK, PollTypeOK, fnState
  <2>3. \A g \in Fns : Wire(g)' = Wire(g)
    BY <1>0, <1>7 DEF Collect, Wire, EnvTypeOK, LinkTypeOK
  <2>4. CallsGood' /\ HeldWasAsked' /\ OwedIsHeld'
    BY <1>0, <1>7 DEF Collect, CallsGood, GoodCall, HeldWasAsked, OwedIsHeld,
                      fnState
  <2>5. NobodyThere'
    BY <1>0, <1>7 DEF Collect, NobodyThere, EnvTypeOK, LinkTypeOK
  <2>6. PhoneAccounted'
    BY <1>0, <1>7, <2>3 DEF Collect, PhoneAccounted, fnState
  <2>7. QED
    BY <2>2, <2>4, <2>5, <2>6 DEF IInv
<1>8. QED
  BY <1>2, <1>4, <1>5, <1>6, <1>7 DEF Environment

\* Forgetting one function's state: what the phone may still hold is marked.
LEMMA ForgetInv ==
    ASSUME IInv, NEW f \in Fns, NEW why \in {"restart", "reset"}, Forget(f, why),
           UNCHANGED <<host, phone, slot, dev, call, told>>,
           EnvTypeOK', ProcTypeOK', PollTypeOK', reenumerated' \in BOOLEAN,
           proc' # "down" => proc # "down"
    PROVE  IInv'
<1>0. /\ EnvTypeOK /\ LinkTypeOK /\ FnTypeOK
      /\ NobodyThere /\ CallsGood /\ HeldWasAsked /\ OwedIsHeld /\ PhoneAccounted
  BY DEF IInv, TypeOK
<1>1. TypeOK'
  BY <1>0 DEF TypeOK, LinkTypeOK, FnTypeOK, Forget, SetHeld
<1>2. \A g \in Fns : Wire(g)' = Wire(g)
  BY DEF Wire
<1>3. /\ held'[f] = {} /\ dirty'[f] = FALSE
      /\ lost'[f] = IF Wire(f) = {} THEN "no" ELSE why
      /\ \A g \in Fns \ {f} :
            /\ held'[g] = held[g] /\ dirty'[g] = dirty[g] /\ owed'[g] = owed[g]
            /\ lost'[g] = lost[g]
  BY <1>0 DEF Forget, SetHeld, LinkTypeOK, FnTypeOK
<1>4. CallsGood' /\ NobodyThere'
  BY <1>0 DEF CallsGood, GoodCall, NobodyThere
<1>5. HeldWasAsked' /\ OwedIsHeld'
  BY <1>0, <1>3 DEF HeldWasAsked, OwedIsHeld
<1>6. PhoneAccounted'
  BY <1>0, <1>2, <1>3 DEF PhoneAccounted
<1>7. QED
  BY <1>1, <1>4, <1>5, <1>6 DEF IInv

\* Releasing one function: it now holds nothing, and is owed that if the
\* report did not get through.
LEMMA ReleaseInv ==
    ASSUME IInv, NEW f \in Fns, NEW o \in Outcomes(f), WriteLocked(f, {}, o),
           SetHeld(f, {}), dirty' = [dirty EXCEPT ![f] = (o # "ok")],
           owed' = [owed EXCEPT ![f] = {}],
           UNCHANGED <<host, phone, call, told, proc>>,
           EnvTypeOK', ProcTypeOK', PollTypeOK'
    PROVE  IInv'
<1>0. /\ EnvTypeOK /\ LinkTypeOK /\ FnTypeOK
      /\ NobodyThere /\ CallsGood /\ HeldWasAsked /\ OwedIsHeld /\ PhoneAccounted
  BY DEF IInv, TypeOK
<1>1. /\ LinkTypeOK'
      /\ \A g \in Fns \ {f} : /\ slot'[g] = slot[g] /\ lost'[g] = lost[g]
                             /\ dev'[g] = dev[g]
      /\ o = "ok" => /\ slot'[f] = {} /\ lost'[f] = "no"
                     /\ dev' = dev /\ host # "none" /\ dev[f] # "stale"
      /\ o # "ok" => slot' = slot /\ lost' = lost
      /\ dev'[f] \in {dev[f], "closed"}
  BY WriteEffect
<1>2. TypeOK'
  BY <1>0, <1>1 DEF TypeOK, FnTypeOK, SetHeld
<1>3. /\ held'[f] = {} /\ owed'[f] = {} /\ dirty'[f] = (o # "ok")
      /\ \A g \in Fns \ {f} :
            /\ held'[g] = held[g] /\ dirty'[g] = dirty[g] /\ owed'[g] = owed[g]
  BY <1>0 DEF SetHeld, FnTypeOK
<1>4. CallsGood' /\ NobodyThere'
  BY <1>0, <1>1 DEF CallsGood, GoodCall, NobodyThere
<1>5. HeldWasAsked' /\ OwedIsHeld'
  BY <1>0, <1>3 DEF HeldWasAsked, OwedIsHeld
<1>6. PhoneAccounted'
  <2>1. {} # None
    BY ConstantsAssumption
  <2>2. o = "ok" => Wire(f)' = {}
    BY <1>1, <2>1 DEF Wire
  <2>3. QED
    BY <1>0, <1>1, <1>3, <2>2 DEF PhoneAccounted, Wire
<1>7. QED
  BY <1>2, <1>4, <1>5, <1>6 DEF IInv

LEMMA MonitorInv ==
    ASSUME IInv, Monitor
    PROVE  IInv'
<1> USE DEF env, memory, reset
<1>0. /\ EnvTypeOK /\ LinkTypeOK /\ FnTypeOK /\ ProcTypeOK /\ PollTypeOK
      /\ NobodyThere /\ CallsGood /\ HeldWasAsked /\ OwedIsHeld /\ PhoneAccounted
  BY DEF IInv, TypeOK
<1>1. CASE PollStart
  BY <1>0, <1>1, QuietStep DEF PollStart, EnvTypeOK, LinkTypeOK, ProcTypeOK, PollTypeOK
<1>2. CASE PollGoneEnd
  BY <1>0, <1>2, QuietStep DEF PollGoneEnd, GoTo, EnvTypeOK, LinkTypeOK, ProcTypeOK,
                               PollTypeOK
<1>3. CASE PollForgetEnd
  <2>1. EnvTypeOK' /\ ProcTypeOK' /\ reenumerated' \in BOOLEAN
    BY <1>0, <1>3 DEF PollForgetEnd, EnvTypeOK, LinkTypeOK, ProcTypeOK
  <2>2. PollTypeOK'
    BY <1>0, <1>3 DEF PollForgetEnd, GoTo, AfterSettle, PollTypeOK
  <2>3. QED
    BY <1>3, <2>1, <2>2, QuietStep DEF PollForgetEnd
<1>4. CASE PollReleaseEnd
  <2>1. EnvTypeOK' /\ ProcTypeOK' /\ reenumerated' \in BOOLEAN
    BY <1>0, <1>4 DEF PollReleaseEnd, EnvTypeOK, LinkTypeOK, ProcTypeOK
  <2>2. PollTypeOK'
    BY <1>0, <1>4 DEF PollReleaseEnd, GoTo, PollTypeOK
  <2>3. QED
    BY <1>4, <2>1, <2>2, QuietStep DEF PollReleaseEnd
<1>5. CASE PollEnd
  <2>1. EnvTypeOK' /\ ProcTypeOK' /\ reenumerated' \in BOOLEAN
    BY <1>0, <1>5 DEF PollEnd, EnvTypeOK, LinkTypeOK, ProcTypeOK
  <2>2. PollTypeOK'
    BY <1>0, <1>5 DEF PollEnd, GoTo, PollTypeOK
  <2>3. QED
    BY <1>5, <2>1, <2>2, QuietStep DEF PollEnd
<1>6. CASE PollSettle
  <2>1. EnvTypeOK' /\ ProcTypeOK' /\ reenumerated' \in BOOLEAN
    BY <1>0, <1>6 DEF PollSettle, EnvTypeOK, LinkTypeOK, ProcTypeOK
  <2>2. PollTypeOK'
    <3>1. usb' = seen /\ observed' = TRUE /\ cleanPending' = cleanPending
          /\ known' \in BOOLEAN
      BY <1>6 DEF PollSettle
    <3>2. \E p \in {"idle", "forget", "release", "retry"} : GoTo(p)
      BY <1>6 DEF PollSettle, AfterSettle
    <3>3. QED
      BY <1>0, <3>1, <3>2 DEF GoTo, PollTypeOK
  <2>3. UNCHANGED <<phone, slot, dev, fnState, call, told, carried, lost, host, proc>>
    BY <1>6 DEF PollSettle
  <2>4. QED
    BY <2>1, <2>2, <2>3, QuietStep
<1>7. ASSUME NEW f \in Fns, PollGone(f) \/ PollSync(f)
      PROVE  IInv'
  <2>1. TypeOK'
    <3>1. EnvTypeOK' /\ FnTypeOK'
      BY <1>0, <1>7 DEF PollGone, PollSync, EnvTypeOK, FnTypeOK, fnState
    <3>2. LinkTypeOK'
      BY <1>0, <1>7 DEF PollGone, PollSync, LinkTypeOK, EnvTypeOK
    <3>3. ProcTypeOK'
      BY <1>0, <1>7 DEF PollGone, PollSync, ProcTypeOK, EnvTypeOK
    <3>4. PollTypeOK'
      BY <1>0, <1>7 DEF PollGone, PollSync, PollTypeOK
    <3>5. QED
      BY <3>1, <3>2, <3>3, <3>4 DEF TypeOK
  <2>2. \A g \in Fns : dev'[g] = "stale" => dev[g] = "stale"
    BY <1>0, <1>7 DEF PollGone, PollSync, LinkTypeOK
  <2>3. UNCHANGED <<host, phone, slot, proc, fnState, call, told, lost>>
    BY <1>7 DEF PollGone, PollSync
  <2>4. QED
    BY <1>0, <2>1, <2>2, <2>3 DEF IInv, CallsGood, GoodCall, NobodyThere,
       HeldWasAsked, OwedIsHeld, PhoneAccounted, Wire, fnState
<1>8. ASSUME NEW f \in Fns, PollForget(f)
      PROVE  IInv'
  BY <1>0, <1>8, ForgetInv DEF PollForget, EnvTypeOK, LinkTypeOK, ProcTypeOK,
                               PollTypeOK
<1>9. ASSUME NEW f \in Fns, PollRelease(f)
      PROVE  IInv'
  <2>1. EnvTypeOK' /\ ProcTypeOK' /\ PollTypeOK'
    BY <1>0, <1>9 DEF PollRelease, EnvTypeOK, ProcTypeOK, PollTypeOK
  <2>2. CASE UNCHANGED <<fnState, slot, lost, reenumerated, dev, carried>>
    BY <1>0, <1>9, <2>1, <2>2, QuietStep DEF PollRelease, LinkTypeOK
  <2>3. CASE \E o \in Outcomes(f) :
               /\ WriteLocked(f, {}, o)
               /\ SetHeld(f, {})
               /\ dirty' = [dirty EXCEPT ![f] = (o # "ok")]
               /\ owed' = [owed EXCEPT ![f] = {}]
    BY <1>9, <2>1, <2>3, ReleaseInv DEF PollRelease
  <2>4. QED
    BY <1>9, <2>2, <2>3 DEF PollRelease, ReleaseLocked
<1>10. ASSUME NEW f \in Fns, PollRetry(f)
       PROVE  IInv'
  <2>1. EnvTypeOK' /\ ProcTypeOK' /\ PollTypeOK'
    BY <1>0, <1>10 DEF PollRetry, EnvTypeOK, ProcTypeOK, PollTypeOK
  <2>2. CASE UNCHANGED <<slot, lost, reenumerated, dev, dirty, owed>>
    BY <1>0, <1>10, <2>1, <2>2, QuietStep DEF PollRetry, LinkTypeOK, fnState
  <2>3. ASSUME dirty[f], NEW o \in Outcomes(f), WriteLocked(f, owed[f], o),
               dirty' = [dirty EXCEPT ![f] = (o # "ok")],
               owed' = IF o = "ok" THEN [owed EXCEPT ![f] = {}] ELSE owed
        PROVE  IInv'
    <3>1. owed[f] = held[f] /\ owed[f] \in SUBSET Keys
      BY <1>0, <2>3 DEF OwedIsHeld, FnTypeOK
    <3>2. /\ LinkTypeOK'
          /\ \A g \in Fns \ {f} : /\ slot'[g] = slot[g] /\ lost'[g] = lost[g]
                                 /\ dev'[g] = dev[g]
          /\ o = "ok" => /\ slot'[f] = owed[f] /\ lost'[f] = "no"
                         /\ dev' = dev /\ host # "none" /\ dev[f] # "stale"
          /\ o # "ok" => slot' = slot /\ lost' = lost
          /\ dev'[f] \in {dev[f], "closed"}
      BY <2>3, <3>1, WriteEffect
    <3>3. UNCHANGED <<host, phone, call, told, proc, held, carried>>
      BY <1>10 DEF PollRetry
    <3>4. /\ dirty'[f] = (o # "ok") /\ (o # "ok" => owed' = owed)
          /\ \A g \in Fns \ {f} : dirty'[g] = dirty[g] /\ owed'[g] = owed[g]
      BY <1>0, <2>3 DEF FnTypeOK
    <3>5. TypeOK'
      BY <1>0, <2>1, <2>3, <3>2, <3>3 DEF TypeOK, FnTypeOK
    <3>6. CallsGood' /\ NobodyThere'
      BY <1>0, <3>2, <3>3 DEF CallsGood, GoodCall, NobodyThere
    <3>7. HeldWasAsked' /\ OwedIsHeld'
      BY <1>0, <3>1, <3>3, <3>4 DEF HeldWasAsked, OwedIsHeld
    <3>8. PhoneAccounted'
      <4>1. owed[f] # None
        BY <3>1, ConstantsAssumption
      <4>2. o = "ok" => Wire(f)' = held[f]
        BY <3>1, <3>2, <4>1 DEF Wire
      <4>3. QED
        BY <1>0, <3>2, <3>3, <3>4, <4>2 DEF PhoneAccounted, Wire
    <3>9. QED
      BY <3>5, <3>6, <3>7, <3>8 DEF IInv
  <2>4. QED
    BY <1>10, <2>2, <2>3 DEF PollRetry
<1>11. QED
  BY <1>1, <1>2, <1>3, <1>4, <1>5, <1>6, <1>7, <1>8, <1>9, <1>10 DEF Monitor

LEMMA AdminInv ==
    ASSUME IInv, Admin
    PROVE  IInv'
<1> USE DEF env, memory, poll, adminUnchanged
<1>0. /\ EnvTypeOK /\ LinkTypeOK /\ FnTypeOK /\ ProcTypeOK /\ PollTypeOK
      /\ NobodyThere /\ CallsGood /\ HeldWasAsked /\ OwedIsHeld /\ PhoneAccounted
  BY DEF IInv, TypeOK
<1>1. CASE ResetHIDDisconnect
  <2>1. UNCHANGED <<reenumerated, dev, fnState, call, told, proc>>
    BY <1>1 DEF ResetHIDDisconnect
  <2>2. CASE host = "none"
    <3>1. UNCHANGED <<phone, slot, carried, lost, host>>
      BY <1>1, <2>2 DEF ResetHIDDisconnect
    <3>2. EnvTypeOK' /\ ProcTypeOK' /\ PollTypeOK'
      BY <1>0, <1>1, <2>2 DEF ResetHIDDisconnect, EnvTypeOK, ProcTypeOK, PollTypeOK
    <3>3. QED
      BY <1>0, <2>1, <3>1, <3>2, QuietStep DEF LinkTypeOK
  <2>3. CASE Unplug
    <3>1. EnvTypeOK'
      BY <1>0, <1>1, <2>3 DEF ResetHIDDisconnect, Unplug, EnvTypeOK
    <3>2. LinkTypeOK'
      BY <1>0, <2>1, <2>3 DEF Unplug, LinkTypeOK
    <3>3. FnTypeOK'
      BY <1>0, <2>1, <2>3 DEF Unplug, FnTypeOK, fnState
    <3>4. ProcTypeOK' /\ PollTypeOK'
      BY <1>0, <1>1 DEF ResetHIDDisconnect, ProcTypeOK, PollTypeOK
    <3>5. \A f \in Fns : slot'[f] = None /\ phone'[f] = {}
      BY <2>3 DEF Unplug
    <3>6. CallsGood' /\ NobodyThere' /\ HeldWasAsked' /\ OwedIsHeld' /\ PhoneAccounted'
      BY <1>0, <2>1, <3>5 DEF CallsGood, GoodCall, NobodyThere, HeldWasAsked,
                              OwedIsHeld, PhoneAccounted, Wire, fnState
    <3>7. QED
      BY <3>1, <3>2, <3>3, <3>4, <3>6 DEF IInv, TypeOK
  <2>4. QED
    BY <1>1, <2>2, <2>3 DEF ResetHIDDisconnect
<1>2. CASE ResetHIDConnect
  <2>1. UNCHANGED <<phone, slot, dev, fnState, call, told, carried, lost, host, proc,
                    reenumerated>>
    BY <1>2 DEF ResetHIDConnect
  <2>2. EnvTypeOK' /\ ProcTypeOK' /\ PollTypeOK'
    <3>1. /\ pullup' \in {pullup, TRUE} /\ admin' \in {"forget", "idle"}
          /\ adminTodo' \in {adminTodo, Fns}
      BY <1>2 DEF ResetHIDConnect
    <3>2. UNCHANGED adminUnchanged
      BY <1>2 DEF ResetHIDConnect
    <3>3. EnvTypeOK'
      BY <1>0, <2>1, <3>1, <3>2 DEF EnvTypeOK
    <3>4. ProcTypeOK' /\ PollTypeOK'
      BY <1>0, <3>1, <3>2 DEF ProcTypeOK, PollTypeOK
    <3>5. QED
      BY <3>3, <3>4
  <2>3. QED
    BY <1>0, <2>1, <2>2, QuietStep DEF LinkTypeOK
<1>3. CASE ResetRelay
  <2>1. UNCHANGED <<phone, slot, dev, fnState, call, told, carried, lost, host, proc,
                    reenumerated>>
    BY <1>3 DEF ResetRelay
  <2>2. EnvTypeOK' /\ ProcTypeOK' /\ PollTypeOK'
    BY <1>0, <1>3 DEF ResetRelay, EnvTypeOK, ProcTypeOK, PollTypeOK
  <2>3. QED
    BY <1>0, <2>1, <2>2, QuietStep DEF LinkTypeOK
<1>4. CASE ResetNext
  <2>1. UNCHANGED <<phone, slot, dev, fnState, call, told, carried, lost, host, proc,
                    reenumerated>>
    BY <1>4 DEF ResetNext
  <2>2. EnvTypeOK' /\ ProcTypeOK' /\ PollTypeOK'
    BY <1>0, <1>4 DEF ResetNext, EnvTypeOK, ProcTypeOK, PollTypeOK
  <2>3. QED
    BY <1>0, <2>1, <2>2, QuietStep DEF LinkTypeOK
<1>5. ASSUME NEW f \in Fns, ResetForget(f)
      PROVE  IInv'
  <2>1. UNCHANGED <<host, phone, slot, dev, call, told, proc, reenumerated>>
    BY <1>5 DEF ResetForget
  <2>2. EnvTypeOK' /\ ProcTypeOK' /\ PollTypeOK'
    BY <1>0, <1>5 DEF ResetForget, EnvTypeOK, ProcTypeOK, PollTypeOK
  <2>3. Forget(f, "reset")
    BY <1>5 DEF ResetForget
  <2>4. QED
    BY <1>0, <2>1, <2>2, <2>3, ForgetInv DEF LinkTypeOK
<1>6. ASSUME NEW f \in Fns, ResetRelayClose(f)
      PROVE  IInv'
  <2>1. UNCHANGED <<host, phone, slot, proc, fnState, call, told, carried, lost>>
    BY <1>6 DEF ResetRelayClose
  <2>2. \A g \in Fns : dev'[g] = "stale" => dev[g] = "stale"
    BY <1>0, <1>6 DEF ResetRelayClose, LinkTypeOK
  <2>3. TypeOK'
    BY <1>0, <1>6 DEF ResetRelayClose, TypeOK, EnvTypeOK, LinkTypeOK, FnTypeOK,
                      ProcTypeOK, PollTypeOK, fnState
  <2>4. QED
    BY <1>0, <2>1, <2>2, <2>3 DEF IInv, CallsGood, GoodCall, NobodyThere,
       HeldWasAsked, OwedIsHeld, PhoneAccounted, Wire, fnState
<1>7. QED
  BY <1>1, <1>2, <1>3, <1>4, <1>5, <1>6 DEF Admin

LEMMA LifecycleInv ==
    ASSUME IInv, Lifecycle
    PROVE  IInv'
<1> USE DEF env, memory, poll, reset
<1>0. /\ EnvTypeOK /\ LinkTypeOK /\ FnTypeOK /\ ProcTypeOK /\ PollTypeOK
      /\ NobodyThere /\ CallsGood /\ HeldWasAsked /\ OwedIsHeld /\ PhoneAccounted
  BY DEF IInv, TypeOK
<1>1. ASSUME Die
      PROVE  IInv'
  <2>1. EnvTypeOK' /\ LinkTypeOK'
    BY <1>0, <1>1 DEF Die, NewProcess, EnvTypeOK, LinkTypeOK
  <2>2. FnTypeOK'
    BY <1>1 DEF Die, NewProcess, FnTypeOK
  <2>3. ProcTypeOK' /\ PollTypeOK'
    BY <1>1 DEF Die, NewProcess, ProcTypeOK, PollTypeOK
  <2>4. CallsGood' /\ NobodyThere' /\ HeldWasAsked' /\ OwedIsHeld' /\ PhoneAccounted'
    BY <1>0, <1>1 DEF Die, NewProcess, CallsGood, NobodyThere, HeldWasAsked,
                      OwedIsHeld, PhoneAccounted
  <2>5. QED
    BY <2>1, <2>2, <2>3, <2>4 DEF IInv, TypeOK
<1>2. CASE Start
  <2>1. /\ UNCHANGED <<env, slot, present, dev, closed, fnState, call, memory,
                       reenumerated, poll, reset, told, carried>>
        /\ proc' = "up"
        /\ lost' = [f \in Fns |-> IF Wire(f) = {} THEN "no" ELSE "restart"]
    BY <1>2 DEF Start
  <2>2. TypeOK'
    BY <1>0, <2>1 DEF TypeOK, EnvTypeOK, LinkTypeOK, FnTypeOK, ProcTypeOK,
                      PollTypeOK, fnState
  <2>3. CallsGood' /\ NobodyThere' /\ HeldWasAsked' /\ OwedIsHeld'
    BY <1>0, <2>1 DEF CallsGood, GoodCall, NobodyThere, HeldWasAsked, OwedIsHeld,
                      fnState
  <2>4. \A f \in Fns : Wire(f)' = Wire(f)
    BY <2>1 DEF Wire
  <2>5. PhoneAccounted'
    BY <2>1, <2>4 DEF PhoneAccounted
  <2>6. QED
    BY <2>2, <2>3, <2>5 DEF IInv
<1>3. CASE ShutdownBegin
  BY <1>0, <1>3, QuietStep DEF ShutdownBegin, EnvTypeOK, LinkTypeOK, ProcTypeOK,
                               PollTypeOK
<1>4. ASSUME NEW f \in Fns, ShutdownRelease(f)
      PROVE  IInv'
  <2>1. UNCHANGED <<env, proc, present, call, memory, poll, reset, told>>
    BY <1>4 DEF ShutdownRelease
  <2>2. ProcTypeOK' /\ PollTypeOK' /\ EnvTypeOK'
    BY <1>0, <1>4 DEF ShutdownRelease, ProcTypeOK, PollTypeOK, EnvTypeOK
  <2>3. /\ \A g \in Fns : dev'[g] = "stale" => dev[g] = "stale"
        /\ dev' \in [Fns -> {"closed", "open", "stale"}]
    BY <1>0, <1>4 DEF ShutdownRelease, LinkTypeOK
  <2>4. CASE UNCHANGED <<fnState, slot, lost, reenumerated, carried>>
    <3>1. TypeOK'
      BY <1>0, <2>1, <2>2, <2>3, <2>4 DEF TypeOK, LinkTypeOK, FnTypeOK, fnState
    <3>2. QED
      BY <1>0, <2>1, <2>3, <2>4, <3>1 DEF IInv, CallsGood, GoodCall, NobodyThere,
         HeldWasAsked, OwedIsHeld, PhoneAccounted, Wire, fnState
  <2>5. ASSUME NEW o \in Outcomes(f),
               slot' = IF o = "ok" THEN [slot EXCEPT ![f] = {}] ELSE slot,
               lost' = IF o = "ok" THEN [lost EXCEPT ![f] = "no"] ELSE lost,
               reenumerated' = (reenumerated \/ o = "noHost"),
               SetHeld(f, {}),
               dirty' = [dirty EXCEPT ![f] = (o # "ok")],
               owed' = [owed EXCEPT ![f] = {}]
        PROVE  IInv'
    <3>1. LinkTypeOK'
      BY <1>0, <2>3, <2>5 DEF LinkTypeOK
    <3>2. FnTypeOK'
      BY <1>0, <2>1, <2>5 DEF FnTypeOK, SetHeld
    <3>3. /\ held'[f] = {} /\ owed'[f] = {} /\ dirty'[f] = (o # "ok")
          /\ \A g \in Fns \ {f} :
                /\ held'[g] = held[g] /\ dirty'[g] = dirty[g] /\ owed'[g] = owed[g]
                /\ slot'[g] = slot[g] /\ lost'[g] = lost[g]
          /\ o = "ok" => slot'[f] = {}
      BY <1>0, <2>5 DEF SetHeld, FnTypeOK, LinkTypeOK
    <3>4. CallsGood' /\ HeldWasAsked' /\ OwedIsHeld'
      BY <1>0, <2>1, <3>3 DEF CallsGood, GoodCall, HeldWasAsked, OwedIsHeld
    <3>5. NobodyThere'
      BY <1>0, <2>1, <2>3, <2>5, <3>3 DEF NobodyThere, Outcomes
    <3>6. PhoneAccounted'
      <4>1. {} # None
        BY ConstantsAssumption
      <4>2. o = "ok" => Wire(f)' = {}
        BY <3>3, <4>1 DEF Wire
      <4>3. QED
        BY <1>0, <2>1, <3>3, <4>2 DEF PhoneAccounted, Wire
    <3>7. QED
      BY <2>2, <3>1, <3>2, <3>4, <3>5, <3>6 DEF IInv, TypeOK
  <2>6. QED
    BY <1>4, <2>4, <2>5 DEF ShutdownRelease
<1>5. QED
  BY <1>1, <1>2, <1>3, <1>4 DEF Lifecycle, Kill, Exit

(***************************************************************************)
(* What a step may put in the queue of a function.                         *)
(***************************************************************************)

\* A write only touches its own function's queue, and only when open for it.
LEMMA WriteQueues ==
    ASSUME IInv, NEW f \in Fns, NEW g \in Fns, NEW report, NEW o,
           WriteLocked(g, report, o), slot'[f] # slot[f]
    PROVE  f = g /\ o = "ok" /\ ~closed[f] /\ slot'[f] = report
<1>1. slot \in [Fns -> (SUBSET Keys) \cup {None}]
  BY DEF IInv, TypeOK, LinkTypeOK
<1>2. o = "ok" /\ slot' = [slot EXCEPT ![g] = report]
  BY DEF WriteLocked
<1>3. f = g /\ slot'[f] = report
  BY <1>1, <1>2
<1>4. ~closed[g]
  BY <1>2 DEF WriteLocked, Outcomes
<1>5. QED
  BY <1>2, <1>3, <1>4

\* A step that queues a report does it for a function not yet closed, and if
\* it is not the step of a call that was or is now under way, presses nothing
\* but what callers were told is down.
LEMMA QueueStep ==
    ASSUME IInv, Next, NEW f \in Fns, slot'[f] # slot[f], slot'[f] # None
    PROVE  /\ ~closed[f]
           /\ call[f] = Idle /\ told' = told /\ call' = call
                => slot'[f] \subseteq told[f]
<1>0. /\ slot \in [Fns -> (SUBSET Keys) \cup {None}]
      /\ call \in [Fns -> Call \cup {Idle}]
      /\ told \in [Fns -> SUBSET Keys] /\ held \in [Fns -> SUBSET Keys]
      /\ OwedIsHeld /\ HeldWasAsked
  BY DEF IInv, TypeOK, LinkTypeOK, FnTypeOK
<1>1. CASE Environment
  BY <1>0, <1>1 DEF Environment, Attach, Detach, Suspend, Resume, GadgetDown,
     GadgetUp, Collect, Unplug
<1>2. CASE Command
  <2>1. PICK g \in Fns :
              \/ \E c \in Call : GoodCall(g, c) /\ Single(g, c)
              \/ \E c \in Call, first \in SUBSET Keys : GoodCall(g, c) /\ Begin(g, first, c)
              \/ SendMid(g)
              \/ SendLast(g)
    BY <1>2, CommandCases
  <2>2. ASSUME NEW c \in Call, GoodCall(g, c), Single(g, c)
        PROVE  /\ ~closed[f]
               /\ told' = told => slot'[f] \subseteq told[f]
    <3>1. PICK o \in Outcomes(g) :
                /\ WriteLocked(g, c.final, o)
                /\ \/ o = "ok" /\ Succeed(g, c)
                   \/ o # "ok" /\ Fail(g, c, dirty[g] \/ o # "noHost")
      BY <2>2 DEF Single
    <3>2. f = g /\ o = "ok" /\ ~closed[f] /\ slot'[f] = c.final
      BY <3>1, WriteQueues
    <3>3. told' = [told EXCEPT ![f] = (@ \ c.del) \cup c.add]
      BY <3>1, <3>2 DEF Succeed
    <3>4. told'[f] = (told[f] \ c.del) \cup c.add
      BY <1>0, <3>3
    <3>5. QED
      BY <2>2, <3>2, <3>4 DEF GoodCall
  <2>3. ASSUME NEW c \in Call, NEW first \in SUBSET Keys, Begin(g, first, c)
        PROVE  ~closed[f] /\ ~(call[f] = Idle /\ call' = call)
    <3>1. PICK o \in Outcomes(g) :
                /\ WriteLocked(g, first, o)
                /\ o = "ok" => call' = [call EXCEPT ![g] = c]
      BY <2>3 DEF Begin
    <3>2. f = g /\ o = "ok" /\ ~closed[f]
      BY <3>1, WriteQueues
    <3>3. c # Idle
      BY ConstantsAssumption
    <3>4. QED
      BY <1>0, <3>1, <3>2, <3>3
  <2>4. ASSUME SendMid(g) \/ SendLast(g)
        PROVE  ~closed[f] /\ call[f] # Idle
    <3>1. /\ call[g] # Idle
          /\ \E r, o : WriteLocked(g, r, o)
      BY <2>4 DEF SendMid, SendLast
    <3>2. QED
      BY <3>1, WriteQueues
  <2>5. QED
    BY <2>1, <2>2, <2>3, <2>4
<1>3. CASE Monitor
  <2>1. ASSUME NEW g \in Fns, PollRelease(g)
        PROVE  ~closed[f] /\ slot'[f] = {}
    <3>1. \E o : WriteLocked(g, {}, o)
      BY <2>1 DEF PollRelease, ReleaseLocked
    <3>2. QED
      BY <3>1, WriteQueues
  <2>2. ASSUME NEW g \in Fns, PollRetry(g)
        PROVE  ~closed[f] /\ slot'[f] \subseteq told[f]
    <3>1. dirty[g] /\ \E o : WriteLocked(g, owed[g], o)
      BY <2>2 DEF PollRetry
    <3>2. f = g /\ ~closed[f] /\ slot'[f] = owed[f]
      BY <3>1, WriteQueues
    <3>3. QED
      BY <1>0, <3>1, <3>2 DEF OwedIsHeld, HeldWasAsked
  <2>3. QED
    BY <1>3, <2>1, <2>2 DEF Monitor, PollStart, PollGone, PollGoneEnd, PollSync,
       PollSettle, PollForget, PollForgetEnd, PollReleaseEnd, PollEnd
<1>4. CASE Admin
  BY <1>0, <1>4 DEF Admin, ResetHIDDisconnect, Unplug, ResetHIDConnect, ResetForget,
     ResetRelay, ResetRelayClose, ResetNext, adminUnchanged
<1>5. CASE Lifecycle
  <2>1. ASSUME NEW g \in Fns, ShutdownRelease(g)
        PROVE  ~closed[f] /\ slot'[f] = {}
    <3>1. ~closed[g] /\ slot' = [slot EXCEPT ![g] = {}]
      BY <2>1 DEF ShutdownRelease, IsFirst
    <3>2. QED
      BY <1>0, <3>1
  <2>2. QED
    BY <1>5, <2>1 DEF Lifecycle, Kill, Start, ShutdownBegin, Exit, Die
<1>6. QED
  BY <1>1, <1>2, <1>3, <1>4, <1>5 DEF Next

(***************************************************************************)
(* What a killed roadie left held.  The monitor forgets it instead of      *)
(* releasing it only on evidence that the phone has enumerated since this  *)
(* process started, and such evidence means that the phone holds nothing   *)
(* an earlier process left.                                                *)
(***************************************************************************)

\* What refresh, setUSBState and a write take for a phone that has gone or
\* come back, at the point of the poll where it counts.
EnumeratedSince ==
    \/ host = "none" \/ reenumerated \/ (known /\ moved)
    \/ pc \in {"gone", "forget"} \/ (pc = "sync" /\ seen = "none")
    \/ observed /\ usb = "none"
    \/ \E g \in Fns : dev[g] = "stale"

EvidenceIsTrue == EnumeratedSince => \A f \in Fns : lost[f] # "restart"

\* A process that is down has left nothing of itself behind.
DownIsNew ==
    /\ proc = "down" => /\ ~reenumerated /\ ~known /\ ~observed /\ cleanPending
                        /\ pc = "idle" /\ admin = "idle"
                        /\ \A f \in Fns : call[f] = Idle /\ dev[f] = "closed"
    /\ ~gadget => host = "none"

RelayReset == admin \in {"relayClose", "relayForget"}

\* By its end, a relay reset has forgotten every function.
RelayForgets ==
    admin = "relayForget" => \A f \in Fns \ adminTodo : lost[f] # "restart"

\* A poll that is to release has every node open, and owes what it could not
\* deliver.
LeftoverKept ==
    \A f \in Fns :
        proc = "up" /\ lost[f] = "restart" /\ ~RelayReset =>
            /\ cleanPending \/ dirty[f]
            /\ pc = "sync" /\ allOpen /\ f \notin todo => dev[f] = "open"
            /\ pc = "release" /\ f \in todo => dev[f] = "open"
            /\ pc = "release" /\ f \notin todo => dirty[f]

LeftoverInv == IInv /\ DownIsNew /\ EvidenceIsTrue /\ RelayForgets /\ LeftoverKept

\* A write settles what its function was left with, or changes nothing of it;
\* it loses the phone only where the phone is known to be gone.
LEMMA WriteLeftover ==
    ASSUME LeftoverInv, NEW f \in Fns, NEW report \in SUBSET Keys, NEW o,
           WriteLocked(f, report, o)
    PROVE  /\ \A g \in Fns : lost'[g] = "restart"
                     => lost[g] = "restart" /\ dev'[g] = dev[g]
           /\ lost'[f] = "restart" => o # "ok"
           /\ \A g \in Fns : dev'[g] = "stale" => dev[g] = "stale"
           /\ reenumerated' => EnumeratedSince
<1>1. /\ \A g \in Fns \ {f} : lost'[g] = lost[g] /\ dev'[g] = dev[g]
      /\ o = "ok" => lost'[f] = "no" /\ dev' = dev
      /\ o # "ok" => lost' = lost
      /\ dev'[f] \in {dev[f], "closed"}
  BY WriteEffect DEF LeftoverInv
<1>2. o = "node" \/ o = "noHost" => host = "none" \/ dev[f] = "stale"
  BY DEF WriteLocked, Outcomes
<1>3. o = "node" => lost[f] # "restart"
  BY <1>2 DEF LeftoverInv, EvidenceIsTrue, EnumeratedSince
<1>4. o # "node" => dev' = dev
  BY DEF WriteLocked
<1>5. reenumerated' => EnumeratedSince
  BY <1>2 DEF WriteLocked, EnumeratedSince
<1>6. QED
  BY <1>1, <1>3, <1>4, <1>5

\* A command writes to one function, and drops what that one owes only when
\* the report was taken.
LEMMA CommandWrites ==
    ASSUME LeftoverInv, Command
    PROVE  /\ proc # "down" /\ UNCHANGED cmdUnchanged
           /\ \E f \in Fns, report \in SUBSET Keys : \E o \in Outcomes(f) :
                /\ WriteLocked(f, report, o)
                /\ o # "ok" /\ dirty[f] => dirty'[f]
                /\ \A g \in Fns \ {f} : dirty'[g] = dirty[g]
<1>0. /\ dirty \in [Fns -> BOOLEAN] /\ call \in [Fns -> Call \cup {Idle}]
      /\ DownIsNew
  BY DEF LeftoverInv, IInv, TypeOK, FnTypeOK
<1>1. PICK f \in Fns :
              \/ \E c \in Call : GoodCall(f, c) /\ Single(f, c)
              \/ \E c \in Call, first \in SUBSET Keys : GoodCall(f, c) /\ Begin(f, first, c)
              \/ SendMid(f)
              \/ SendLast(f)
  BY CommandCases DEF LeftoverInv
<1> DEFINE effect(o) == /\ o # "ok" /\ dirty[f] => dirty'[f]
                        /\ \A g \in Fns \ {f} : dirty'[g] = dirty[g]
           wrote == \E report \in SUBSET Keys, o \in Outcomes(f) :
                       WriteLocked(f, report, o) /\ effect(o)
<1>2. ASSUME NEW c \in Call, NEW owes \in BOOLEAN, NEW o, o # "ok",
             Fail(f, c, owes)
      PROVE  effect(o)
  BY <1>0, <1>2 DEF Fail
<1>3. ASSUME NEW c \in Call, Succeed(f, c)
      PROVE  effect("ok")
  BY <1>0, <1>3 DEF Succeed
<1>4. ASSUME UNCHANGED fnState
      PROVE  effect("ok")
  BY <1>4 DEF fnState
<1>5. ASSUME NEW c \in Call, Single(f, c)
      PROVE  proc # "down" /\ UNCHANGED cmdUnchanged /\ wrote
  <2>1. PICK o \in Outcomes(f) :
          /\ WriteLocked(f, c.final, o)
          /\ \/ o = "ok" /\ Succeed(f, c)
             \/ o # "ok" /\ Fail(f, c, dirty[f] \/ o # "noHost")
    BY <1>5 DEF Single
  <2>2. (dirty[f] \/ o # "noHost") \in BOOLEAN /\ c.final \in SUBSET Keys
    BY DEF Call
  <2>3. effect(o)
    BY <1>2, <1>3, <2>1, <2>2
  <2>4. QED
    BY <1>5, <2>1, <2>2, <2>3 DEF Single
<1>6. ASSUME NEW c \in Call, NEW first \in SUBSET Keys, Begin(f, first, c)
      PROVE  proc # "down" /\ UNCHANGED cmdUnchanged /\ wrote
  <2>1. PICK o \in Outcomes(f) :
          /\ WriteLocked(f, first, o)
          /\ \/ o = "ok" /\ UNCHANGED fnState
             \/ o # "ok" /\ Fail(f, c, dirty[f] \/ o # "noHost")
    BY <1>6 DEF Begin
  <2>2. (dirty[f] \/ o # "noHost") \in BOOLEAN
    OBVIOUS
  <2>3. effect(o)
    BY <1>2, <1>4, <2>1, <2>2
  <2>4. QED
    BY <1>6, <2>1, <2>3 DEF Begin
<1>7. ASSUME SendMid(f) \/ SendLast(f)
      PROVE  proc # "down" /\ UNCHANGED cmdUnchanged /\ wrote
  <2>1. call[f] \in Call /\ call[f].mid \subseteq SUBSET Keys
        /\ call[f].final \in SUBSET Keys
    BY <1>0, <1>7 DEF SendMid, SendLast, Call
  <2>2. proc # "down"
    BY <1>0, <1>7 DEF SendMid, SendLast, DownIsNew
  <2>3. PICK report \in SUBSET Keys, o \in Outcomes(f) :
          /\ WriteLocked(f, report, o)
          /\ \/ o = "ok" /\ (Succeed(f, call[f]) \/ UNCHANGED fnState)
             \/ o # "ok" /\ Fail(f, call[f], TRUE)
    BY <1>7, <2>1 DEF SendMid, SendLast
  <2>4. wrote
    <3>1. CASE o = "ok" /\ Succeed(f, call[f])
      BY <1>3, <2>1, <2>3, <3>1
    <3>2. CASE o = "ok" /\ UNCHANGED fnState
      BY <1>4, <2>3, <3>2
    <3>3. CASE o # "ok" /\ Fail(f, call[f], TRUE)
      <4>1. effect(o)
        BY <1>2, <2>1, <3>3
      <4>2. QED
        BY <2>3, <4>1
    <3>4. QED
      BY <2>3, <3>1, <3>2, <3>3
  <2>5. QED
    BY <1>7, <2>2, <2>4 DEF SendMid, SendLast
<1>8. QED
  BY <1>1, <1>5, <1>6, <1>7

LEMMA CommandLeftover ==
    ASSUME LeftoverInv, Command
    PROVE  LeftoverInv'
<1>0. DownIsNew /\ EvidenceIsTrue /\ RelayForgets /\ LeftoverKept
  BY DEF LeftoverInv
<1>1. PICK f \in Fns, report \in SUBSET Keys : \E o \in Outcomes(f) :
        /\ WriteLocked(f, report, o)
        /\ o # "ok" /\ dirty[f] => dirty'[f]
        /\ \A g \in Fns \ {f} : dirty'[g] = dirty[g]
  BY CommandWrites
<1>. PICK o \in Outcomes(f) :
        /\ WriteLocked(f, report, o)
        /\ o # "ok" /\ dirty[f] => dirty'[f]
        /\ \A g \in Fns \ {f} : dirty'[g] = dirty[g]
  BY <1>1
<1>2. /\ proc # "down" /\ proc' = proc /\ gadget' = gadget /\ host' = host
      /\ known' = known /\ moved' = moved /\ observed' = observed /\ usb' = usb
      /\ cleanPending' = cleanPending /\ pc' = pc /\ todo' = todo /\ seen' = seen
      /\ allOpen' = allOpen /\ admin' = admin /\ adminTodo' = adminTodo
  BY CommandWrites DEF cmdUnchanged, env, memory, poll, reset
<1>3. /\ \A g \in Fns : lost'[g] = "restart"
                  => lost[g] = "restart" /\ dev'[g] = dev[g]
      /\ lost'[f] = "restart" => o # "ok"
      /\ \A g \in Fns : dev'[g] = "stale" => dev[g] = "stale"
      /\ reenumerated' => EnumeratedSince
  BY <1>1, WriteLeftover
<1>4. EnumeratedSince' => EnumeratedSince
  BY <1>2, <1>3 DEF EnumeratedSince
<1>5. DownIsNew' /\ EvidenceIsTrue' /\ RelayForgets'
  BY <1>0, <1>2, <1>3, <1>4 DEF DownIsNew, EvidenceIsTrue, RelayForgets
<1>6. LeftoverKept'
  BY <1>0, <1>1, <1>2, <1>3 DEF LeftoverKept, RelayReset
<1>7. QED
  BY <1>5, <1>6, CommandInv DEF LeftoverInv

LEMMA EnvironmentLeftover ==
    ASSUME LeftoverInv, Environment
    PROVE  LeftoverInv'
<1>0. /\ DownIsNew /\ EvidenceIsTrue /\ RelayForgets /\ LeftoverKept
      /\ dev \in [Fns -> {"closed", "open", "stale"}]
  BY DEF LeftoverInv, IInv, TypeOK, LinkTypeOK
<1>1. /\ proc' = proc /\ known' = known /\ observed' = observed /\ usb' = usb
      /\ cleanPending' = cleanPending /\ pc' = pc /\ todo' = todo /\ seen' = seen
      /\ allOpen' = allOpen /\ admin' = admin /\ adminTodo' = adminTodo
      /\ dirty' = dirty /\ call' = call /\ reenumerated' = reenumerated
  BY DEF Environment, Attach, Detach, Suspend, Resume, GadgetDown, GadgetUp,
     Collect, roadie, memory, poll, reset, fnState
<1>2. CASE Attach \/ Detach \/ GadgetDown
  <2>1. /\ \A f \in Fns : lost'[f] = "no"
        /\ \A f \in Fns : dev[f] = "closed" => dev'[f] = "closed"
        /\ ~gadget' => host' = "none"
    BY <1>0, <1>2 DEF Attach, Detach, GadgetDown, Unplug, DownIsNew
  <2>2. DownIsNew' /\ EvidenceIsTrue' /\ RelayForgets' /\ LeftoverKept'
    BY <1>0, <1>1, <2>1 DEF DownIsNew, EvidenceIsTrue, RelayForgets, LeftoverKept
  <2>3. QED
    BY <2>2, EnvironmentInv DEF LeftoverInv
<1>3. CASE Suspend \/ Resume \/ GadgetUp \/ \E f \in Fns : Collect(f)
  <2>1. /\ lost' = lost /\ dev' = dev /\ moved' = moved
        /\ host' = "none" <=> host = "none"
        /\ gadget => gadget'
    BY <1>3 DEF Suspend, Resume, GadgetUp, Collect
  <2>2. EnumeratedSince' => EnumeratedSince
    BY <1>1, <2>1 DEF EnumeratedSince
  <2>3. DownIsNew' /\ EvidenceIsTrue' /\ RelayForgets' /\ LeftoverKept'
    BY <1>0, <1>1, <2>1, <2>2 DEF DownIsNew, EvidenceIsTrue, RelayForgets,
       LeftoverKept, RelayReset
  <2>4. QED
    BY <2>3, EnvironmentInv DEF LeftoverInv
<1>4. QED
  BY <1>2, <1>3 DEF Environment

\* A poll sees the evidence only where it is; and goes to release only with
\* every node open.
LEMMA MonitorLeftover ==
    ASSUME LeftoverInv, Monitor
    PROVE  LeftoverInv'
<1> USE DEF env, memory, reset, RelayReset
<1>0. /\ DownIsNew /\ EvidenceIsTrue /\ RelayForgets /\ LeftoverKept
      /\ dev \in [Fns -> {"closed", "open", "stale"}]
      /\ dirty \in [Fns -> BOOLEAN]
      /\ lost \in [Fns -> {"no", "restart", "reset"}]
      /\ host \in {"none", "configured", "suspended"}
      /\ usb \in {"none", "configured", "suspended"}
  BY DEF LeftoverInv, IInv, TypeOK, LinkTypeOK, FnTypeOK, EnvTypeOK, PollTypeOK
<1>1. UNCHANGED <<gadget, host, proc, admin, adminTodo, call>>
  BY DEF Monitor, PollStart, PollGone, PollGoneEnd, PollSync, PollSettle,
     PollForget, PollForgetEnd, PollRelease, PollReleaseEnd, PollRetry, PollEnd
<1>2. proc # "down"
  BY <1>0 DEF DownIsNew, Monitor, PollStart, PollGone, PollGoneEnd, PollSync,
     PollSettle, PollForget, PollForgetEnd, PollRelease, PollReleaseEnd,
     PollRetry, PollEnd
<1>3. DownIsNew'
  BY <1>0, <1>1, <1>2 DEF DownIsNew
<1>4. CASE PollStart
  <2>1. EvidenceIsTrue'
    BY <1>0, <1>4 DEF PollStart, EvidenceIsTrue, EnumeratedSince, DownIsNew
  <2>2. RelayForgets' /\ LeftoverKept'
    BY <1>0, <1>4 DEF PollStart, RelayForgets, LeftoverKept, fnState
  <2>3. QED
    BY <1>3, <2>1, <2>2, MonitorInv DEF LeftoverInv
<1>5. CASE PollGoneEnd \/ PollForgetEnd
  <2>1. EvidenceIsTrue'
    BY <1>0, <1>5 DEF PollGoneEnd, PollForgetEnd, GoTo, AfterSettle,
       EvidenceIsTrue, EnumeratedSince
  <2>2. \A f \in Fns : lost'[f] # "restart"
    BY <1>0, <1>5 DEF PollGoneEnd, PollForgetEnd, EvidenceIsTrue, EnumeratedSince
  <2>3. RelayForgets' /\ LeftoverKept'
    BY <2>2 DEF RelayForgets, LeftoverKept
  <2>4. QED
    BY <1>3, <2>1, <2>3, MonitorInv DEF LeftoverInv
<1>6. CASE PollReleaseEnd \/ PollEnd
  <2>1. EvidenceIsTrue'
    BY <1>0, <1>6 DEF PollReleaseEnd, PollEnd, GoTo, EvidenceIsTrue, EnumeratedSince
  <2>2. RelayForgets' /\ LeftoverKept'
    BY <1>0, <1>6 DEF PollReleaseEnd, PollEnd, GoTo, RelayForgets, LeftoverKept,
       fnState
  <2>3. QED
    BY <1>3, <2>1, <2>2, MonitorInv DEF LeftoverInv
<1>7. CASE PollSettle
  <2>1. UNCHANGED <<lost, dev, dirty, cleanPending>>
    BY <1>7 DEF PollSettle, fnState
  <2>2. EnumeratedSince' => EnumeratedSince
    BY <1>0, <1>7 DEF PollSettle, GoTo, AfterSettle, Evidence, Readable, EnumeratedSince
  <2>3. EvidenceIsTrue' /\ RelayForgets'
    BY <1>0, <1>1, <2>1, <2>2 DEF EvidenceIsTrue, RelayForgets
  <2>4. pc' = "release" => cleanPending /\ allOpen /\ todo' = Fns
    BY <1>7 DEF PollSettle, GoTo, AfterSettle
  <2>5. pc' # "sync" /\ pc = "sync" /\ todo = {}
    BY <1>7 DEF PollSettle, GoTo, AfterSettle
  <2>6. LeftoverKept'
    BY <1>0, <1>1, <2>1, <2>4, <2>5 DEF LeftoverKept
  <2>7. QED
    BY <1>3, <2>3, <2>6, MonitorInv DEF LeftoverInv
<1>8. ASSUME NEW f \in Fns, PollGone(f)
      PROVE  LeftoverInv'
  <2>1. \A g \in Fns : lost'[g] # "restart"
    BY <1>0, <1>8 DEF PollGone, EvidenceIsTrue, EnumeratedSince
  <2>2. EvidenceIsTrue' /\ RelayForgets' /\ LeftoverKept'
    BY <2>1 DEF EvidenceIsTrue, RelayForgets, LeftoverKept
  <2>3. QED
    BY <1>3, <1>8, <2>2, MonitorInv DEF LeftoverInv
<1>9. ASSUME NEW f \in Fns, PollSync(f)
      PROVE  LeftoverInv'
  <2>1. /\ UNCHANGED <<host, known, moved, pc, seen, observed, usb, lost, dirty,
                       cleanPending, reenumerated>>
        /\ pc = "sync" /\ todo' = todo \ {f}
        /\ \A g \in Fns : dev'[g] = "stale" => dev[g] = "stale"
    BY <1>0, <1>9 DEF PollSync, fnState
  <2>2. EnumeratedSince' => EnumeratedSince
    BY <2>1 DEF EnumeratedSince
  <2>3. gadget /\ allOpen' => allOpen /\ dev'[f] = "open"
    BY <1>0, <1>9 DEF PollSync
  <2>4. \A g \in Fns \ {f} : dev'[g] = dev[g]
    BY <1>0, <1>9 DEF PollSync
  <2>5. ~gadget => \A g \in Fns : lost[g] # "restart"
    BY <1>0 DEF DownIsNew, EvidenceIsTrue, EnumeratedSince
  <2>6. EvidenceIsTrue' /\ RelayForgets'
    BY <1>0, <1>1, <2>1, <2>2 DEF EvidenceIsTrue, RelayForgets
  <2>7. LeftoverKept'
    BY <1>0, <1>1, <2>1, <2>3, <2>4, <2>5 DEF LeftoverKept
  <2>8. QED
    BY <1>3, <1>9, <2>6, <2>7, MonitorInv DEF LeftoverInv
<1>10. ASSUME NEW f \in Fns, PollForget(f)
       PROVE  LeftoverInv'
  <2>1. /\ pc = "forget"
        /\ lost' = [lost EXCEPT ![f] =
              IF Wire(f) = {} THEN "no"
              ELSE IF lost[f] = "restart" THEN "restart" ELSE "reset"]
    BY <1>10 DEF PollForget, Forget
  <2>2. \A g \in Fns : lost'[g] # "restart"
    BY <1>0, <2>1 DEF EvidenceIsTrue, EnumeratedSince
  <2>3. EvidenceIsTrue' /\ RelayForgets' /\ LeftoverKept'
    BY <2>2 DEF EvidenceIsTrue, RelayForgets, LeftoverKept
  <2>4. QED
    BY <1>3, <1>10, <2>3, MonitorInv DEF LeftoverInv
<1>11. ASSUME NEW f \in Fns, PollRelease(f)
       PROVE  LeftoverInv'
  <2>1. /\ UNCHANGED <<host, known, moved, pc, seen, observed, usb, cleanPending>>
        /\ pc = "release" /\ todo' = todo \ {f} /\ ReleaseLocked(f, TRUE)
    BY <1>11 DEF PollRelease
  <2>2. /\ \A g \in Fns : lost'[g] = "restart"
                    => lost[g] = "restart" /\ dev'[g] = dev[g]
        /\ dev[f] # "closed" /\ lost'[f] = "restart" => dirty'[f]
        /\ dirty'[f] \in {dirty[f], TRUE} \/ lost'[f] # "restart"
        /\ \A g \in Fns \ {f} : dirty'[g] = dirty[g]
        /\ \A g \in Fns : dev'[g] = "stale" => dev[g] = "stale"
        /\ reenumerated' => EnumeratedSince
    <3>1. CASE dev[f] = "closed"
      BY <2>1, <3>1 DEF ReleaseLocked, fnState, EnumeratedSince
    <3>2. CASE dev[f] # "closed"
      <4>1. PICK o \in Outcomes(f) :
              WriteLocked(f, {}, o) /\ dirty' = [dirty EXCEPT ![f] = (o # "ok")]
        BY <2>1, <3>2 DEF ReleaseLocked
      <4>2. {} \in SUBSET Keys
        OBVIOUS
      <4>3. /\ dirty'[f] = (o # "ok")
            /\ \A g \in Fns \ {f} : dirty'[g] = dirty[g]
        BY <1>0, <4>1
      <4>4. QED
        BY <4>1, <4>2, <4>3, WriteLeftover
    <3>3. QED
      BY <3>1, <3>2
  <2>3. EnumeratedSince' => EnumeratedSince
    BY <2>1, <2>2 DEF EnumeratedSince
  <2>4. EvidenceIsTrue' /\ RelayForgets'
    BY <1>0, <1>1, <2>2, <2>3 DEF EvidenceIsTrue, RelayForgets
  <2>5. f \in todo
    BY <1>11 DEF PollRelease, IsFirst
  <2>6. LeftoverKept'
    BY <1>0, <1>1, <2>1, <2>2, <2>5 DEF LeftoverKept
  <2>7. QED
    BY <1>3, <1>11, <2>4, <2>6, MonitorInv DEF LeftoverInv
<1>12. ASSUME NEW f \in Fns, PollRetry(f)
       PROVE  LeftoverInv'
  <2>1. /\ UNCHANGED <<host, known, moved, pc, seen, observed, usb, cleanPending>>
        /\ pc = "retry"
    BY <1>12 DEF PollRetry
  <2>2. /\ \A g \in Fns : lost'[g] = "restart"
                    => lost[g] = "restart" /\ dev'[g] = dev[g]
        /\ lost'[f] = "restart" => (dirty[f] => dirty'[f])
        /\ \A g \in Fns \ {f} : dirty'[g] = dirty[g]
        /\ \A g \in Fns : dev'[g] = "stale" => dev[g] = "stale"
        /\ reenumerated' => EnumeratedSince
    <3>1. CASE ~(dirty[f] /\ dev[f] # "closed")
      BY <1>12, <3>1 DEF PollRetry, EnumeratedSince
    <3>2. CASE dirty[f] /\ dev[f] # "closed"
      <4>1. PICK o \in Outcomes(f) :
              WriteLocked(f, owed[f], o) /\ dirty' = [dirty EXCEPT ![f] = (o # "ok")]
        BY <1>12, <3>2 DEF PollRetry
      <4>2. owed[f] \in SUBSET Keys
        BY DEF LeftoverInv, IInv, TypeOK, FnTypeOK
      <4>3. /\ dirty'[f] = (o # "ok")
            /\ \A g \in Fns \ {f} : dirty'[g] = dirty[g]
        BY <1>0, <4>1
      <4>4. QED
        BY <4>1, <4>2, <4>3, WriteLeftover
    <3>3. QED
      BY <3>1, <3>2
  <2>3. EnumeratedSince' => EnumeratedSince
    BY <2>1, <2>2 DEF EnumeratedSince
  <2>4. EvidenceIsTrue' /\ RelayForgets'
    BY <1>0, <1>1, <2>2, <2>3 DEF EvidenceIsTrue, RelayForgets
  <2>5. LeftoverKept'
    BY <1>0, <1>1, <2>1, <2>2 DEF LeftoverKept
  <2>6. QED
    BY <1>3, <1>12, <2>4, <2>5, MonitorInv DEF LeftoverInv
<1>13. QED
  BY <1>4, <1>5, <1>6, <1>7, <1>8, <1>9, <1>10, <1>11, <1>12 DEF Monitor

LEMMA AdminLeftover ==
    ASSUME LeftoverInv, Admin
    PROVE  LeftoverInv'
<1> USE DEF memory, poll, adminUnchanged, RelayReset
<1>0. /\ DownIsNew /\ EvidenceIsTrue /\ RelayForgets /\ LeftoverKept
      /\ dev \in [Fns -> {"closed", "open", "stale"}]
      /\ dirty \in [Fns -> BOOLEAN]
      /\ lost \in [Fns -> {"no", "restart", "reset"}]
  BY DEF LeftoverInv, IInv, TypeOK, LinkTypeOK, FnTypeOK
<1>1. /\ UNCHANGED <<gadget, proc, known, observed, usb, cleanPending, pc, todo,
                     seen, allOpen, call, reenumerated>>
      /\ proc # "down"
  BY <1>0 DEF DownIsNew, Admin, ResetHIDDisconnect, ResetHIDConnect, ResetRelay,
     ResetNext, ResetForget, ResetRelayClose
<1>2. CASE ResetHIDDisconnect
  <2>1. host' = "none" /\ dev' = dev /\ admin' = "gap" /\ dirty' = dirty
    BY <1>2 DEF ResetHIDDisconnect, Unplug, fnState
  <2>2. \A f \in Fns : lost'[f] # "restart"
    BY <1>0, <1>2 DEF ResetHIDDisconnect, Unplug, EvidenceIsTrue, EnumeratedSince
  <2>3. DownIsNew' /\ EvidenceIsTrue' /\ RelayForgets' /\ LeftoverKept'
    BY <1>0, <1>1, <2>1, <2>2 DEF DownIsNew, EvidenceIsTrue, RelayForgets, LeftoverKept
  <2>4. QED
    BY <2>3, AdminInv DEF LeftoverInv
<1>3. CASE ResetHIDConnect \/ ResetRelay \/ ResetNext
  <2>1. UNCHANGED <<host, moved, lost, dev, dirty>>
    BY <1>3 DEF ResetHIDConnect, ResetRelay, ResetNext, fnState
  <2>2. EnumeratedSince' => EnumeratedSince
    BY <1>1, <2>1 DEF EnumeratedSince
  <2>3. admin = "relayForget" => \A f \in Fns : lost[f] # "restart"
    BY <1>0, <1>3 DEF ResetHIDConnect, ResetRelay, ResetNext, RelayForgets
  <2>4. /\ admin = "relayClose" => admin' = "relayForget"
        /\ admin' = "relayForget" => adminTodo' = Fns
    BY <1>3 DEF ResetHIDConnect, ResetRelay, ResetNext
  <2>5. DownIsNew' /\ EvidenceIsTrue' /\ RelayForgets'
    BY <1>0, <1>1, <2>1, <2>2, <2>4 DEF DownIsNew, EvidenceIsTrue, RelayForgets
  <2>6. LeftoverKept'
    BY <1>0, <1>1, <2>1, <2>3, <2>4 DEF LeftoverKept
  <2>7. QED
    BY <1>3, <2>5, <2>6, AdminInv DEF LeftoverInv
<1>4. ASSUME NEW f \in Fns, ResetForget(f)
      PROVE  LeftoverInv'
  <2>1. /\ UNCHANGED <<host, moved, dev, admin>>
        /\ adminTodo' = adminTodo \ {f}
    BY <1>4 DEF ResetForget
  <2>2. /\ lost'[f] # "restart"
        /\ \A g \in Fns \ {f} : lost'[g] = lost[g] /\ dirty'[g] = dirty[g]
    BY <1>0, <1>4 DEF ResetForget, Forget
  <2>3. EnumeratedSince' => EnumeratedSince
    BY <1>1, <2>1 DEF EnumeratedSince
  <2>4. DownIsNew' /\ EvidenceIsTrue' /\ RelayForgets' /\ LeftoverKept'
    BY <1>0, <1>1, <2>1, <2>2, <2>3 DEF DownIsNew, EvidenceIsTrue, RelayForgets,
       LeftoverKept
  <2>5. QED
    BY <1>4, <2>4, AdminInv DEF LeftoverInv, Admin
<1>5. ASSUME NEW f \in Fns, ResetRelayClose(f)
      PROVE  LeftoverInv'
  <2>1. /\ UNCHANGED <<host, moved, lost, dirty, admin>> /\ admin = "relayClose"
        /\ \A g \in Fns : dev'[g] = "stale" => dev[g] = "stale"
    BY <1>0, <1>5 DEF ResetRelayClose, fnState
  <2>2. EnumeratedSince' => EnumeratedSince
    BY <1>1, <2>1 DEF EnumeratedSince
  <2>3. DownIsNew' /\ EvidenceIsTrue' /\ RelayForgets' /\ LeftoverKept'
    BY <1>0, <1>1, <2>1, <2>2 DEF DownIsNew, EvidenceIsTrue, RelayForgets,
       LeftoverKept
  <2>4. QED
    BY <1>5, <2>3, AdminInv DEF LeftoverInv, Admin
<1>6. QED
  BY <1>2, <1>3, <1>4, <1>5 DEF Admin

\* A new process begins with the release pending, and with none of what the
\* one before it had seen.
LEMMA LifecycleLeftover ==
    ASSUME LeftoverInv, Lifecycle
    PROVE  LeftoverInv'
<1> USE DEF env, memory, poll, reset, RelayReset
<1>0. /\ DownIsNew /\ EvidenceIsTrue /\ RelayForgets /\ LeftoverKept
      /\ dev \in [Fns -> {"closed", "open", "stale"}]
      /\ lost \in [Fns -> {"no", "restart", "reset"}]
      /\ NobodyThere
  BY DEF LeftoverInv, IInv, TypeOK, LinkTypeOK
<1>1. CASE Kill \/ Exit
  <2>1. NewProcess /\ proc' = "down" /\ UNCHANGED <<env, slot, lost>>
    BY <1>1 DEF Kill, Exit, Die
  <2>2. DownIsNew' /\ EvidenceIsTrue' /\ RelayForgets' /\ LeftoverKept'
    BY <1>0, <2>1 DEF NewProcess, DownIsNew, EvidenceIsTrue, EnumeratedSince,
       RelayForgets, LeftoverKept
  <2>3. QED
    BY <2>2, LifecycleInv DEF LeftoverInv
<1>2. CASE Start
  <2>1. host = "none" => \A f \in Fns : Wire(f) = {}
    BY <1>0 DEF NobodyThere, Wire
  <2>2. EnumeratedSince' => \A f \in Fns : lost'[f] = "no"
    BY <1>0, <1>2, <2>1 DEF Start, DownIsNew, EnumeratedSince
  <2>3. DownIsNew' /\ EvidenceIsTrue' /\ RelayForgets' /\ LeftoverKept'
    BY <1>0, <1>2, <2>2 DEF Start, DownIsNew, EvidenceIsTrue, RelayForgets, LeftoverKept
  <2>4. QED
    BY <2>3, LifecycleInv DEF LeftoverInv
<1>3. CASE ShutdownBegin
  <2>1. EnumeratedSince' => EnumeratedSince
    BY <1>3 DEF ShutdownBegin, EnumeratedSince
  <2>2. DownIsNew' /\ EvidenceIsTrue' /\ RelayForgets' /\ LeftoverKept'
    BY <1>0, <1>3, <2>1 DEF ShutdownBegin, DownIsNew, EvidenceIsTrue, RelayForgets,
       LeftoverKept
  <2>3. QED
    BY <2>2, LifecycleInv DEF LeftoverInv
<1>4. ASSUME NEW f \in Fns, ShutdownRelease(f)
      PROVE  LeftoverInv'
  <2>1. /\ UNCHANGED <<env, proc, memory, poll, reset, call>> /\ proc = "stopping"
        /\ \A g \in Fns : dev'[g] = "stale" => dev[g] = "stale"
        /\ \A g \in Fns : lost'[g] = "restart" => lost[g] = "restart"
    BY <1>0, <1>4 DEF ShutdownRelease
  <2>2. reenumerated' => EnumeratedSince
    BY <1>4 DEF ShutdownRelease, Outcomes, EnumeratedSince
  <2>3. EnumeratedSince' => EnumeratedSince
    BY <2>1, <2>2 DEF EnumeratedSince
  <2>4. DownIsNew' /\ EvidenceIsTrue' /\ RelayForgets' /\ LeftoverKept'
    BY <1>0, <2>1, <2>3 DEF DownIsNew, EvidenceIsTrue, RelayForgets, LeftoverKept
  <2>5. QED
    BY <1>4, <2>4, LifecycleInv DEF LeftoverInv, Lifecycle
<1>5. QED
  BY <1>1, <1>2, <1>3, <1>4 DEF Lifecycle

(***************************************************************************)
(* The theorems.                                                           *)
(***************************************************************************)

LEMMA InitInv == Init => IInv
<1> SUFFICES ASSUME Init PROVE IInv
  OBVIOUS
<1>1. EnvTypeOK /\ LinkTypeOK /\ FnTypeOK
  BY DEF Init, EnvTypeOK, LinkTypeOK, FnTypeOK
<1>2. ProcTypeOK /\ PollTypeOK
  BY DEF Init, ProcTypeOK, PollTypeOK
<1>3. CallsGood /\ NobodyThere /\ HeldWasAsked /\ OwedIsHeld /\ PhoneAccounted
  BY DEF Init, CallsGood, NobodyThere, HeldWasAsked, OwedIsHeld, PhoneAccounted, Wire
<1>4. QED
  BY <1>1, <1>2, <1>3 DEF IInv, TypeOK

LEMMA NextInv == IInv /\ [Next]_vars => IInv'
<1> SUFFICES ASSUME IInv, [Next]_vars PROVE IInv'
  OBVIOUS
<1>1. CASE UNCHANGED vars
  BY <1>1, QuietStep DEF vars, env, fnState, memory, poll, reset, IInv, TypeOK,
     EnvTypeOK, LinkTypeOK, ProcTypeOK, PollTypeOK
<1>2. QED
  BY <1>1, EnvironmentInv, CommandInv, MonitorInv, AdminInv, LifecycleInv DEF Next

THEOREM Invariance == Spec => []IInv
<1>1. QED
  BY InitInv, NextInv, PTL DEF Spec

\* Every variable of the backend keeps its type (GadgetHID, hidFunction).
THEOREM TypeCorrect == Spec => []TypeOK
<1>1. IInv => TypeOK
  BY DEF IInv
<1>2. QED
  BY <1>1, Invariance, PTL

\* What roadie keeps as held, its callers were told is down: a failed press is
\* never kept (sendLocked's safe state).
THEOREM FailedPressNeverKept == Spec => []HeldWasAsked
<1>1. IInv => HeldWasAsked
  BY DEF IInv
<1>2. QED
  BY <1>1, Invariance, PTL

\* What is owed to the phone is what roadie believes it holds, whatever calls,
\* failures, releases and resets came since (hidFunction.dirty and state).
THEOREM OwedStateIsCurrent == Spec => []OwedIsHeld
<1>1. IInv => OwedIsHeld
  BY DEF IInv
<1>2. QED
  BY <1>1, Invariance, PTL

\* Whatever the phone holds that roadie does not is owed a release, short of a
\* reset that forgot it or a restart (hidFunction.dirty, resetInputState).
THEOREM NothingHeldUnaccounted == Spec => []PhoneAccounted
<1>1. IInv => PhoneAccounted
  BY DEF IInv
<1>2. QED
  BY <1>1, Invariance, PTL

\* What the monitor resends or releases, and what Shutdown lets go, presses
\* nothing that a caller was not told is down (retryDirty, releaseLocked).
THEOREM OnlyCallsPress == Spec => ResendPressesNothing
<1>1. IInv /\ [Next]_vars =>
        [\A f \in Fns :
            (slot'[f] # slot[f] /\ slot'[f] # None /\ call[f] = Idle
                /\ told' = told /\ call' = call)
                    => slot'[f] \subseteq told[f]]_vars
  BY QueueStep
<1>2. QED
  BY <1>1, Invariance, PTL DEF Spec, ResendPressesNothing

\* Once Shutdown has closed a function its queue takes nothing more from this
\* process, whatever call or poll is still running (hidFunction.closed).
THEOREM ClosedIsFinal == Spec => NothingAfterClosed
<1>1. IInv /\ [Next]_vars =>
        [\A f \in Fns : closed[f] => slot'[f] \in {slot[f], None}]_vars
  BY QueueStep
<1>2. QED
  BY <1>1, Invariance, PTL DEF Spec, NothingAfterClosed

\* What a killed roadie left held is forgotten by no poll: until the report
\* that releases it is taken, the release is pending or owed, unless the phone
\* has left or enumerated since or a relay reset forgets it (cleanPending,
\* releaseAll, retryDirty, resetInputState).
THEOREM LeftoverIsReleased == Spec => []LeftoverReleased
<1>1. Init => LeftoverInv
  <2> SUFFICES ASSUME Init PROVE LeftoverInv
    OBVIOUS
  <2>1. IInv
    BY InitInv
  <2>2. DownIsNew /\ EvidenceIsTrue /\ RelayForgets /\ LeftoverKept
    BY DEF Init, DownIsNew, EvidenceIsTrue, RelayForgets, LeftoverKept
  <2>3. QED
    BY <2>1, <2>2 DEF LeftoverInv
<1>2. LeftoverInv /\ [Next]_vars => LeftoverInv'
  <2> SUFFICES ASSUME LeftoverInv, [Next]_vars PROVE LeftoverInv'
    OBVIOUS
  <2>1. CASE UNCHANGED vars
    <3>1. IInv'
      BY <2>1, NextInv DEF LeftoverInv
    <3>2. DownIsNew' /\ EvidenceIsTrue' /\ RelayForgets' /\ LeftoverKept'
      BY <2>1 DEF LeftoverInv, DownIsNew, EvidenceIsTrue, EnumeratedSince,
         RelayForgets, LeftoverKept, RelayReset, vars, env, fnState, memory,
         poll, reset
    <3>3. QED
      BY <3>1, <3>2 DEF LeftoverInv
  <2>2. QED
    BY <2>1, EnvironmentLeftover, CommandLeftover, MonitorLeftover,
       AdminLeftover, LifecycleLeftover DEF Next
<1>3. LeftoverInv => LeftoverReleased
  BY DEF LeftoverInv, LeftoverKept, LeftoverReleased, RelayReset
<1>4. QED
  BY <1>1, <1>2, <1>3, PTL DEF Spec
=============================================================================
