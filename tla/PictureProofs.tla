---------------------------- MODULE PictureProofs ---------------------------
(* Proofs about the components that turn pictures into what a viewer sees:   *)
(* the two encoders and their timestamps and buffers, the crop that follows  *)
(* the picture, and the crop that is kept on disk. For any processes, buffers, *)
(* frames and requests.                                                      *)
EXTENDS FFmpegEncoder, M2MEncoder, CropTracker, CropStore, SequenceTheorems,
        FiniteSetTheorems, TLAPS

-----------------------------------------------------------------------------
(* FFmpegEncoder: stamps, and the processes the encoder knows.               *)

StreamTypeOK ==
    /\ cmd \in Procs \cup {NoProc} /\ frames \in Nat
    /\ alive \in [Procs -> BOOLEAN]
    /\ reader \in [Procs -> {"off", "reading", "sending", "done"}]
    /\ work \in [Procs -> Seq(Nat)] /\ pipe \in [Procs -> Seq(Nat)]
    /\ holding \in [Procs -> Nat \X Nat]
    /\ stamps \in Seq(Nat) /\ samples \in Seq(Nat \X Nat)
    /\ calls \in {"open", "stopping", "stopped", "closed"}

\* Only the process the encoder knows runs or is read, and from Stopped on it
\* knows none; without that, start could leave a reader on the old stamps.
Owned == \A p \in Procs : alive[p] \/ reader[p] # "off" => p = cmd

StopsInOrder == /\ calls = "stopping" => cmd # NoProc
                /\ calls \in {"stopped", "closed"} => cmd = NoProc

\* The stamps are those of what is in the pipe and then of what the process
\* has, in that order; once it has died, some are left over.
Matches(out, has, st) ==
    /\ Len(out) + Len(has) <= Len(st)
    /\ \A i \in 1..Len(out) : out[i] = st[i]
    /\ \A i \in 1..Len(has) : has[i] = st[Len(out) + i]

StampsMatch(p) ==
    /\ Matches(pipe[p], work[p], stamps)
    /\ alive[p] => Len(pipe[p]) + Len(work[p]) = Len(stamps)
    /\ reader[p] = "sending" => holding[p][1] = holding[p][2]

StampsKnown == cmd # NoProc => StampsMatch(cmd)

StampIInv == StreamTypeOK /\ Owned /\ StopsInOrder /\ StampsKnown /\ SamplesStamped

LEMMA LastOrBefore ==
    ASSUME NEW b \in Nat, NEW i \in 1..(b + 1)
    PROVE  i \in 1..b \/ i = b + 1
  OBVIOUS

LEMMA Shifted ==
    ASSUME NEW out, NEW outLess, NEW has, NEW stLess,
           Len(out) \in Nat, Len(outLess) \in Nat, Len(has) \in Nat, Len(stLess) \in Nat,
           Len(outLess) + Len(has) <= Len(stLess), Len(out) = Len(outLess) + 1,
           NEW i \in 1..Len(has)
    PROVE  /\ Len(outLess) + i \in 1..Len(stLess)
           /\ (Len(outLess) + i) + 1 = Len(out) + i
  OBVIOUS

\* A frame goes in with its stamp, from the process to the pipe, and out with
\* its stamp.
LEMMA FrameIn ==
    ASSUME NEW out \in Seq(Nat), NEW has \in Seq(Nat), NEW st \in Seq(Nat), NEW f \in Nat,
           Matches(out, has, st), Len(out) + Len(has) = Len(st)
    PROVE  /\ Append(has, f) \in Seq(Nat) /\ Append(st, f) \in Seq(Nat)
           /\ Matches(out, Append(has, f), Append(st, f))
           /\ Len(out) + Len(Append(has, f)) = Len(Append(st, f))
<1> DEFINE hasMore == Append(has, f)
           stMore == Append(st, f)
<1>1. /\ hasMore \in Seq(Nat) /\ Len(hasMore) = Len(has) + 1
      /\ \A i \in 1..Len(has) : hasMore[i] = has[i]
      /\ hasMore[Len(has) + 1] = f
  BY AppendProperties
<1>2. /\ stMore \in Seq(Nat) /\ Len(stMore) = Len(st) + 1
      /\ \A i \in 1..Len(st) : stMore[i] = st[i]
      /\ stMore[Len(st) + 1] = f
  BY AppendProperties
<1>3. Len(out) \in Nat /\ Len(has) \in Nat /\ Len(st) \in Nat
  BY LenProperties
<1>4. Len(hasMore) \in Nat /\ Len(stMore) \in Nat /\ Len(out) + Len(hasMore) = Len(stMore)
  BY <1>1, <1>2, <1>3
<1> HIDE DEF hasMore, stMore
<1>5. ASSUME NEW i \in 1..(Len(has) + 1) PROVE hasMore[i] = stMore[Len(out) + i]
  <2>1. CASE i = Len(has) + 1
    <3>1. Len(out) + i = Len(st) + 1
      BY <1>3, <2>1
    <3> QED
      BY <1>1, <1>2, <2>1, <3>1
  <2>2. CASE i # Len(has) + 1
    <3>0. i \in 1..Len(has)
      BY <1>3, <2>2, LastOrBefore
    <3>1. i \in 1..Len(has) /\ Len(out) + i \in 1..Len(st)
      BY <1>3, <3>0
    <3>2. has[i] = st[Len(out) + i]
      BY <3>1 DEF Matches
    <3> QED
      BY <1>1, <1>2, <3>1, <3>2
  <2> QED BY <2>1, <2>2
<1>6. ASSUME NEW i \in 1..Len(out) PROVE out[i] = stMore[i]
  <2>1. i \in 1..Len(st) /\ out[i] = st[i]
    BY <1>3 DEF Matches
  <2> QED BY <1>2, <2>1
<1>7. Matches(out, hasMore, stMore)
  <2>1. Len(out) + Len(hasMore) <= Len(stMore) /\ Len(hasMore) = Len(has) + 1
    BY <1>1, <1>3, <1>4
  <2> QED BY <1>5, <1>6, <2>1 DEF Matches
<1> QED BY <1>1, <1>2, <1>4, <1>7 DEF hasMore, stMore

LEMMA FrameThrough ==
    ASSUME NEW out \in Seq(Nat), NEW has \in Seq(Nat), NEW st \in Seq(Nat), has # <<>>,
           Matches(out, has, st)
    PROVE  /\ Append(out, Head(has)) \in Seq(Nat) /\ Tail(has) \in Seq(Nat)
           /\ Matches(Append(out, Head(has)), Tail(has), st)
           /\ Len(Append(out, Head(has))) + Len(Tail(has)) = Len(out) + Len(has)
<1>1. /\ Head(has) \in Nat /\ Head(has) = has[1] /\ Tail(has) \in Seq(Nat)
      /\ Len(Tail(has)) = Len(has) - 1
      /\ \A i \in 1..Len(Tail(has)) : Tail(has)[i] = has[i + 1]
  BY HeadTailProperties
<1>2. /\ Append(out, Head(has)) \in Seq(Nat) /\ Len(Append(out, Head(has))) = Len(out) + 1
      /\ \A i \in 1..Len(out) : Append(out, Head(has))[i] = out[i]
      /\ Append(out, Head(has))[Len(out) + 1] = Head(has)
  BY <1>1, AppendProperties
<1>3. Len(out) \in Nat /\ Len(has) \in Nat \ {0} /\ Len(st) \in Nat
  BY LenProperties, EmptySeq
<1>4. ASSUME NEW i \in 1..Len(out) + 1 PROVE Append(out, Head(has))[i] = st[i]
  <2>1. CASE i = Len(out) + 1
    BY <1>1, <1>2, <1>3, <2>1 DEF Matches
  <2>2. CASE i \in 1..Len(out)
    BY <1>2, <2>2 DEF Matches
  <2> QED BY <1>3, <2>1, <2>2
<1>5. ASSUME NEW i \in 1..Len(Tail(has)) PROVE Tail(has)[i] = st[(Len(out) + 1) + i]
  BY <1>1, <1>3 DEF Matches
<1> QED BY <1>1, <1>2, <1>3, <1>4, <1>5 DEF Matches

LEMMA FrameOut ==
    ASSUME NEW out \in Seq(Nat), NEW has \in Seq(Nat), NEW st \in Seq(Nat), out # <<>>,
           Matches(out, has, st)
    PROVE  /\ st # <<>> /\ Head(out) = Head(st) /\ Head(out) \in Nat
           /\ Tail(out) \in Seq(Nat) /\ Tail(st) \in Seq(Nat)
           /\ Matches(Tail(out), has, Tail(st))
           /\ Len(out) + Len(has) = Len(st) => Len(Tail(out)) + Len(has) = Len(Tail(st))
<1>1. Len(out) \in Nat \ {0} /\ Len(has) \in Nat /\ Len(st) \in Nat
  BY LenProperties, EmptySeq
<1>2. st # <<>>
  BY <1>1 DEF Matches
<1>3. /\ Head(out) \in Nat /\ Head(out) = out[1] /\ Tail(out) \in Seq(Nat)
      /\ Len(Tail(out)) = Len(out) - 1
      /\ \A i \in 1..Len(Tail(out)) : Tail(out)[i] = out[i + 1]
  BY HeadTailProperties
<1>4. /\ Head(st) = st[1] /\ Tail(st) \in Seq(Nat) /\ Len(Tail(st)) = Len(st) - 1
      /\ \A i \in 1..Len(Tail(st)) : Tail(st)[i] = st[i + 1]
  BY <1>2, HeadTailProperties
<1> DEFINE outLess == Tail(out)
           stLess == Tail(st)
<1>0. /\ Len(out) = Len(outLess) + 1 /\ Len(st) = Len(stLess) + 1
      /\ Len(outLess) \in Nat /\ Len(stLess) \in Nat
  BY <1>1, <1>3, <1>4
<1>5. /\ \A i \in 1..Len(outLess) : outLess[i] = out[i + 1]
      /\ \A i \in 1..Len(stLess) : stLess[i] = st[i + 1]
  BY <1>1, <1>3, <1>4
<1>6. Len(outLess) + Len(has) <= Len(stLess)
  BY <1>0, <1>1 DEF Matches
<1> HIDE DEF outLess, stLess
<1>7. ASSUME NEW i \in 1..Len(outLess) PROVE outLess[i] = stLess[i]
  <2>1. i + 1 \in 1..Len(out) /\ i \in 1..Len(stLess)
    BY <1>0, <1>1, <1>6
  <2>2. out[i + 1] = st[i + 1]
    BY <2>1 DEF Matches
  <2> QED BY <1>5, <2>1, <2>2
<1>8. ASSUME NEW i \in 1..Len(has) PROVE has[i] = stLess[Len(outLess) + i]
  <2>1. Len(outLess) + i \in 1..Len(stLess) /\ (Len(outLess) + i) + 1 = Len(out) + i
    BY <1>0, <1>1, <1>6, Shifted
  <2>2. has[i] = st[Len(out) + i]
    BY DEF Matches
  <2> QED BY <1>5, <2>1, <2>2
<1>9. Matches(outLess, has, stLess)
  BY <1>6, <1>7, <1>8 DEF Matches
<1>10. Head(out) = Head(st)
  <2>1. 1 \in 1..Len(out)
    BY <1>1
  <2> QED BY <1>3, <1>4, <2>1 DEF Matches
<1>11. Len(out) + Len(has) = Len(st) => Len(outLess) + Len(has) = Len(stLess)
  BY <1>0, <1>1
<1> QED BY <1>0, <1>2, <1>3, <1>4, <1>9, <1>10, <1>11 DEF outLess, stLess

LEMMA NothingMatches ==
    ASSUME NEW out \in Seq(Nat), NEW has \in Seq(Nat), NEW st \in Seq(Nat),
           Matches(out, has, st)
    PROVE  Matches(<<>>, <<>>, <<>>) /\ Matches(out, <<>>, st)
  BY LenProperties, EmptySeq DEF Matches

LEMMA FFmpegInitiates == FFmpegInit => StampIInv
<1> SUFFICES ASSUME FFmpegInit PROVE StampIInv
  OBVIOUS
<1> DEFINE p == CHOOSE q \in Procs : TRUE
<1>1. p \in Procs
  BY FFmpegConstants
<1>2. /\ cmd = p
      /\ alive = [q \in Procs |-> q = p]
      /\ reader = [q \in Procs |-> IF q = p THEN "reading" ELSE "off"]
      /\ work = [q \in Procs |-> <<>>] /\ pipe = [q \in Procs |-> <<>>]
      /\ holding = [q \in Procs |-> <<0, 0>>]
      /\ stamps = <<>> /\ frames = 0 /\ calls = "open" /\ samples = <<>>
  BY DEF FFmpegInit, NoSample
<1> HIDE DEF p
<1>3. StreamTypeOK
  BY <1>1, <1>2, EmptySeq DEF StreamTypeOK
<1>4. Owned /\ StopsInOrder
  BY <1>1, <1>2, FFmpegConstants DEF Owned, StopsInOrder
<1>5. StampsMatch(p)
  BY <1>1, <1>2 DEF StampsMatch, Matches
<1>6. SamplesStamped
  BY <1>2 DEF SamplesStamped
<1> QED BY <1>2, <1>3, <1>4, <1>5, <1>6 DEF StampIInv, StampsKnown

\* Nothing of the streams moves: what a step may still do is forget the
\* process once it has ended, or drop what it has.
LEMMA StreamsRest ==
    ASSUME StampIInv, UNCHANGED <<stamps, frames, pipe, holding, samples>>,
           reader' \in [Procs -> {"off", "reading", "sending", "done"}],
           alive' \in [Procs -> BOOLEAN], work' \in [Procs -> Seq(Nat)],
           calls' \in {"open", "stopping", "stopped", "closed"},
           cmd' \in {cmd, NoProc}, Owned', StopsInOrder',
           \A p \in Procs : /\ work'[p] = work[p] \/ (work'[p] = <<>> /\ ~alive'[p])
                            /\ alive'[p] => alive[p]
                            /\ reader'[p] = "sending" => reader[p] = "sending"
    PROVE  StampIInv'
<1>1. StreamTypeOK'
  BY DEF StampIInv, StreamTypeOK
<1>2. SamplesStamped'
  BY DEF StampIInv, SamplesStamped
<1>3. StampsKnown'
  <2>1. SUFFICES ASSUME cmd' # NoProc PROVE StampsMatch(cmd)'
    BY DEF StampsKnown
  <2>2. cmd' = cmd /\ cmd \in Procs /\ StampsMatch(cmd)
    BY <2>1 DEF StampIInv, StampsKnown, StreamTypeOK
  <2>3. /\ work'[cmd] = work[cmd] \/ (work'[cmd] = <<>> /\ ~alive'[cmd])
        /\ alive'[cmd] => alive[cmd]
        /\ reader'[cmd] = "sending" => reader[cmd] = "sending"
    BY <2>2
  <2>4. Matches(pipe[cmd], work'[cmd], stamps)
    <3>1. pipe[cmd] \in Seq(Nat) /\ work[cmd] \in Seq(Nat) /\ stamps \in Seq(Nat)
      BY <2>2 DEF StampIInv, StreamTypeOK
    <3> QED
      BY <2>2, <2>3, <3>1, NothingMatches DEF StampsMatch
  <2>5. alive'[cmd] => Len(pipe[cmd]) + Len(work'[cmd]) = Len(stamps)
    BY <2>2, <2>3 DEF StampsMatch
  <2>6. reader'[cmd] = "sending" => holding[cmd][1] = holding[cmd][2]
    BY <2>2, <2>3 DEF StampsMatch
  <2> QED
    BY <2>2, <2>4, <2>5, <2>6 DEF StampsMatch
<1> QED BY <1>1, <1>2, <1>3 DEF StampIInv

LEMMA FFmpegStep == StampIInv /\ [FFmpegNext]_ffmpegVars => StampIInv'
<1>1. SUFFICES ASSUME StampIInv, [FFmpegNext]_ffmpegVars PROVE StampIInv'
  OBVIOUS
<1> USE FFmpegConstants
<1>0. StreamTypeOK /\ Owned /\ StopsInOrder /\ SamplesStamped
  BY <1>1 DEF StampIInv
<1>2. CASE Encode
  <2>1. CASE UNCHANGED <<work, stamps>>
    BY <1>1, <1>0, <1>2, <2>1
       DEF Encode, StampIInv, StreamTypeOK, Owned, StopsInOrder, StampsKnown, StampsMatch,
           SamplesStamped
  <2>2. CASE /\ cmd # NoProc /\ alive[cmd]
             /\ work' = [work EXCEPT ![cmd] = Append(@, frames + 1)]
             /\ stamps' = Append(stamps, frames + 1)
    <3>1. cmd \in Procs /\ StampsMatch(cmd)
      BY <1>1, <1>0, <2>2 DEF StampIInv, StampsKnown, StreamTypeOK
    <3>2. /\ Append(work[cmd], frames + 1) \in Seq(Nat) /\ stamps' \in Seq(Nat)
          /\ Matches(pipe[cmd], Append(work[cmd], frames + 1), stamps')
          /\ Len(pipe[cmd]) + Len(Append(work[cmd], frames + 1)) = Len(stamps')
      BY <1>0, <2>2, <3>1, FrameIn DEF StreamTypeOK, StampsMatch
    <3>3. /\ UNCHANGED <<cmd, alive, stdin, pipe, reader, holding, calls, samples>>
          /\ frames' \in Nat
      BY <1>0, <1>2 DEF Encode, StreamTypeOK
    <3>4. work' \in [Procs -> Seq(Nat)] /\ work'[cmd] = Append(work[cmd], frames + 1)
      BY <1>0, <2>2, <3>1, <3>2 DEF StreamTypeOK
    <3>5. StampsKnown'
      BY <3>1, <3>2, <3>3, <3>4 DEF StampsKnown, StampsMatch
    <3> QED
      BY <1>0, <3>2, <3>3, <3>4, <3>5
         DEF StampIInv, StreamTypeOK, Owned, StopsInOrder, SamplesStamped
  <2> QED BY <1>2, <2>1, <2>2 DEF Encode
<1>3. CASE Relaunch \/ CloseEncoder
  BY <1>1, <1>0, <1>3, StreamsRest
     DEF Relaunch, CloseEncoder, stop, StreamTypeOK, Owned, StopsInOrder
<1>4. CASE Kill
  <2>1. cmd \in Procs
    BY <1>0, <1>4 DEF Kill, StreamTypeOK, StopsInOrder
  <2>2. work' \in [Procs -> Seq(Nat)]
    BY <1>0, <1>4, EmptySeq DEF Kill, StreamTypeOK
  <2> QED
    BY <1>1, <1>0, <1>4, <2>1, <2>2, StreamsRest DEF Kill, StreamTypeOK, Owned, StopsInOrder
<1>5. CASE Stopped
  BY <1>1, <1>0, <1>5, StreamsRest DEF Stopped, StreamTypeOK, Owned, StopsInOrder
<1>6. CASE start
  <2>1. CASE UNCHANGED <<procStates, stamps>>
    BY <1>1, <1>0, <1>6, <2>1, StreamsRest
       DEF start, procStates, StreamTypeOK, Owned, StopsInOrder
  <2>2. ASSUME NEW p \in Procs, reader[p] = "off", cmd' = p,
               alive' = [alive EXCEPT ![p] = TRUE],
               reader' = [reader EXCEPT ![p] = "reading"],
               work' = [work EXCEPT ![p] = <<>>], pipe' = [pipe EXCEPT ![p] = <<>>],
               stamps' = <<>>, UNCHANGED holding
        PROVE  StampIInv'
    <3>1. cmd = NoProc /\ calls' = "open" /\ UNCHANGED <<frames, samples>>
      BY <1>0, <1>6 DEF start, StopsInOrder
    <3>2. StreamTypeOK'
      BY <1>0, <2>2, <3>1, EmptySeq DEF StreamTypeOK
    <3>3. Owned' /\ StopsInOrder'
      BY <1>0, <2>2, <3>1 DEF Owned, StopsInOrder, StreamTypeOK
    <3>4. StampsMatch(p)'
      <4>1. pipe'[p] = <<>> /\ work'[p] = <<>> /\ reader'[p] = "reading"
        BY <1>0, <2>2 DEF StreamTypeOK
      <4>2. Matches(<<>>, <<>>, <<>>)
        BY EmptySeq DEF Matches
      <4>3. Len(<<>>) + Len(<<>>) = Len(<<>>)
        OBVIOUS
      <4> QED
        BY <2>2, <4>1, <4>2, <4>3, Zenon DEF StampsMatch
    <3> QED
      BY <1>0, <2>2, <3>1, <3>2, <3>3, <3>4 DEF StampIInv, StampsKnown, SamplesStamped
  <2> QED BY <1>6, <2>1, <2>2 DEF start
<1>7. CASE CloseSamples
  BY <1>1, <1>0, <1>7, StreamsRest DEF CloseSamples, procStates, StreamTypeOK, Owned, StopsInOrder
<1>8. CASE Pump
  BY <1>1, <1>0, <1>8, EmptySeq
     DEF Pump, procStates, StampIInv, StreamTypeOK, Owned, StopsInOrder, StampsKnown, StampsMatch,
         SamplesStamped
<1>9. ASSUME NEW p \in Procs, Emit(p) PROVE StampIInv'
  <2>1. p = cmd /\ cmd # NoProc /\ pipe[p] # <<>> /\ StampsMatch(p)
    BY <1>1, <1>0, <1>9 DEF Emit, Owned, StampIInv, StampsKnown
  <2>2. /\ stamps # <<>> /\ Head(pipe[p]) = Head(stamps) /\ Head(pipe[p]) \in Nat
        /\ Tail(pipe[p]) \in Seq(Nat) /\ Tail(stamps) \in Seq(Nat)
        /\ Matches(Tail(pipe[p]), work[p], Tail(stamps))
        /\ Len(pipe[p]) + Len(work[p]) = Len(stamps)
             => Len(Tail(pipe[p])) + Len(work[p]) = Len(Tail(stamps))
    BY <1>0, <2>1, FrameOut DEF StreamTypeOK, StampsMatch
  <2>3. /\ holding' = [holding EXCEPT ![p] = <<Head(pipe[p]), Head(stamps)>>]
        /\ stamps' = Tail(stamps)
        /\ pipe' = [pipe EXCEPT ![p] = Tail(pipe[p])]
        /\ reader' = [reader EXCEPT ![p] = "sending"]
        /\ UNCHANGED <<cmd, work, alive, frames, calls, samples>>
    BY <1>9, <2>2 DEF Emit
  <2>4. StreamTypeOK'
    BY <1>0, <2>2, <2>3 DEF StreamTypeOK
  <2>5. Owned' /\ StopsInOrder' /\ SamplesStamped'
    BY <1>0, <2>1, <2>3 DEF Owned, StopsInOrder, SamplesStamped, StreamTypeOK
  <2>6. pipe'[p] = Tail(pipe[p]) /\ holding'[p] = <<Head(pipe[p]), Head(stamps)>>
    BY <1>0, <2>3 DEF StreamTypeOK
  <2>7. StampsMatch(p)'
    <3>1. Matches(pipe[p], work[p], stamps)'
      BY <2>2, <2>3, <2>6
    <3>2. alive[p] => Len(Tail(pipe[p])) + Len(work[p]) = Len(Tail(stamps))
      BY <2>1, <2>2, Zenon DEF StampsMatch
    <3>3. holding'[p][1] = holding'[p][2]
      BY <2>2, <2>6
    <3> QED
      BY <2>3, <2>6, <3>1, <3>2, <3>3 DEF StampsMatch
  <2> QED
    BY <2>1, <2>3, <2>4, <2>5, <2>7 DEF StampIInv, StampsKnown
<1>10. ASSUME NEW p \in Procs, Send1(p) PROVE StampIInv'
  <2>1. p = cmd /\ cmd # NoProc /\ StampsMatch(p) /\ reader[p] = "sending"
    BY <1>1, <1>0, <1>10 DEF Send1, Owned, StampIInv, StampsKnown
  <2>2. /\ holding' = [holding EXCEPT ![p] = <<0, 0>>]
        /\ reader' = [reader EXCEPT ![p] = "reading"]
        /\ samples' = <<holding[p]>> \/ samples' = samples
        /\ UNCHANGED <<cmd, work, alive, pipe, stamps, frames, calls>>
    BY <1>10 DEF Send1, NoSample
  <2>3. holding[p] \in Nat \X Nat /\ holding[p][1] = holding[p][2]
    BY <1>0, <2>1 DEF StreamTypeOK, StampsMatch
  <2>4. samples' \in Seq(Nat \X Nat) /\ SamplesStamped'
    <3>1. CASE samples' = samples
      BY <1>0, <3>1 DEF StreamTypeOK, SamplesStamped
    <3>2. CASE samples' = <<holding[p]>>
      <4>1. samples' \in Seq(Nat \X Nat) /\ Len(samples') = 1 /\ samples'[1] = holding[p]
        BY <2>3, <3>2
      <4> QED BY <2>3, <4>1 DEF SamplesStamped
    <3> QED BY <2>2, <3>1, <3>2
  <2>5. StreamTypeOK' /\ Owned' /\ StopsInOrder'
    BY <1>0, <2>1, <2>2, <2>4 DEF StreamTypeOK, Owned, StopsInOrder
  <2>6. reader'[p] = "reading"
    BY <1>0, <2>2 DEF StreamTypeOK
  <2>7. StampsMatch(p)'
    BY <2>1, <2>2, <2>6 DEF StampsMatch
  <2> QED
    BY <2>1, <2>2, <2>4, <2>5, <2>7 DEF StampIInv, StampsKnown
<1>11. ASSUME NEW p \in Procs, ReadEnds(p) PROVE StampIInv'
  BY <1>1, <1>0, <1>11, StreamsRest DEF ReadEnds, StreamTypeOK, Owned, StopsInOrder
<1>12. ASSUME NEW p \in Procs, ProcOutputs(p) PROVE StampIInv'
  <2>1. p = cmd /\ cmd # NoProc /\ work[p] # <<>> /\ StampsMatch(p)
    BY <1>1, <1>0, <1>12 DEF ProcOutputs, Owned, StampIInv, StampsKnown
  <2>2. /\ Append(pipe[p], Head(work[p])) \in Seq(Nat) /\ Tail(work[p]) \in Seq(Nat)
        /\ Matches(Append(pipe[p], Head(work[p])), Tail(work[p]), stamps)
        /\ Len(Append(pipe[p], Head(work[p]))) + Len(Tail(work[p])) = Len(pipe[p]) + Len(work[p])
    BY <1>0, <2>1, FrameThrough DEF StreamTypeOK, StampsMatch
  <2>3. /\ pipe' = [pipe EXCEPT ![p] = Append(pipe[p], Head(work[p]))]
        /\ work' = [work EXCEPT ![p] = Tail(work[p])]
        /\ UNCHANGED <<cmd, alive, reader, holding, stamps, frames, calls, samples>>
    BY <1>12 DEF ProcOutputs
  <2>4. StreamTypeOK'
    BY <1>0, <2>2, <2>3 DEF StreamTypeOK
  <2>5. Owned' /\ StopsInOrder' /\ SamplesStamped'
    BY <1>0, <2>3 DEF Owned, StopsInOrder, SamplesStamped
  <2>6. pipe'[p] = Append(pipe[p], Head(work[p])) /\ work'[p] = Tail(work[p])
    BY <1>0, <2>3 DEF StreamTypeOK
  <2>7. StampsMatch(p)'
    BY <2>1, <2>2, <2>3, <2>6 DEF StampsMatch
  <2> QED
    BY <2>1, <2>3, <2>4, <2>5, <2>7 DEF StampIInv, StampsKnown
<1>13. ASSUME NEW p \in Procs, ProcEnds(p) PROVE StampIInv'
  <2>1. work' \in [Procs -> Seq(Nat)]
    BY <1>0, <1>13, EmptySeq DEF ProcEnds, StreamTypeOK
  <2> QED
    BY <1>1, <1>0, <1>13, <2>1, StreamsRest DEF ProcEnds, StreamTypeOK, Owned, StopsInOrder
<1>14. CASE UNCHANGED ffmpegVars
  BY <1>1, <1>0, <1>14, StreamsRest
     DEF ffmpegVars, procStates, StreamTypeOK, Owned, StopsInOrder
<1> QED
  BY <1>1, <1>2, <1>3, <1>4, <1>5, <1>6, <1>7, <1>8, <1>9, <1>10, <1>11, <1>12, <1>13, <1>14
  DEF FFmpegNext

LEMMA StampInvariant == FFmpegSpec => []StampIInv
  BY FFmpegInitiates, FFmpegStep, PTL DEF FFmpegSpec

\* ProcessOwned: however keyframes, bitrates, deaths and Close fall together,
\* no process and no reader outlives its encoder's knowledge of it, so none
\* sends on Samples once it is closed (ffmpeg.go:187).
THEOREM ProcessesAreOwned == FFmpegSpec => []ProcessOwned
<1>1. StampIInv => ProcessOwned
  BY FFmpegConstants DEF StampIInv, StreamTypeOK, Owned, StopsInOrder, ProcessOwned
<1> QED BY <1>1, StampInvariant, PTL

\* SamplesStamped: every sample carries the timestamp of the frame it shows,
\* whatever is dropped, dies with frames it took, or is replaced.
THEOREM EverySampleStamped == FFmpegSpec => []SamplesStamped
<1>1. StampIInv => SamplesStamped
  BY DEF StampIInv
<1> QED BY <1>1, StampInvariant, PTL

\* The bounds of the type invariant: frames offered, stamps kept, stdin.
StreamBounds ==
    /\ frames <= MaxFrames /\ Len(stamps) <= MaxBehind + 1
    /\ closing \in BOOLEAN /\ stdin \in [Procs -> BOOLEAN]

LEMMA StampsShrink ==
    ASSUME NEW q \in Seq(Nat), q # <<>>
    PROVE  Tail(q) \in Seq(Nat) /\ Len(Tail(q)) <= Len(q)
  OBVIOUS

LEMMA BoundsStep ==
    ASSUME StampIInv, StreamBounds, [FFmpegNext]_ffmpegVars
    PROVE  StreamBounds'
<1>1. /\ stamps \in Seq(Nat) /\ Len(stamps) \in Nat /\ frames \in Nat
      /\ MaxFrames \in Nat /\ MaxBehind \in Nat /\ cmd \in Procs \cup {NoProc}
      /\ frames <= MaxFrames /\ Len(stamps) <= MaxBehind + 1
      /\ closing \in BOOLEAN /\ stdin \in [Procs -> BOOLEAN]
      /\ Len(<<>>) = 0
  BY FFmpegConstants DEF StampIInv, StreamTypeOK, StreamBounds
<1>2. CASE Encode
  <2>1. frames' = frames + 1 /\ frames < MaxFrames /\ UNCHANGED <<closing, stdin>>
    BY <1>2 DEF Encode
  <2>2. CASE Len(stamps) <= MaxBehind /\ stamps' = Append(stamps, frames + 1)
    BY <1>1, <2>1, <2>2 DEF StreamBounds
  <2>3. CASE stamps' = stamps
    BY <1>1, <2>1, <2>3 DEF StreamBounds
  <2>4. QED
    BY <1>2, <2>2, <2>3 DEF Encode
<1>3. CASE Relaunch \/ CloseEncoder
  <2>1. frames' = frames /\ stamps' = stamps /\ closing' \in {closing, TRUE}
        /\ stdin' \in {stdin, [stdin EXCEPT ![cmd] = FALSE]}
    BY <1>3 DEF Relaunch, CloseEncoder, stop
  <2>2. stdin' \in [Procs -> BOOLEAN]
    BY <1>1, <2>1
  <2>3. closing' \in BOOLEAN
    BY <1>1, <2>1
  <2>4. QED
    BY <1>1, <2>1, <2>2, <2>3 DEF StreamBounds
<1>4. CASE Kill \/ Stopped \/ CloseSamples \/ Pump
  BY <1>1, <1>4 DEF Kill, Stopped, CloseSamples, Pump, procStates, StreamBounds
<1>5. CASE start
  <2>1. UNCHANGED <<frames, closing>> /\ stamps' \in {stamps, <<>>}
    BY <1>5 DEF start
  <2>2. stdin' \in [Procs -> BOOLEAN]
    <3>1. stdin' = stdin \/ \E p \in Procs : stdin' = [stdin EXCEPT ![p] = TRUE]
      BY <1>5 DEF start, procStates
    <3>2. QED
      BY <1>1, <3>1
  <2>3. Len(stamps') <= MaxBehind + 1
    BY <1>1, <2>1
  <2>4. QED
    BY <1>1, <2>1, <2>2, <2>3 DEF StreamBounds
<1>6. ASSUME NEW p \in Procs, Emit(p) PROVE StreamBounds'
  <2>1. UNCHANGED <<frames, closing, stdin>> /\ (stamps' = stamps \/ (stamps # <<>> /\ stamps' = Tail(stamps)))
    BY <1>6 DEF Emit
  <2>2. Len(stamps') <= MaxBehind + 1
    <3>1. CASE stamps' = stamps
      BY <1>1, <3>1
    <3>2. CASE stamps # <<>> /\ stamps' = Tail(stamps)
      <4>1. Tail(stamps) \in Seq(Nat) /\ Len(Tail(stamps)) <= Len(stamps)
        BY <1>1, <3>2, StampsShrink
      <4>2. Len(Tail(stamps)) \in Nat
        BY <4>1
      <4>3. QED
        BY <1>1, <3>2, <4>1, <4>2
    <3>3. QED
      BY <2>1, <3>1, <3>2
  <2>3. QED
    BY <1>1, <2>1, <2>2 DEF StreamBounds
<1>7. ASSUME NEW p \in Procs, Send1(p) \/ ReadEnds(p) \/ ProcOutputs(p) \/ ProcEnds(p) PROVE StreamBounds'
  BY <1>1, <1>7 DEF Send1, ReadEnds, ProcOutputs, ProcEnds, StreamBounds
<1>8. CASE UNCHANGED ffmpegVars
  BY <1>1, <1>8 DEF ffmpegVars, procStates, StreamBounds
<1>9. QED
  BY <1>2, <1>3, <1>4, <1>5, <1>6, <1>7, <1>8 DEF FFmpegNext

\* Type correctness of the encoder: whatever dies and is replaced, no more
\* timestamps are kept than frames may be behind.
THEOREM FFmpegIsTyped == FFmpegSpec => []FFmpegTypeOK
<1>1. FFmpegInit => StreamBounds
  <2> SUFFICES ASSUME FFmpegInit PROVE StreamBounds
    OBVIOUS
  <2>1. stamps = <<>> /\ frames = 0 /\ closing = FALSE
    BY DEF FFmpegInit
  <2>2. stdin \in [Procs -> BOOLEAN]
    <3>1. PICK p : stdin = [q \in Procs |-> q = p]
      BY Zenon DEF FFmpegInit
    <3>2. \A q \in Procs : (q = p) \in BOOLEAN
      OBVIOUS
    <3>3. QED
      BY <3>1, <3>2, Zenon
  <2>3. frames <= MaxFrames /\ Len(stamps) <= MaxBehind + 1
    BY <2>1, FFmpegConstants
  <2>4. closing \in BOOLEAN
    BY <2>1
  <2>5. QED
    BY <2>2, <2>3, <2>4 DEF StreamBounds
<1>2. StampIInv /\ StreamBounds => FFmpegTypeOK
  BY FFmpegConstants DEF StampIInv, StreamTypeOK, StreamBounds, FFmpegTypeOK
<1>3. FFmpegSpec => []StreamBounds
  BY <1>1, StampInvariant, BoundsStep, PTL DEF FFmpegSpec
<1>4. QED
  BY <1>2, <1>3, StampInvariant, PTL

-----------------------------------------------------------------------------
(* M2MEncoder: no buffer is lost.                                            *)

(* The inductive invariant. Nothing in the reader's or the caller's step     *)
(* says that the device is still open: it is because Close waits for the     *)
(* reader, and the caller looks at closed under mu.                          *)

CloseInOrder ==
    /\ mapped <=> closePc \in {"no", "wait", "device"}
    /\ closePc \in {"device", "channel", "closed"} => readPc = "done"

M2MIInv == M2MTypeOK /\ CloseInOrder /\ BuffersKept

\* What reaping leaves with the driver is what the device has still to do.
LEMMA ReapAll ==
    ASSUME M2MTypeOK, ReapInput
    PROVE  withDriver' = withDriver \ encoded /\ encoded' = {}
  BY DEF ReapInput

LEMMA M2MInitiates == M2MInit => M2MIInv
  BY DEF M2MInit, M2MIInv, M2MTypeOK, CloseInOrder, BuffersKept

LEMMA M2MStep == M2MIInv /\ [M2MNext]_m2mVars => M2MIInv'
<1>1. SUFFICES ASSUME M2MIInv, [M2MNext]_m2mVars PROVE M2MIInv'
  OBVIOUS
<1>2. CASE EncodeFrame
  <2>1. mapped /\ UNCHANGED <<results, queuedOut, mapped, readPc, ready, closePc>>
    BY <1>1, <1>2 DEF EncodeFrame, closed, M2MIInv, CloseInOrder
  <2>2. CASE free \cup encoded = {}
    BY <1>1, <1>2, <2>1, <2>2, ReapAll
       DEF EncodeFrame, M2MIInv, M2MTypeOK, CloseInOrder, BuffersKept
  <2>3. CASE free \cup encoded # {}
    <3>1. PICK i \in IF encoded = {} THEN free ELSE encoded :
             /\ free' = (free \cup encoded) \ {i} /\ encoded' = {}
             /\ \/ withDriver' = (withDriver \ encoded) \cup {i} /\ UNCHANGED leaked
                \/ withDriver' = withDriver \ encoded /\ leaked' = leaked \cup {i}
      BY <1>2, <2>3 DEF EncodeFrame
    <3>2. i \in Inputs /\ i \in free \cup encoded /\ i \notin withDriver \ encoded
      BY <1>1, <2>1, <3>1 DEF M2MIInv, M2MTypeOK, BuffersKept
    <3>3. QED
      BY <1>1, <2>1, <3>1, <3>2, M2MConstants
         DEF M2MIInv, M2MTypeOK, CloseInOrder, BuffersKept
  <2>4. QED
    BY <2>2, <2>3
<1>3. CASE DeviceEncodes
  BY <1>1, <1>3 DEF DeviceEncodes, M2MIInv, M2MTypeOK, CloseInOrder, BuffersKept
<1>4. CASE ReaderPolls
  BY <1>1, <1>4 DEF ReaderPolls, driverVars, closed, M2MIInv, M2MTypeOK, CloseInOrder, BuffersKept
<1>5. CASE ReaderLocks
  <2>1. /\ mapped /\ readPc = "lock" /\ readPc' \in {"done", "poll", "send"}
        /\ UNCHANGED closePc /\ ready' = {}
    BY <1>1, <1>5 DEF ReaderLocks, closed, M2MIInv, M2MTypeOK, CloseInOrder
  <2>2. UNCHANGED mapped
    BY <1>5 DEF ReaderLocks, driverVars
  <2>3. /\ free' \subseteq Inputs /\ withDriver' \subseteq Inputs /\ encoded' \subseteq withDriver'
        /\ free' \cap withDriver' = {} /\ free' \cup withDriver' = free \cup withDriver
    BY <1>1, <1>5, <2>1 DEF ReaderLocks, ReapInput, driverVars, M2MIInv, M2MTypeOK, BuffersKept
  <2>4. \/ UNCHANGED <<results, queuedOut, leaked>>
        \/ \E o \in results : /\ results' = results \ {o}
                              /\ \/ queuedOut' = queuedOut \cup {o} /\ UNCHANGED leaked
                                 \/ leaked' = leaked \cup {o} /\ UNCHANGED queuedOut
    BY <1>5 DEF ReaderLocks, driverVars
  <2>5. /\ results' \subseteq Outputs /\ queuedOut' \subseteq Outputs
        /\ results' \cap queuedOut' = {}
        /\ results' \cup queuedOut' = Outputs \ leaked'
        /\ leaked' \subseteq Inputs \cup Outputs /\ Inputs \ leaked' = Inputs \ leaked
    <3>1. CASE UNCHANGED <<results, queuedOut, leaked>>
      BY <1>1, <2>1, <3>1 DEF M2MIInv, M2MTypeOK, BuffersKept
    <3>2. ASSUME NEW o \in results, results' = results \ {o},
                 \/ queuedOut' = queuedOut \cup {o} /\ UNCHANGED leaked
                 \/ leaked' = leaked \cup {o} /\ UNCHANGED queuedOut
          PROVE  <2>5
      <4>1. o \in Outputs /\ o \notin Inputs /\ o \notin queuedOut
        BY <1>1, <2>1, M2MConstants DEF M2MIInv, M2MTypeOK, BuffersKept
      <4>2. QED
        BY <1>1, <2>1, <3>2, <4>1 DEF M2MIInv, M2MTypeOK, BuffersKept
    <3>3. QED
      BY <2>4, <3>1, <3>2
  <2>6. ready' \subseteq {"in", "out"} /\ CloseInOrder'
    BY <1>1, <2>1, <2>2 DEF M2MIInv, CloseInOrder
  <2>7. M2MTypeOK'
    BY <1>1, <2>1, <2>2, <2>3, <2>5, <2>6 DEF M2MIInv, M2MTypeOK
  <2>8. BuffersKept'
    BY <1>1, <2>1, <2>2, <2>3, <2>5 DEF M2MIInv, CloseInOrder, BuffersKept
  <2>9. QED
    BY <2>6, <2>7, <2>8 DEF M2MIInv
<1>6. CASE ReaderSends
  BY <1>1, <1>6 DEF ReaderSends, driverVars, closed, M2MIInv, M2MTypeOK, CloseInOrder, BuffersKept
<1>7. CASE M2MClose
  BY <1>1, <1>7 DEF M2MClose, driverVars, M2MIInv, M2MTypeOK, CloseInOrder, BuffersKept
<1>8. CASE CloseWaits
  BY <1>1, <1>8 DEF CloseWaits, driverVars, M2MIInv, M2MTypeOK, CloseInOrder, BuffersKept
<1>9. CASE CloseDevice
  BY <1>1, <1>9 DEF CloseDevice, M2MIInv, M2MTypeOK, CloseInOrder, BuffersKept
<1>10. CASE CloseChannel
  BY <1>1, <1>10 DEF CloseChannel, driverVars, M2MIInv, M2MTypeOK, CloseInOrder, BuffersKept
<1>11. CASE UNCHANGED m2mVars
  BY <1>1, <1>11 DEF m2mVars, M2MIInv, M2MTypeOK, CloseInOrder, BuffersKept
<1>12. QED
  BY <1>1, <1>2, <1>3, <1>4, <1>5, <1>6, <1>7, <1>8, <1>9, <1>10, <1>11 DEF M2MNext

\* For any number of buffers: while the device is open every one of them is
\* in one place, free or with the driver, but those whose QBUF failed; and
\* the reader is through before device and channel are closed under it.
THEOREM EveryBufferKept == M2MSpec => []BuffersKept
<1>1. M2MIInv => BuffersKept
  BY DEF M2MIInv
<1>2. QED
  BY <1>1, M2MInitiates, M2MStep, PTL DEF M2MSpec

\* Type correctness of the hardware encoder.
THEOREM M2MIsTyped == M2MSpec => []M2MTypeOK
<1>1. M2MIInv => M2MTypeOK
  BY DEF M2MIInv
<1>2. QED
  BY <1>1, M2MInitiates, M2MStep, PTL DEF M2MSpec

-----------------------------------------------------------------------------
(* CropStore: the crop on disk.                                              *)

(* The inductive invariant. CropKept speaks of the moments nobody holds      *)
(* cropMu; in between, what the holder has yet to do must be enough to bring *)
(* file and memory together, and whatever is on disk must be something a     *)
(* start can take for its choice.                                            *)

\* One request is at work, the one that has cropMu.
OneAtWork == \A q \in CropRequests : asks[q] # "no" => storeMu = q

\* "saved" has a crop to use: in memory, on disk, and in the file to come.
Usable(f) == f.use = "saved" => f.savedFor # {}
AllUsable ==
    /\ Usable(Current)
    /\ onDisk # NoFile => Usable(onDisk)
    /\ tmp # NoFile => Usable(tmp)

\* The request at work has what its next step goes by.
AtWork ==
    \A q \in CropRequests :
        /\ asks[q] = "choose" => savedFor # {}
        /\ asks[q] = "rename" => tmp = Current /\ ~Default

WrittenAsHeld ==
    storeMu = "free" /\ ~unwritten => IF onDisk = NoFile THEN Default ELSE onDisk = Current

StoreIInv == StoreTypeOK /\ OneAtWork /\ AllUsable /\ AtWork /\ WrittenAsHeld

\* A file is what memory holds when both fields agree.
LEMMA FileIsItsFields ==
    ASSUME NEW f \in CropFiles
    PROVE  f = [use |-> f.use, savedFor |-> f.savedFor]
  BY DEF CropFiles

\* What is in memory is never mistaken for the absence of a file.
LEMMA CurrentIsAFile ==
    ASSUME StoreTypeOK
    PROVE  Current # NoFile
  BY StoreConstants DEF StoreTypeOK

LEMMA StoreInitiates == StoreInit => StoreIInv
  BY StoreConstants
     DEF StoreInit, StoreIInv, StoreTypeOK, OneAtWork, AllUsable, AtWork, WrittenAsHeld, Usable, Default,
         Current, CropFiles

\* A request that takes cropMu, or has it, is the only one at work.
LEMMA HoldingAlone ==
    ASSUME StoreIInv, NEW q \in CropRequests, NEW at \in {"no", "choose", "store", "rename"},
           NEW next \in {"no", "choose", "store", "rename"}, Holding(q, at, next)
    PROVE  /\ storeMu' \in CropRequests \cup {"free"}
           /\ asks' \in [CropRequests -> {"no", "choose", "store", "rename"}]
           /\ OneAtWork'
           /\ asks'[q] = next
           /\ \A r \in CropRequests \ {q} : asks'[r] = "no"
           /\ storeMu' = "free" <=> next = "no"
  BY StoreConstants DEF StoreIInv, StoreTypeOK, OneAtWork, Holding

LEMMA StoreStep == StoreIInv /\ [StoreNext]_storeVars => StoreIInv'
<1>1. SUFFICES ASSUME StoreIInv, [StoreNext]_storeVars PROVE StoreIInv'
  OBVIOUS
<1>2. ASSUME NEW q \in CropRequests, chooseCrop(q) PROVE StoreIInv'
  <2>1. Holding(q, "no", "store")
    BY <1>2 DEF chooseCrop
  <2>2. QED
    BY <1>1, <1>2, <2>1, HoldingAlone
       DEF StoreIInv, StoreTypeOK, chooseCrop, AllUsable, Usable, AtWork, WrittenAsHeld, Default, Current,
           CropFiles, fileVars
<1>3. ASSUME NEW q \in CropRequests, SetAutocrop(q) PROVE StoreIInv'
  <2>1. Holding(q, "no", "store")
    BY <1>3 DEF SetAutocrop
  <2>2. QED
    BY <1>1, <1>3, <2>1, HoldingAlone
       DEF StoreIInv, StoreTypeOK, SetAutocrop, AllUsable, Usable, AtWork, WrittenAsHeld, Default, Current,
           CropFiles, fileVars
<1>4. ASSUME NEW q \in CropRequests, saveCrop(q) PROVE StoreIInv'
  <2>1. CASE Holding(q, "no", "choose") /\ UNCHANGED <<use, fileVars>>
             /\ \E o \in Orientations : savedFor' = savedFor \cup {o}
    BY <1>1, <2>1, HoldingAlone
       DEF StoreIInv, StoreTypeOK, AllUsable, Usable, AtWork, WrittenAsHeld, Default, Current,
           CropFiles, fileVars
  <2>2. CASE Holding(q, "choose", "store") /\ use' = "saved" /\ UNCHANGED <<savedFor, fileVars>>
    <3>1. savedFor # {}
      BY <1>1, <2>2 DEF StoreIInv, AtWork, Holding
    <3>2. QED
      BY <1>1, <2>2, <3>1, HoldingAlone
         DEF StoreIInv, StoreTypeOK, AllUsable, Usable, AtWork, WrittenAsHeld, Default, Current,
             CropFiles, fileVars
  <2>3. QED
    BY <1>4, <2>1, <2>2 DEF saveCrop
<1>5. ASSUME NEW q \in CropRequests, clearCrop(q) PROVE StoreIInv'
  <2>1. Holding(q, "no", "store")
    BY <1>5 DEF clearCrop
  <2>2. QED
    BY <1>1, <1>5, <2>1, HoldingAlone
       DEF StoreIInv, StoreTypeOK, clearCrop, AllUsable, Usable, AtWork, WrittenAsHeld, Default, Current,
           CropFiles, fileVars
<1>6. ASSUME NEW q \in CropRequests, storeCrops(q) PROVE StoreIInv'
  <2>1. CASE Default /\ Holding(q, "store", "no") /\ onDisk' = NoFile /\ unwritten' = FALSE
             /\ UNCHANGED <<memoryVars, tmp>>
    BY <1>1, <2>1, HoldingAlone
       DEF StoreIInv, StoreTypeOK, AllUsable, Usable, AtWork, WrittenAsHeld, Default, Current, memoryVars
  <2>2. CASE ~Default /\ Holding(q, "store", "rename") /\ tmp' = Current
             /\ UNCHANGED <<memoryVars, onDisk, unwritten>>
    BY <1>1, <2>2, HoldingAlone, CurrentIsAFile
       DEF StoreIInv, StoreTypeOK, AllUsable, Usable, AtWork, WrittenAsHeld, Default, Current, memoryVars
  <2>3. CASE Holding(q, "store", "no") /\ unwritten' = TRUE
             /\ UNCHANGED <<memoryVars, onDisk, tmp>>
    BY <1>1, <2>3, HoldingAlone
       DEF StoreIInv, StoreTypeOK, AllUsable, Usable, AtWork, WrittenAsHeld, Default, Current, memoryVars
  <2>4. QED
    BY <1>6, <2>1, <2>2, <2>3 DEF storeCrops
<1>7. ASSUME NEW q \in CropRequests, renameCrops(q) PROVE StoreIInv'
  <2>1. Holding(q, "rename", "no") /\ UNCHANGED memoryVars
    BY <1>7 DEF renameCrops
  <2>2. tmp = Current /\ tmp # NoFile
    BY <1>1, <2>1, CurrentIsAFile DEF StoreIInv, AtWork, Holding
  <2>3. Current' = Current /\ (Default' <=> Default) /\ ~Default
    BY <1>1, <2>1 DEF Current, Default, memoryVars, StoreIInv, AtWork, Holding
  <2>4. OneAtWork' /\ (\A r \in CropRequests : asks'[r] = "no")
    BY <1>1, <2>1, HoldingAlone
  <2>5. CASE onDisk' = tmp /\ tmp' = NoFile /\ unwritten' = FALSE
    BY <1>1, <2>1, <2>2, <2>3, <2>4, <2>5, HoldingAlone
       DEF StoreIInv, StoreTypeOK, AllUsable, AtWork, WrittenAsHeld
  <2>6. CASE unwritten' = TRUE /\ UNCHANGED <<onDisk, tmp>>
    BY <1>1, <2>1, <2>2, <2>3, <2>4, <2>6, HoldingAlone
       DEF StoreIInv, StoreTypeOK, AllUsable, AtWork, WrittenAsHeld
  <2>7. QED
    BY <1>7, <2>5, <2>6 DEF renameCrops
<1>8. ASSUME loadSavedCrops PROVE StoreIInv'
  <2>1. CASE onDisk = NoFile
    BY <1>1, <1>8, <2>1, StoreConstants
       DEF StoreIInv, StoreTypeOK, OneAtWork, loadSavedCrops, AllUsable, Usable, AtWork, WrittenAsHeld,
           Default, Current, CropFiles
  <2>2. CASE onDisk # NoFile
    <3>1. onDisk \in CropFiles /\ use' = onDisk.use /\ savedFor' = onDisk.savedFor
      BY <1>1, <1>8, <2>2 DEF StoreIInv, StoreTypeOK, loadSavedCrops
    <3>2. Current' = onDisk
      BY <3>1, FileIsItsFields DEF Current
    <3>3. QED
      BY <1>1, <1>8, <2>2, <3>1, <3>2, StoreConstants
         DEF StoreIInv, StoreTypeOK, OneAtWork, loadSavedCrops, AllUsable, AtWork, WrittenAsHeld
  <2>3. QED
    BY <2>1, <2>2
<1>9. CASE UNCHANGED storeVars
  BY <1>1, <1>9
     DEF StoreIInv, StoreTypeOK, OneAtWork, AllUsable, Usable, AtWork, WrittenAsHeld, Default, Current,
         storeVars, memoryVars, fileVars
<1>10. QED
  BY <1>1, <1>2, <1>3, <1>4, <1>5, <1>6, <1>7, <1>8, <1>9 DEF StoreNext

LEMMA StoreInvariance == StoreSpec => []StoreIInv
<1>1. QED
  BY StoreInitiates, StoreStep, PTL DEF StoreSpec

\* For any requests that overlap in any way, and an end of roadie between any
\* two of their steps: whenever no request is at work, the crop in memory is
\* the one a restart would bring back, unless its write failed, and "saved"
\* is chosen only with a crop to use.
THEOREM CropIsKept == StoreSpec => []CropKept
<1>1. StoreIInv => CropKept
  BY DEF StoreIInv, AllUsable, Usable, Current, WrittenAsHeld, CropKept
<1>2. QED
  BY <1>1, StoreInvariance, PTL

\* Type correctness of the crop store: what is on disk is a crop file or none.
THEOREM StoreIsTyped == StoreSpec => []StoreTypeOK
<1>1. StoreIInv => StoreTypeOK
  BY DEF StoreIInv
<1>2. QED
  BY <1>1, StoreInvariance, PTL

-----------------------------------------------------------------------------
(* CropTracker: which way up the picture is.                                 *)

\* The latest detection is what waits to be seen again, as a turn or as a crop.
TurnWaits == orientPending # NotTurned => contentRect # NoRect /\ contentRect.turned = orientPending
CropWaits ==
    /\ usingSaved => pendingCrop = NoRect
    /\ framePc = "read" => ~detected
    /\ activeCrop # NoRect /\ pendingCrop # NoRect =>
          pendingCrop = IF detected THEN before ELSE contentRect

\* The loop uses the saved crop that is to be used, if there is one, and none
\* when crops are off.
InStep == /\ usingSaved <=> SavedInUse # NoRect
          /\ usingSaved => activeCrop = SavedInUse
OffIsOff == cropUse = "off" => activeCrop = NoRect
Agreed == before # NoRect /\ contentRect.turned = turnedTo /\ before.turned = turnedTo

\* A request has taken effect after a frame that it did not come into; only a
\* turn that two detections agree on moves the saved crop after that.
RequestsTakeEffect ==
    /\ asked = 0 => OffIsOff
    /\ asked = 0 /\ framePc = "read" => InStep
    /\ asked = 0 /\ framePc = "saved" => InStep \/ Agreed
    /\ asked < 2 /\ framePc = "auto" => InStep

CropTyped ==
    /\ contentRect \in Rects \cup {NoRect} /\ before \in Rects \cup {NoRect}
    /\ activeCrop \in Rects \cup {NoRect} /\ pendingCrop \in Rects \cup {NoRect}
    /\ turnedTo \in Turns /\ orientPending \in Turns
    /\ cropUse \in Uses /\ savedCrops \in [Sides -> Rects \cup {NoRect}]
    /\ framePc \in {"read", "saved", "auto"}
    /\ orientSeen \in 0..1 /\ pendingCropSeen \in 0..1 /\ asked \in 0..2

CropFlags == usingSaved \in BOOLEAN /\ detected \in BOOLEAN

CropIInv == CropTyped /\ CropFlags /\ TurnWaits /\ CropWaits /\ RequestsTakeEffect

LEMMA TurnsApart == NotTurned \notin Sides
<1>1. NotTurned # "portrait" /\ NotTurned # "landscape"
  BY Zenon DEF NotTurned
<1>2. QED
  BY <1>1 DEF Sides

LEMMA CropInitiates == CropInit => CropIInv
<1>1. CropInit => CropFlags
  BY Zenon DEF CropInit, CropFlags
<1>2. CropInit => CropTyped
  BY DEF CropInit, CropTyped, NoneSaved, Sides, Uses, Turns
<1>3. CropInit => TurnWaits /\ CropWaits /\ RequestsTakeEffect
  BY TurnsApart DEF CropInit, TurnWaits, CropWaits, RequestsTakeEffect, OffIsOff, InStep, SavedInUse
<1>4. QED
  BY <1>1, <1>2, <1>3 DEF CropIInv

LEMMA CropFlagsStep == CropFlags /\ [CropNext]_cropVars => CropFlags'
  BY Zenon DEF CropFlags, CropNext, cropVars, trackVars, chosenVars, loopVars, DetectFrame, PassFrame, SavedCropFor,
        AutoCrop, CaptureRestarts, SetCropUse, SetSavedCrop, CropRestart

\* A turn that is taken over was waiting: the detection before saw it too.
LEMMA Tracked ==
    ASSUME CropTyped, TurnWaits, NEW r \in Rects, trackOrientation(r.turned), contentRect' = r, before' = contentRect
    PROVE  /\ turnedTo' \in Turns /\ orientPending' \in Turns /\ orientSeen' \in 0..1
           /\ TurnWaits'
           /\ turnedTo' = turnedTo \/ Agreed'
<1>1. r.turned \in Turns /\ r # NoRect /\ turnedTo \in Turns /\ NotTurned \in Turns /\ orientSeen \in 0..1
  BY CropConstants DEF CropTyped, Turns
<1>2. CASE r.turned \in {NotTurned, turnedTo}
  BY <1>1, <1>2 DEF trackOrientation, TurnWaits
<1>3. CASE r.turned \notin {NotTurned, turnedTo}
  <2> DEFINE n == IF r.turned = orientPending THEN orientSeen + 1 ELSE 1
  <2>1. n \in 1..2
    BY <1>1
  <2>2. IF n >= cropAgreeCount
        THEN turnedTo' = r.turned /\ orientPending' = NotTurned /\ orientSeen' = 0
        ELSE orientPending' = r.turned /\ orientSeen' = n /\ UNCHANGED turnedTo
    BY <1>3 DEF trackOrientation
  <2>3. n >= cropAgreeCount => r.turned = orientPending
    BY DEF cropAgreeCount
  <2> HIDE DEF n
  <2>4. CASE n >= cropAgreeCount
    <3>1. contentRect # NoRect /\ contentRect.turned = r.turned
      BY <1>3, <2>3, <2>4 DEF TurnWaits
    <3>2. turnedTo' = r.turned /\ orientPending' = NotTurned /\ orientSeen' = 0
      BY <2>2, <2>4
    <3>3. QED
      BY <1>1, <3>1, <3>2 DEF Agreed, TurnWaits
  <2>5. CASE ~(n >= cropAgreeCount)
    <3>1. n = 1
      BY <2>1, <2>5 DEF cropAgreeCount
    <3>2. orientPending' = r.turned /\ orientSeen' = 1 /\ UNCHANGED turnedTo
      BY <2>2, <2>5, <3>1
    <3>3. QED
      BY <1>1, <3>2 DEF TurnWaits
  <2>6. QED
    BY <2>4, <2>5
<1>4. QED
  BY <1>2, <1>3

\* What auto-crop does with a detection.
LEMMA Followed ==
    ASSUME pendingCropSeen \in 0..1, NEW r, FollowDetection(r)
    PROVE  /\ activeCrop' = activeCrop \/ (activeCrop' = r /\ r # NoRect /\ (activeCrop = NoRect \/ r = pendingCrop))
           /\ pendingCrop' = NoRect \/ pendingCrop' = r
           /\ pendingCropSeen' \in 0..1
<1>1. CASE r = NoRect \/ ~isMajorCropChange(activeCrop, r) \/ activeCrop = NoRect
  BY <1>1 DEF FollowDetection, Pend
<1>2. CASE r # NoRect /\ isMajorCropChange(activeCrop, r) /\ activeCrop # NoRect
  <2>1. CASE r # pendingCrop
    BY <1>2, <2>1 DEF FollowDetection, Pend
  <2>2. CASE r = pendingCrop /\ pendingCropSeen + 1 >= cropAgreeCount
    BY <1>2, <2>2 DEF FollowDetection, Pend
  <2>3. CASE r = pendingCrop /\ ~(pendingCropSeen + 1 >= cropAgreeCount)
    <3>1. pendingCropSeen + 1 \in 0..1
      BY <2>3 DEF cropAgreeCount
    <3>2. QED
      BY <1>2, <2>3, <3>1 DEF FollowDetection, Pend
  <2>4. QED
    BY <2>1, <2>2, <2>3
<1>3. QED
  BY <1>1, <1>2

\* The steps of a frame, and the others.
FrameKeeps == CropTyped /\ TurnWaits /\ CropWaits /\ RequestsTakeEffect

LEMMA DetectKeeps == ASSUME CropIInv, DetectFrame PROVE FrameKeeps'
<1>1. PICK r \in Rects : contentRect' = r /\ before' = contentRect /\ trackOrientation(r.turned)
  BY DEF DetectFrame
<1>2. /\ framePc = "read" /\ detected' = TRUE /\ framePc' = "saved"
      /\ UNCHANGED <<cropUse, savedCrops, activeCrop, usingSaved, pendingCrop, pendingCropSeen, asked>>
      /\ CropTyped /\ TurnWaits /\ CropWaits /\ RequestsTakeEffect
  BY DEF DetectFrame, chosenVars, CropIInv
<1>3. /\ turnedTo' \in Turns /\ orientPending' \in Turns /\ orientSeen' \in 0..1
      /\ TurnWaits' /\ (turnedTo' = turnedTo \/ Agreed')
  BY <1>1, <1>2, Tracked
<1>4. CropTyped'
  BY <1>1, <1>2, <1>3 DEF CropTyped
<1>5. CropWaits'
  BY <1>1, <1>2 DEF CropWaits
<1>6. RequestsTakeEffect'
  <2>1. OffIsOff => OffIsOff'
    BY <1>2 DEF OffIsOff
  <2>2. asked = 0 => InStep
    BY <1>2 DEF RequestsTakeEffect
  <2>3. turnedTo' = turnedTo => (InStep => InStep')
    BY <1>2 DEF InStep, SavedInUse
  <2>4. QED
    BY <1>2, <1>3, <2>1, <2>2, <2>3 DEF RequestsTakeEffect
<1>7. QED
  BY <1>3, <1>4, <1>5, <1>6 DEF FrameKeeps

LEMMA PassKeeps == ASSUME CropIInv, PassFrame \/ UNCHANGED cropVars PROVE FrameKeeps'
<1>1. /\ UNCHANGED <<contentRect, turnedTo, orientPending, orientSeen, before, cropUse, savedCrops, activeCrop,
                     usingSaved, pendingCrop, pendingCropSeen, detected, asked>>
      /\ UNCHANGED framePc \/ (framePc = "read" /\ framePc' = "saved")
      /\ CropTyped /\ TurnWaits /\ CropWaits /\ RequestsTakeEffect
  BY DEF PassFrame, cropVars, trackVars, chosenVars, loopVars, CropIInv
<1>2. (InStep => InStep') /\ (Agreed => Agreed') /\ (OffIsOff => OffIsOff')
  BY <1>1 DEF InStep, SavedInUse, Agreed, OffIsOff
<1>3. CropTyped' /\ TurnWaits'
  BY <1>1 DEF CropTyped, TurnWaits
<1>4. CropWaits'
  BY <1>1 DEF CropWaits
<1>5. RequestsTakeEffect'
  BY <1>1, <1>2 DEF RequestsTakeEffect
<1>6. QED
  BY <1>3, <1>4, <1>5 DEF FrameKeeps

LEMMA SavedKeeps == ASSUME CropIInv, SavedCropFor PROVE FrameKeeps'
<1>1. /\ UNCHANGED <<contentRect, turnedTo, orientPending, orientSeen, before, cropUse, savedCrops, detected, asked>>
      /\ framePc = "saved" /\ framePc' = "auto"
      /\ CropTyped /\ TurnWaits /\ CropWaits /\ RequestsTakeEffect /\ CropFlags
  BY DEF SavedCropFor, trackVars, chosenVars, CropIInv
<1>2. SavedInUse' = SavedInUse
  BY <1>1 DEF SavedInUse
<1>3. \/ /\ SavedInUse # NoRect /\ activeCrop' = SavedInUse /\ usingSaved' = TRUE
         /\ pendingCrop' = NoRect /\ pendingCropSeen' = 0
      \/ /\ SavedInUse = NoRect /\ usingSaved' = FALSE /\ UNCHANGED <<pendingCrop, pendingCropSeen>>
         /\ activeCrop' = NoRect \/ (activeCrop' = activeCrop /\ ~usingSaved)
  BY DEF SavedCropFor
<1>4. SavedInUse \in Rects \cup {NoRect}
  BY <1>1 DEF SavedInUse, CropTyped
<1>5. CropTyped'
  <2>1. activeCrop' \in Rects \cup {NoRect} /\ pendingCrop' \in Rects \cup {NoRect} /\ pendingCropSeen' \in 0..1
    BY <1>1, <1>3, <1>4 DEF CropTyped
  <2>2. QED
    BY <1>1, <2>1 DEF CropTyped
<1>6. TurnWaits' /\ CropWaits'
  BY <1>1, <1>3 DEF TurnWaits, CropWaits
<1>7. InStep'
  BY <1>2, <1>3 DEF InStep
<1>8. asked = 0 => OffIsOff'
  <2>1. SUFFICES ASSUME asked = 0, cropUse = "off" PROVE activeCrop' = NoRect
    BY <1>1 DEF OffIsOff
  <2>2. SavedInUse = NoRect /\ activeCrop = NoRect
    BY <1>1, <2>1 DEF SavedInUse, RequestsTakeEffect, OffIsOff
  <2>3. QED
    BY <1>3, <2>2
<1>9. RequestsTakeEffect'
  BY <1>1, <1>7, <1>8 DEF RequestsTakeEffect
<1>10. QED
  BY <1>5, <1>6, <1>9 DEF FrameKeeps

LEMMA AutoKeeps == ASSUME CropIInv, AutoCrop PROVE FrameKeeps'
<1>1. /\ UNCHANGED <<contentRect, turnedTo, orientPending, orientSeen, before, cropUse, savedCrops, usingSaved>>
      /\ framePc = "auto" /\ framePc' = "read" /\ detected' = FALSE
      /\ CropTyped /\ TurnWaits /\ CropWaits /\ RequestsTakeEffect /\ CropFlags
  BY DEF AutoCrop, trackVars, chosenVars, CropIInv
<1>2. SavedInUse' = SavedInUse
  BY <1>1 DEF SavedInUse
<1>3. \/ usingSaved /\ UNCHANGED <<activeCrop, pendingCrop, pendingCropSeen>>
      \/ ~usingSaved /\ activeCrop' = NoRect /\ UNCHANGED <<pendingCrop, pendingCropSeen>>
      \/ ~usingSaved /\ cropUse # "off" /\ detected /\ FollowDetection(contentRect)
      \/ ~usingSaved /\ cropUse # "off" /\ ~detected /\ UNCHANGED <<activeCrop, pendingCrop, pendingCropSeen>>
  BY DEF AutoCrop
<1>4. asked' \in 0..2 /\ (asked' = 0 => asked < 2)
  <2>1. asked \in 0..2 /\ asked' = IF asked > 0 THEN asked - 1 ELSE 0
    BY <1>1 DEF AutoCrop, CropTyped
  <2>2. QED
    BY <2>1
<1>5. ASSUME detected, FollowDetection(contentRect)
      PROVE  /\ activeCrop' \in {activeCrop, contentRect} /\ pendingCrop' \in {NoRect, contentRect}
             /\ pendingCropSeen' \in 0..1
  BY <1>1, <1>5, Followed DEF CropTyped
<1>6. CropTyped'
  <2>1. activeCrop' \in Rects \cup {NoRect} /\ pendingCrop' \in Rects \cup {NoRect} /\ pendingCropSeen' \in 0..1
    BY <1>1, <1>3, <1>5 DEF CropTyped
  <2>2. QED
    BY <1>1, <1>4, <2>1 DEF CropTyped
<1>7. TurnWaits' /\ CropWaits'
  BY <1>1, <1>3, <1>5 DEF TurnWaits, CropWaits
<1>8. asked' = 0 => InStep'
  BY <1>1, <1>2, <1>3, <1>4 DEF InStep, RequestsTakeEffect
<1>9. asked' = 0 => OffIsOff'
  <2>1. SUFFICES ASSUME asked < 2, cropUse = "off" PROVE activeCrop' = NoRect
    BY <1>1, <1>4 DEF OffIsOff
  <2>2. SavedInUse = NoRect /\ InStep
    BY <1>1, <2>1 DEF SavedInUse, RequestsTakeEffect
  <2>3. QED
    BY <1>3, <2>1, <2>2 DEF InStep
<1>10. RequestsTakeEffect'
  BY <1>1, <1>8, <1>9 DEF RequestsTakeEffect
<1>11. QED
  BY <1>6, <1>7, <1>10 DEF FrameKeeps

LEMMA RequestsKeep == ASSUME CropIInv, CaptureRestarts \/ SetCropUse \/ SetSavedCrop \/ CropRestart PROVE FrameKeeps'
<1>1. CropTyped /\ TurnWaits /\ CropWaits /\ asked' = 2
  BY DEF CropIInv, CaptureRestarts, SetCropUse, SetSavedCrop, CropRestart
<1>2. RequestsTakeEffect'
  BY <1>1 DEF RequestsTakeEffect
<1>3. CASE CaptureRestarts
  BY <1>1, <1>2, <1>3 DEF CaptureRestarts, trackVars, chosenVars, FrameKeeps, CropTyped, TurnWaits, CropWaits
<1>4. CASE SetCropUse
  BY <1>1, <1>2, <1>4 DEF SetCropUse, trackVars, loopVars, FrameKeeps, CropTyped, TurnWaits, CropWaits
<1>5. CASE SetSavedCrop
  <2>1. savedCrops' \in [Sides -> Rects \cup {NoRect}]
    BY <1>1, <1>5 DEF SetSavedCrop, CropTyped
  <2>2. QED
    BY <1>1, <1>2, <1>5, <2>1 DEF SetSavedCrop, trackVars, loopVars, FrameKeeps, CropTyped, TurnWaits, CropWaits
<1>6. CASE CropRestart
  <2> DEFINE ways == {o \in Sides : savedCrops[o] # NoRect}
  <2>1. turnedTo' = IF cropUse = "saved" /\ Cardinality(ways) = 1 THEN CHOOSE o \in ways : TRUE ELSE NotTurned
    BY <1>6 DEF CropRestart
  <2>2. Cardinality(ways) = 1 => \E o \in ways : TRUE
    BY FS_EmptySet
  <2>3. turnedTo' \in Turns
    BY <2>1, <2>2 DEF Sides, Turns
  <2>4. QED
    BY <1>1, <1>2, <1>6, <2>3 DEF CropRestart, chosenVars, FrameKeeps, CropTyped, TurnWaits, CropWaits, Turns
<1>7. QED
  BY <1>3, <1>4, <1>5, <1>6

LEMMA CropStep == CropIInv /\ [CropNext]_cropVars => CropIInv'
<1>1. SUFFICES ASSUME CropIInv, [CropNext]_cropVars PROVE FrameKeeps'
  BY CropFlagsStep DEF CropIInv, FrameKeeps
<1>2. QED
  BY <1>1, DetectKeeps, PassKeeps, SavedKeeps, AutoKeeps, RequestsKeep DEF CropNext

LEMMA CropInvariant == CropSpec => []CropIInv
  BY CropInitiates, CropStep, PTL DEF CropSpec

\* One odd frame changes no crop, whatever the shapes of the crops.
THEOREM OddFramesPass == CropSpec => OneFrameTurnsNothing
<1>1. ASSUME CropIInv, [CropNext]_cropVars
      PROVE  [asked = 0 /\ asked' = 0 /\ activeCrop # NoRect /\ activeCrop' # activeCrop =>
                 \/ contentRect = before /\ activeCrop' = contentRect
                 \/ /\ framePc = "saved" /\ before # NoRect
                    /\ contentRect.turned = turnedTo /\ before.turned = turnedTo]_cropVars
  <2>1. SUFFICES ASSUME CropNext, asked = 0, asked' = 0, activeCrop # NoRect, activeCrop' # activeCrop
                 PROVE  \/ contentRect = before /\ activeCrop' = contentRect
                        \/ /\ framePc = "saved" /\ before # NoRect
                           /\ contentRect.turned = turnedTo /\ before.turned = turnedTo
    BY <1>1 DEF cropVars, loopVars
  <2>2. CropWaits /\ RequestsTakeEffect /\ CropTyped
    BY <1>1 DEF CropIInv
  <2>3. CASE SavedCropFor
    <3>1. ~InStep
      BY <2>1, <2>3 DEF SavedCropFor, InStep
    <3>2. Agreed /\ framePc = "saved"
      BY <2>1, <2>2, <2>3, <3>1 DEF SavedCropFor, RequestsTakeEffect
    <3>3. QED
      BY <3>2 DEF Agreed
  <2>4. CASE AutoCrop
    <3>1. InStep /\ OffIsOff
      BY <2>1, <2>2, <2>4 DEF AutoCrop, RequestsTakeEffect
    <3>2. detected /\ FollowDetection(contentRect)
      BY <2>1, <2>4, <3>1 DEF AutoCrop, InStep, OffIsOff
    <3>3. activeCrop' = contentRect /\ contentRect # NoRect /\ contentRect = pendingCrop
      BY <2>1, <2>2, <3>2, Followed DEF CropTyped
    <3>4. QED
      BY <2>1, <2>2, <3>2, <3>3 DEF CropWaits
  <2>5. ~DetectFrame /\ ~PassFrame
    BY <2>1 DEF DetectFrame, PassFrame
  <2>6. ~CaptureRestarts /\ ~SetCropUse /\ ~SetSavedCrop /\ ~CropRestart
    BY <2>1 DEF CaptureRestarts, SetCropUse, SetSavedCrop, CropRestart
  <2>7. QED
    BY <2>1, <2>3, <2>4, <2>5, <2>6 DEF CropNext
<1>2. QED
  BY <1>1, CropInvariant, PTL DEF CropSpec, OneFrameTurnsNothing

\* The tracked picture, the crops and the loop's variables keep to their types.
THEOREM CropIsTyped == CropSpec => []CropTypeOK
<1>1. CropIInv => CropTypeOK
  <2>1. CropFlags => {usingSaved, detected} \subseteq BOOLEAN
    BY DEF CropFlags
  <2>2. CropTyped => /\ {contentRect, before, activeCrop, pendingCrop} \subseteq Rects \cup {NoRect}
                     /\ {turnedTo, orientPending} \subseteq Turns
    BY DEF CropTyped
  <2>3. QED
    BY <2>1, <2>2 DEF CropIInv, CropTyped, CropTypeOK
<1>2. QED
  BY <1>1, CropInvariant, PTL
=============================================================================
