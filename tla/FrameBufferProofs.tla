-------------------------- MODULE FrameBufferProofs --------------------------
(* Proofs about FrameBuffer, for every set of buffers and of callers, any   *)
(* number of captures and of pictures.                                      *)
EXTENDS FrameBuffer, FiniteSetTheorems, TLAPS

(***************************************************************************)
(* The inductive invariant.  What lets go of a picture is a count of pins  *)
(* and a flag; what may not be let go of is said of the callers and of the *)
(* latest picture.  The invariant is what keeps the two in step.           *)
(***************************************************************************)

\* The callers that encode picture n; its pins count them.
Pinners(n) == {e \in Callers : Encoding(e) /\ job[e].pic = n}
PinsCounted == \A n \in 1..rawSeq : pic[n].pins = Cardinality(Pinners(n))

\* The latest picture is the last one taken, until it is cleared.
LatestTaken == raw \in {NoPicture, rawSeq}

\* A picture is stale once it is not the latest, and its memory is given back
\* when it is stale and free, or has been copied.
Released ==
    \A n \in 1..rawSeq :
        /\ pic[n].stale <=> n # raw
        /\ pic[n].given <=> \/ pic[n].pixels = "copy"
                            \/ pic[n].stale /\ Free(n)

\* Whoever works on a picture works on one that has been taken.
WorkTaken ==
    /\ \A e \in Callers : Encoding(e) => job[e].pic \in 1..rawSeq
    /\ \A c \in Captures : loop[c].at \in {"use", "drain"} => loop[c].pic \in 1..rawSeq

\* Captures start in order; a loop has its reader open until it is gone.
CapturesInOrder ==
    /\ mapped \subseteq 1..mgr.cap
    /\ \A n \in 1..rawSeq : pic[n].from \in 1..mgr.cap
    /\ \A c \in Captures : /\ loop[c].at = "off" <=> c > mgr.cap
                           /\ loop[c].at \notin {"off", "gone"} => c \in mapped

\* Picture n has buffer b of capture c, and has not given it back.
Keeps(n, c, b) == pic[n].from = c /\ pic[n].buf = b /\ ~pic[n].given
BufferKept(c, b) ==
    /\ b \in queued[c] => \A n \in 1..rawSeq : ~Keeps(n, c, b)
    /\ b \notin queued[c] => \E n \in 1..rawSeq : Keeps(n, c, b)
    /\ \A m, n \in 1..rawSeq : Keeps(m, c, b) /\ Keeps(n, c, b) => m = n
BuffersKept == \A c \in mapped, b \in Buffers : BufferKept(c, b)

\* As long as the manager has waited for every loop, one loop runs at a time
\* and the picture it uses is the latest, ...
OneLoop ==
    ~overlapped =>
        \A c \in Captures :
            /\ loop[c].at \notin {"off", "gone"} => c = mgr.cap /\ mgr.at \in {"run", "wait"}
            /\ loop[c].at = "use" => loop[c].pic = raw

\* ... and so every JPEG kept is of the picture it claims to be of, and the
\* pictures being encoded are no older than the latest when they were asked for.
JPEGsHonest ==
    ~overlapped => \A k \in Kinds : jpeg[k].of # NoPicture => jpeg[k].seq = jpeg[k].of
FloorsKept ==
    \A e \in Callers :
        /\ job[e].floor <= rawSeq
        /\ job[e].at \in {"look", "encode"} => job[e].floor <= job[e].pic /\ job[e].kind \in Kinds
        /\ job[e].at = "lock" => job[e].kind \in Kinds

IInv ==
    /\ TypeOK /\ PinsCounted /\ LatestTaken /\ Released /\ WorkTaken
    /\ CapturesInOrder /\ BuffersKept /\ OneLoop /\ JPEGsHonest /\ FloorsKept
    /\ LatestIsFresh

(***************************************************************************)
(* Typing.                                                                 *)
(***************************************************************************)

\* A picture that has not been taken yet is no picture.
LEMMA NoFrameIsNoPicture == NoFrame \notin Picture
<1>1. ASSUME NoFrame \in Picture PROVE FALSE
  <2>1. DOMAIN NoFrame = {"from", "buf", "pixels", "given", "pins", "stale"}
    BY <1>1 DEF Picture
  <2>2. DOMAIN NoFrame = {"given"}
    BY DEF NoFrame
  <2>3. QED
    BY <2>1, <2>2
<1>2. QED
  BY <1>1

\* What ConstantsAssumption says of the numbers.
LEMMA ConstantTypes ==
    /\ MaxPictures \in Nat /\ MaxCaptures \in Nat /\ MaxErrors \in Nat /\ MaxErrors >= 1
    /\ Cardinality(Callers) \in Nat
  BY ConstantsAssumption, FS_CardinalityType

\* The pictures taken are pictures, and only they are.
LEMMA TakenType ==
    ASSUME TypeOK
    PROVE  /\ rawSeq \in Nat /\ rawSeq <= MaxPictures
           /\ \A n \in 1..rawSeq : n \in Pictures /\ pic[n] \in Picture
           /\ \A n \in Pictures : n \notin 1..rawSeq => pic[n] = NoFrame
  BY ConstantTypes, NoFrameIsNoPicture DEF TypeOK, Pictures

\* What is said of the pictures for TypeOK, when a step may change them.
LEMMA PicturesTyped ==
    ASSUME TypeOK, rawSeq' \in 0..MaxPictures, pic' \in [Pictures -> Picture \cup {NoFrame}],
           \A n \in 1..rawSeq' : pic'[n] \in Picture,
           \A n \in Pictures : n > rawSeq' => pic'[n] = NoFrame
    PROVE  \A n \in Pictures : pic'[n] # NoFrame <=> n <= rawSeq'
  BY ConstantTypes, NoFrameIsNoPicture DEF Pictures

\* A change of the flags and the pins of picture n leaves it a picture, in the
\* same buffer; nothing else changes.
LEMMA PictureChanged ==
    ASSUME TypeOK, NEW n \in 1..rawSeq, NEW p, p \in Picture,
           pic' = [pic EXCEPT ![n] = p], rawSeq' = rawSeq
    PROVE  /\ pic' \in [Pictures -> Picture \cup {NoFrame}]
           /\ \A m \in Pictures : pic'[m] # NoFrame <=> m <= rawSeq'
           /\ pic'[n] = p
           /\ \A m \in 1..rawSeq : m # n => pic'[m] = pic[m]
<1>1. /\ n \in Pictures /\ pic \in [Pictures -> Picture \cup {NoFrame}]
      /\ \A m \in Pictures : pic[m] # NoFrame <=> m <= rawSeq
      /\ 1..rawSeq \subseteq Pictures /\ rawSeq \in Nat
  BY TakenType DEF TypeOK
<1>2. QED
  BY <1>1, NoFrameIsNoPicture

(***************************************************************************)
(* Pins are counted.                                                       *)
(***************************************************************************)

\* A picture has no more pinners than there are callers.
LEMMA PinnersFinite ==
    ASSUME NEW n
    PROVE  /\ IsFiniteSet(Pinners(n)) /\ Cardinality(Pinners(n)) \in Nat
           /\ Cardinality(Pinners(n)) <= Cardinality(Callers)
<1>1. Pinners(n) \in SUBSET Callers
  BY DEF Pinners
<1>2. QED
  BY <1>1, ConstantsAssumption, FS_Subset, FS_CardinalityType

\* A picture somebody encodes has a pin, and a picture with a pin is being
\* encoded by somebody.
LEMMA PinnedIsEncoded ==
    ASSUME PinsCounted, NEW n \in 1..rawSeq
    PROVE  pic[n].pins > 0 <=> \E e \in Callers : Encoding(e) /\ job[e].pic = n
<1>1. Cardinality(Pinners(n)) = 0 <=> Pinners(n) = {}
  BY PinnersFinite, FS_EmptySet
<1>2. pic[n].pins = Cardinality(Pinners(n)) /\ Cardinality(Pinners(n)) \in Nat
  BY PinnersFinite DEF PinsCounted
<1>3. QED
  BY <1>1, <1>2 DEF Pinners

\* Caller e starts on picture n, or is done with it, and nobody else does
\* anything.
LEMMA PinnersChanged ==
    ASSUME NEW e \in Callers, NEW n, TypeOK,
           \A d \in Callers \ {e} : job'[d] = job[d]
    PROVE  /\ ~Encoding(e) /\ Encoding(e)' /\ job'[e].pic = n
                => /\ Cardinality(Pinners(n))' = Cardinality(Pinners(n)) + 1
                   /\ \A m : m # n => Pinners(m)' = Pinners(m)
           /\ Encoding(e) /\ job[e].pic = n /\ ~Encoding(e)'
                => /\ Cardinality(Pinners(n))' = Cardinality(Pinners(n)) - 1
                   /\ \A m : m # n => Pinners(m)' = Pinners(m)
           /\ ~Encoding(e) /\ ~Encoding(e)' => \A m : Pinners(m)' = Pinners(m)
           /\ Encoding(e) /\ Encoding(e)' /\ job'[e].pic = job[e].pic
                => \A m : Pinners(m)' = Pinners(m)
<1>1. \A d \in Callers \ {e} : Encoding(d)' <=> Encoding(d)
  BY DEF Encoding
<1>2. ASSUME ~Encoding(e), Encoding(e)', job'[e].pic = n
      PROVE  /\ Pinners(n)' = Pinners(n) \cup {e} /\ e \notin Pinners(n)
             /\ \A m : m # n => Pinners(m)' = Pinners(m)
  BY <1>1, <1>2 DEF Pinners
<1>3. ASSUME Encoding(e), job[e].pic = n, ~Encoding(e)'
      PROVE  /\ Pinners(n)' = Pinners(n) \ {e} /\ e \in Pinners(n)
             /\ \A m : m # n => Pinners(m)' = Pinners(m)
  BY <1>1, <1>3 DEF Pinners
<1>4. ~Encoding(e) /\ ~Encoding(e)' => \A m : Pinners(m)' = Pinners(m)
  BY <1>1 DEF Pinners
<1>5. Encoding(e) /\ Encoding(e)' /\ job'[e].pic = job[e].pic
        => \A m : Pinners(m)' = Pinners(m)
  BY <1>1 DEF Pinners
<1>6. /\ Cardinality(Pinners(n) \cup {e}) = IF e \in Pinners(n) THEN Cardinality(Pinners(n))
                                            ELSE Cardinality(Pinners(n)) + 1
      /\ Cardinality(Pinners(n) \ {e}) = IF e \in Pinners(n) THEN Cardinality(Pinners(n)) - 1
                                         ELSE Cardinality(Pinners(n))
  BY PinnersFinite, FS_AddElement, FS_RemoveElement
<1>7. QED
  BY <1>2, <1>3, <1>4, <1>5, <1>6

\* Nobody starts or ends as long as no job changes.
LEMMA PinnersSame ==
    ASSUME UNCHANGED job
    PROVE  \A n : Pinners(n)' = Pinners(n) /\ Cardinality(Pinners(n))' = Cardinality(Pinners(n))
  BY DEF Pinners, Encoding

(***************************************************************************)
(* Letting go of a picture.                                                *)
(***************************************************************************)

\* What the steps below leave of the part of the invariant that is about the
\* pictures taken and the buffers they are in.
PicturesKept ==
    /\ raw \in 0..MaxPictures /\ pic \in [Pictures -> Picture \cup {NoFrame}]
    /\ \A n \in Pictures : pic[n] # NoFrame <=> n <= rawSeq
    /\ queued \in [Captures -> SUBSET Buffers]
    /\ PinsCounted /\ LatestTaken /\ Released /\ BuffersKept

\* Picture n is changed, and its buffer goes back to the driver just when it
\* is given back: every other picture keeps what it had.
LEMMA GivenBackOnce ==
    ASSUME IInv, NEW n \in 1..rawSeq, NEW p \in Picture, NEW cond,
           pic' = [pic EXCEPT ![n] = p], p.from = pic[n].from, p.buf = pic[n].buf,
           cond \in BOOLEAN, cond <=> p.given /\ ~pic[n].given, pic[n].given => p.given,
           Give(n, cond), UNCHANGED <<rawSeq, mapped>>
    PROVE  /\ queued' \in [Captures -> SUBSET Buffers]
           /\ BuffersKept'
           /\ pic' \in [Pictures -> Picture \cup {NoFrame}]
           /\ \A m \in Pictures : pic'[m] # NoFrame <=> m <= rawSeq'
           /\ \A m \in 1..rawSeq : pic'[m].from = pic[m].from
           /\ pic'[n] = p /\ \A m \in 1..rawSeq : m # n => pic'[m] = pic[m]
<1>1. /\ pic[n] \in Picture /\ queued \in [Captures -> SUBSET Buffers]
      /\ mapped \subseteq Captures
  BY TakenType DEF IInv, TypeOK
<1>2. pic[n].from \in Captures /\ pic[n].buf \in Buffers
  BY <1>1 DEF Picture
<1>3. queued' \in [Captures -> SUBSET Buffers]
  BY <1>1, <1>2 DEF Give
<1>4. /\ pic' \in [Pictures -> Picture \cup {NoFrame}]
      /\ \A m \in Pictures : pic'[m] # NoFrame <=> m <= rawSeq'
      /\ pic'[n] = p
      /\ \A m \in 1..rawSeq : m # n => pic'[m] = pic[m]
  BY PictureChanged DEF IInv
<1>5. ASSUME NEW c \in mapped, NEW b \in Buffers
      PROVE  BufferKept(c, b)'
  <2>1. BufferKept(c, b) /\ c \in Captures
    BY <1>1, <1>5 DEF IInv, BuffersKept
  <2>2. \A m \in 1..rawSeq : m # n => (Keeps(m, c, b)' <=> Keeps(m, c, b))
    BY <1>4 DEF Keeps
  <2>3. CASE ~cond
    <3>1. queued' = queued /\ (p.given <=> pic[n].given)
      BY <2>3, <1>1 DEF Give, Picture
    <3>2. \A m \in 1..rawSeq : Keeps(m, c, b)' <=> Keeps(m, c, b)
      BY <2>2, <3>1, <1>4 DEF Keeps
    <3>3. QED
      BY <2>1, <3>1, <3>2 DEF BufferKept
  <2>4. CASE cond /\ pic[n].from = c /\ pic[n].buf = b
    <3>1. Keeps(n, c, b) /\ ~Keeps(n, c, b)' /\ b \in queued'[c]
      BY <2>4, <2>1, <1>1, <1>4, <1>5 DEF Keeps, Give
    <3>2. QED
      BY <2>1, <2>2, <3>1 DEF BufferKept
  <2>5. CASE cond /\ ~(pic[n].from = c /\ pic[n].buf = b)
    <3>1. ~Keeps(n, c, b) /\ ~Keeps(n, c, b)' /\ (b \in queued'[c] <=> b \in queued[c])
      BY <2>5, <2>1, <1>1, <1>2, <1>4 DEF Keeps, Give
    <3>2. QED
      BY <2>1, <2>2, <3>1 DEF BufferKept
  <2>6. QED
    BY <2>3, <2>4, <2>5
<1>6. QED
  BY <1>3, <1>4, <1>5 DEF BuffersKept

\* unpin by the caller that has encoded.
LEMMA UnpinKeeps ==
    ASSUME IInv, NEW e \in Callers, Encoding(e), Unpin(job[e].pic),
           job' = [job EXCEPT ![e] = IdleJob], UNCHANGED <<raw, rawSeq, mapped>>
    PROVE  PicturesKept' /\ \A m \in 1..rawSeq : pic'[m].from = pic[m].from
<1>1. PICK n : n = job[e].pic
  OBVIOUS
<1> DEFINE done == pic[n].stale /\ pic[n].pins = 1
<1>2. n \in 1..rawSeq /\ n \in Pictures /\ pic[n] \in Picture
      /\ pic \in [Pictures -> Picture \cup {NoFrame}] /\ job \in [Callers -> Job]
  BY <1>1, TakenType DEF IInv, WorkTaken, TypeOK
<1>3. pic[n].pins \in Nat /\ pic[n].pins >= 1 /\ pic[n].pins <= Cardinality(Callers)
      /\ pic[n].given \in BOOLEAN /\ pic[n].stale \in BOOLEAN
  BY <1>1, <1>2, PinnedIsEncoded, ConstantTypes DEF IInv, Picture
<1>4. PICK given \in BOOLEAN : given = (pic[n].given \/ done)
  OBVIOUS
<1> DEFINE p == [pic[n] EXCEPT !.pins = pic[n].pins - 1, !.given = given]
<1>5. p \in Picture /\ p.from = pic[n].from /\ p.buf = pic[n].buf
      /\ p.pins = pic[n].pins - 1 /\ p.stale = pic[n].stale /\ p.pixels = pic[n].pixels
      /\ p.given = given
  <2>1. pic[n].pins - 1 \in 0..Cardinality(Callers)
    BY <1>3, ConstantTypes
  <2>2. QED
    BY <1>2, <1>4, <2>1 DEF Picture
<1>6. pic' = [pic EXCEPT ![n] = p]
  BY <1>1, <1>2, <1>4 DEF Unpin
<1>7. Give(n, done /\ ~pic[n].given)
  BY <1>1 DEF Unpin
<1> HIDE DEF p
<1>8. /\ queued' \in [Captures -> SUBSET Buffers] /\ BuffersKept'
      /\ pic' \in [Pictures -> Picture \cup {NoFrame}]
      /\ \A m \in Pictures : pic'[m] # NoFrame <=> m <= rawSeq'
      /\ \A m \in 1..rawSeq : pic'[m].from = pic[m].from
      /\ pic'[n] = p /\ \A m \in 1..rawSeq : m # n => pic'[m] = pic[m]
  BY <1>2, <1>3, <1>4, <1>5, <1>6, <1>7, GivenBackOnce
<1>9. /\ Cardinality(Pinners(n))' = Cardinality(Pinners(n)) - 1
      /\ \A m : m # n => Pinners(m)' = Pinners(m)
  <2>1. ~Encoding(e)' /\ \A d \in Callers \ {e} : job'[d] = job[d]
    BY <1>2 DEF Encoding, IdleJob
  <2>2. QED
    BY <1>1, <2>1, PinnersChanged DEF IInv
<1>10. PinsCounted'
  BY <1>2, <1>5, <1>8, <1>9 DEF IInv, PinsCounted
<1>11. Released'
  BY <1>2, <1>3, <1>4, <1>5, <1>8 DEF IInv, Released, Free
<1>12. QED
  BY <1>8, <1>10, <1>11 DEF PicturesKept, IInv, TypeOK, LatestTaken

\* A caller pins the latest picture.
LEMMA PinKeeps ==
    ASSUME IInv, NEW e \in Callers, NEW step \in {"look", "encodeAt"}, ~Encoding(e),
           raw # NoPicture, Pin(e, step), UNCHANGED <<raw, rawSeq, queued, mapped>>
    PROVE  /\ PicturesKept' /\ raw \in 1..rawSeq
           /\ \A m \in 1..rawSeq : pic'[m].from = pic[m].from
<1> DEFINE p == [pic[raw] EXCEPT !.pins = @ + 1]
<1>1. raw \in 1..rawSeq /\ raw \in Pictures /\ pic[raw] \in Picture
      /\ pic \in [Pictures -> Picture \cup {NoFrame}] /\ job \in [Callers -> Job]
  BY TakenType DEF IInv, LatestTaken, TypeOK, NoPicture
<1>2. /\ Encoding(e)' /\ job'[e].pic = raw
      /\ \A d \in Callers \ {e} : job'[d] = job[d]
  BY <1>1 DEF Pin, Encoding, Job
<1>3. /\ Cardinality(Pinners(raw))' = Cardinality(Pinners(raw)) + 1
      /\ \A m : m # raw => Pinners(m)' = Pinners(m)
  BY <1>2, PinnersChanged DEF IInv
<1>4. Cardinality(Pinners(raw))' <= Cardinality(Callers)
  <2>1. Pinners(raw)' \in SUBSET Callers
    BY DEF Pinners
  <2>2. QED
    BY <2>1, ConstantsAssumption, FS_Subset
<1>5. pic[raw].pins = Cardinality(Pinners(raw)) /\ pic[raw].pins \in Nat
  BY <1>1, PinnersFinite DEF IInv, PinsCounted
<1>6. p \in Picture /\ p.from = pic[raw].from /\ p.buf = pic[raw].buf
      /\ p.pins = pic[raw].pins + 1 /\ p.stale = pic[raw].stale
      /\ p.pixels = pic[raw].pixels /\ p.given = pic[raw].given
  BY <1>1, <1>3, <1>4, <1>5, ConstantTypes DEF Picture
<1>7. pic' = [pic EXCEPT ![raw] = p]
  BY <1>1 DEF Pin
<1>8. Give(raw, FALSE)
  BY DEF Give
<1> HIDE DEF p
<1>9. /\ queued' \in [Captures -> SUBSET Buffers] /\ BuffersKept'
      /\ pic' \in [Pictures -> Picture \cup {NoFrame}]
      /\ \A m \in Pictures : pic'[m] # NoFrame <=> m <= rawSeq'
      /\ \A m \in 1..rawSeq : pic'[m].from = pic[m].from
      /\ pic'[raw] = p /\ \A m \in 1..rawSeq : m # raw => pic'[m] = pic[m]
  BY <1>1, <1>6, <1>7, <1>8, GivenBackOnce
<1>10. PinsCounted'
  BY <1>1, <1>3, <1>5, <1>6, <1>9 DEF IInv, PinsCounted
<1>11. Released'
  BY <1>1, <1>6, <1>9 DEF IInv, Released, Free
<1>12. QED
  BY <1>1, <1>9, <1>10, <1>11 DEF PicturesKept, IInv, TypeOK, LatestTaken

\* Clear lets go of the latest picture, if there is one.
LEMMA ClearKeeps ==
    ASSUME IInv, Clear, UNCHANGED <<rawSeq, job, mapped>>
    PROVE  /\ PicturesKept' /\ raw' = NoPicture
           /\ \A m \in 1..rawSeq : pic'[m].from = pic[m].from
<1>1. CASE raw = NoPicture
  <2>1. UNCHANGED <<raw, pic, queued>>
    BY <1>1 DEF Clear
  <2>2. QED
    BY <2>1, <1>1, PinnersSame DEF PicturesKept, IInv, TypeOK, PinsCounted, LatestTaken,
       Released, Free, BuffersKept, BufferKept, Keeps
<1>2. CASE raw # NoPicture
  <2>1. PICK n : n = raw
    OBVIOUS
  <2>2. n \in 1..rawSeq /\ n \in Pictures /\ pic[n] \in Picture
        /\ pic \in [Pictures -> Picture \cup {NoFrame}]
    BY <1>2, <2>1, TakenType DEF IInv, LatestTaken, TypeOK, NoPicture
  <2>3. PICK given \in BOOLEAN : given = (pic[n].given \/ Free(n))
    BY DEF Free
  <2> DEFINE p == [pic[n] EXCEPT !.stale = TRUE, !.given = given]
  <2>4. p \in Picture /\ p.from = pic[n].from /\ p.buf = pic[n].buf
        /\ p.pins = pic[n].pins /\ p.stale = TRUE /\ p.pixels = pic[n].pixels
        /\ p.given = given
    BY <2>2, <2>3 DEF Picture
  <2>5. pic' = [pic EXCEPT ![n] = p] /\ raw' = NoPicture
        /\ Give(n, Free(n) /\ ~pic[n].given)
    BY <1>2, <2>1, <2>2, <2>3 DEF Clear, GoStale
  <2>6. pic[n].given \in BOOLEAN /\ Free(n) \in BOOLEAN
    BY <2>2 DEF Picture, Free
  <2> HIDE DEF p
  <2>7. /\ queued' \in [Captures -> SUBSET Buffers] /\ BuffersKept'
        /\ pic' \in [Pictures -> Picture \cup {NoFrame}]
        /\ \A m \in Pictures : pic'[m] # NoFrame <=> m <= rawSeq'
        /\ \A m \in 1..rawSeq : pic'[m].from = pic[m].from
        /\ pic'[n] = p /\ \A m \in 1..rawSeq : m # n => pic'[m] = pic[m]
    BY <2>2, <2>3, <2>4, <2>5, <2>6, GivenBackOnce
  <2>8. \A m : Cardinality(Pinners(m))' = Cardinality(Pinners(m))
    BY PinnersSame
  <2>9. PinsCounted'
    <3>1. \A m \in 1..rawSeq : pic'[m].pins = Cardinality(Pinners(m))
      BY <2>2, <2>4, <2>7 DEF IInv, PinsCounted
    <3>2. rawSeq' = rawSeq
      OBVIOUS
    <3>3. QED
      BY <2>8, <3>1, <3>2 DEF PinsCounted
  <2>10. Released'
    <3>1. ASSUME NEW m \in 1..rawSeq
          PROVE  /\ pic'[m].stale
                 /\ pic'[m].given <=> \/ pic'[m].pixels = "copy"
                                      \/ pic'[m].stale /\ pic'[m].pins = 0
      <4>1. CASE m = n
        BY <2>1, <2>2, <2>3, <2>4, <2>7, <3>1, <4>1 DEF IInv, Released, Free
      <4>2. CASE m # n
        BY <2>1, <2>7, <3>1, <4>2 DEF IInv, Released, Free
      <4>3. QED
        BY <4>1, <4>2
    <3>2. rawSeq' = rawSeq /\ raw' \notin 1..rawSeq
      BY <2>5 DEF NoPicture
    <3>3. QED
      BY <3>1, <3>2 DEF Released, Free
  <2>11. QED
    BY <2>5, <2>7, <2>9, <2>10, ConstantTypes DEF PicturesKept, LatestTaken, NoPicture
<1>3. QED
  BY <1>1, <1>2

\* Detach copies the latest picture once nobody encodes it.
LEMMA CopyKeeps ==
    ASSUME IInv, NEW n \in 1..rawSeq, n = raw, Free(n),
           pic' = [pic EXCEPT ![n].pixels = "copy", ![n].given = TRUE],
           Give(n, ~pic[n].given), UNCHANGED <<raw, rawSeq, job, mapped>>
    PROVE  PicturesKept' /\ \A m \in 1..rawSeq : pic'[m].from = pic[m].from
<1> DEFINE p == [pic[n] EXCEPT !.pixels = "copy", !.given = TRUE]
<1>1. n \in Pictures /\ pic[n] \in Picture
      /\ pic \in [Pictures -> Picture \cup {NoFrame}]
  BY TakenType DEF IInv, TypeOK
<1>2. p \in Picture /\ p.from = pic[n].from /\ p.buf = pic[n].buf
      /\ p.pins = pic[n].pins /\ p.stale = pic[n].stale /\ p.pixels = "copy"
      /\ p.given = TRUE
  BY <1>1 DEF Picture
<1>3. pic' = [pic EXCEPT ![n] = p] /\ pic[n].given \in BOOLEAN
  BY <1>1 DEF Picture
<1> HIDE DEF p
<1>4. /\ queued' \in [Captures -> SUBSET Buffers] /\ BuffersKept'
      /\ pic' \in [Pictures -> Picture \cup {NoFrame}]
      /\ \A m \in Pictures : pic'[m] # NoFrame <=> m <= rawSeq'
      /\ \A m \in 1..rawSeq : pic'[m].from = pic[m].from
      /\ pic'[n] = p /\ \A m \in 1..rawSeq : m # n => pic'[m] = pic[m]
  BY <1>2, <1>3, GivenBackOnce
<1>5. \A m : Cardinality(Pinners(m))' = Cardinality(Pinners(m))
  <2>1. UNCHANGED job
    OBVIOUS
  <2>2. QED
    BY <2>1, PinnersSame
<1>6. PinsCounted'
  <2>1. \A m \in 1..rawSeq : pic'[m].pins = Cardinality(Pinners(m))
    BY <1>2, <1>4 DEF IInv, PinsCounted
  <2>2. rawSeq' = rawSeq
    OBVIOUS
  <2>3. QED
    BY <1>5, <2>1, <2>2 DEF PinsCounted
<1>7. Released'
  <2>1. ASSUME NEW m \in 1..rawSeq
        PROVE  /\ pic'[m].stale <=> m # raw
               /\ pic'[m].given <=> \/ pic'[m].pixels = "copy"
                                    \/ pic'[m].stale /\ pic'[m].pins = 0
    <3>1. CASE m = n
      BY <1>2, <1>4, <2>1, <3>1 DEF IInv, Released
    <3>2. CASE m # n
      <4>1. pic'[m] = pic[m]
        BY <1>4, <2>1, <3>2
      <4>2. /\ pic[m].stale <=> m # raw
            /\ pic[m].given <=> \/ pic[m].pixels = "copy"
                                \/ pic[m].stale /\ pic[m].pins = 0
        BY <2>1 DEF IInv, Released, Free
      <4>3. QED
        BY <4>1, <4>2
    <3>3. QED
      BY <3>1, <3>2
  <2>2. rawSeq' = rawSeq /\ raw' = raw
    OBVIOUS
  <2>3. QED
    BY <2>1, <2>2 DEF Released, Free
<1>8. QED
  BY <1>4, <1>6, <1>7 DEF PicturesKept, IInv, TypeOK, LatestTaken

\* A picture is taken in a buffer the driver had, and the one before it is let
\* go of.
LEMMA UpdateRawKeeps ==
    ASSUME IInv, NEW c \in Captures, UpdateRaw(c)
    PROVE  /\ PicturesKept' /\ rawSeq' = rawSeq + 1 /\ raw' = rawSeq'
           /\ \A m \in 1..rawSeq : pic'[m].from = pic[m].from
           /\ rawSeq' \in Pictures /\ pic'[rawSeq'].from = c
           /\ loop' = [loop EXCEPT ![c] = [at |-> "use", pic |-> rawSeq', errs |-> 0]]
<1>2. PICK b \in queued[c], pixels \in {"driver", "blank"} :
        LET new == [from |-> c, buf |-> b, pixels |-> pixels, given |-> FALSE,
                    pins |-> 0, stale |-> FALSE]
            prev == IF raw = NoPicture THEN pic ELSE GoStale(raw)
            taken == [queued EXCEPT ![c] = @ \ {b}]
            back == /\ raw # NoPicture /\ pic[raw].from \in mapped
                    /\ Free(raw) /\ ~pic[raw].given
        IN  /\ pic' = [prev EXCEPT ![rawSeq + 1] = new]
            /\ queued' = IF back THEN [taken EXCEPT ![pic[raw].from] = @ \cup {pic[raw].buf}]
                                 ELSE taken
  BY DEF UpdateRaw
<1> DEFINE new == [from |-> c, buf |-> b, pixels |-> pixels, given |-> FALSE,
                   pins |-> 0, stale |-> FALSE]
           prev == IF raw = NoPicture THEN pic ELSE GoStale(raw)
           back == /\ raw # NoPicture /\ pic[raw].from \in mapped
                   /\ Free(raw) /\ ~pic[raw].given
<1>1. PICK next : next = rawSeq + 1
  OBVIOUS
<1>3. /\ rawSeq' = next /\ next = rawSeq + 1 /\ raw' = rawSeq' /\ rawSeq < MaxPictures
      /\ loop' = [loop EXCEPT ![c] = [at |-> "use", pic |-> rawSeq', errs |-> 0]]
      /\ UNCHANGED <<job, mapped>>
  BY <1>1 DEF UpdateRaw
<1>4. /\ c \in mapped /\ b \in Buffers /\ b \in queued[c]
      /\ queued \in [Captures -> SUBSET Buffers] /\ mapped \subseteq Captures
      /\ pic \in [Pictures -> Picture \cup {NoFrame}] /\ raw \in 0..MaxPictures
  BY <1>2 DEF IInv, TypeOK, CapturesInOrder, UpdateRaw
<1>5. /\ rawSeq \in Nat /\ rawSeq' \in Pictures /\ rawSeq' \notin 1..rawSeq
      /\ 1..rawSeq \subseteq Pictures /\ 1..rawSeq' = 1..rawSeq \cup {rawSeq'}
      /\ \A m \in 1..rawSeq : pic[m] \in Picture
  BY <1>3, TakenType, ConstantTypes DEF IInv, Pictures
<1>6. raw # NoPicture => raw \in 1..rawSeq /\ raw # rawSeq'
  BY <1>3, <1>5 DEF IInv, LatestTaken, NoPicture
<1>7. new \in Picture
  BY <1>2, <1>4, ConstantTypes DEF Picture
<1>8. ASSUME NEW m \in 1..rawSeq
      PROVE  /\ pic'[m] \in Picture /\ pic'[m].from = pic[m].from /\ pic'[m].buf = pic[m].buf
             /\ pic'[m].pins = pic[m].pins /\ pic'[m].pixels = pic[m].pixels
             /\ m # raw => pic'[m] = pic[m]
             /\ m = raw => pic'[m].stale /\ (pic'[m].given <=> pic[m].given \/ Free(m))
  <2>1. CASE m # raw
    BY <1>2, <1>3, <1>4, <1>5, <1>6, <1>8, <2>1 DEF GoStale
  <2>2. CASE m = raw
    <3>1. raw # NoPicture /\ pic[m] \in Picture /\ m \in Pictures
      BY <1>5, <1>8, <2>2 DEF NoPicture
    <3>2. PICK given \in BOOLEAN : given = (pic[m].given \/ Free(m))
      BY DEF Free
    <3> DEFINE p == [pic[m] EXCEPT !.stale = TRUE, !.given = given]
    <3>3. p \in Picture /\ p.from = pic[m].from /\ p.buf = pic[m].buf
          /\ p.pins = pic[m].pins /\ p.stale = TRUE /\ p.pixels = pic[m].pixels
          /\ p.given = given
      BY <3>1, <3>2 DEF Picture
    <3>4. GoStale(m) = [pic EXCEPT ![m] = p]
      BY <1>4, <3>1, <3>2 DEF GoStale
    <3> HIDE DEF p
    <3>5. pic'[m] = p
      BY <1>2, <1>3, <1>4, <1>5, <1>6, <2>2, <3>1, <3>4
    <3>6. QED
      BY <2>2, <3>2, <3>3, <3>5
  <2>3. QED
    BY <2>1, <2>2
<1>9. /\ pic'[rawSeq'] = new /\ DOMAIN pic' = Pictures
      /\ \A m \in Pictures : m \notin 1..rawSeq' => pic'[m] = pic[m]
      /\ pic' = [m \in Pictures |-> pic'[m]]
  BY <1>2, <1>3, <1>4, <1>5, <1>6 DEF GoStale
<1>10. /\ pic' \in [Pictures -> Picture \cup {NoFrame}]
      /\ \A m \in Pictures : pic'[m] # NoFrame <=> m <= rawSeq'
  <2>1. \A m \in Pictures : m \notin 1..rawSeq' => pic'[m] = NoFrame
    BY <1>5, <1>9, TakenType DEF IInv
  <2>2. \A m \in 1..rawSeq' : pic'[m] \in Picture
    BY <1>5, <1>7, <1>8, <1>9
  <2>3. pic' \in [Pictures -> Picture \cup {NoFrame}]
    BY <1>9, <2>1, <2>2
  <2>4. ASSUME NEW m \in Pictures
        PROVE  pic'[m] # NoFrame <=> m <= rawSeq'
    <3>1. m \in 1..rawSeq' <=> m <= rawSeq'
      BY <1>3, <1>5, ConstantTypes DEF Pictures
    <3>2. QED
      BY <2>1, <2>2, <3>1, NoFrameIsNoPicture
  <2>5. QED
    BY <2>3, <2>4
<1>11. /\ queued' \in [Captures -> SUBSET Buffers]
       /\ \A d \in Captures, x \in Buffers :
            x \in queued'[d] <=> \/ x \in queued[d] /\ ~(d = c /\ x = b)
                                 \/ back /\ d = pic[raw].from /\ x = pic[raw].buf
  <2>1. back => pic[raw].from \in Captures /\ pic[raw].buf \in Buffers
    BY <1>5, <1>6 DEF Picture
  <2>2. queued' = IF back THEN [[queued EXCEPT ![c] = @ \ {b}] EXCEPT
                                    ![pic[raw].from] = @ \cup {pic[raw].buf}]
                          ELSE [queued EXCEPT ![c] = @ \ {b}]
    BY <1>2
  <2> HIDE DEF back
  <2>3. QED
    BY <1>4, <2>1, <2>2
<1>12. ASSUME NEW d \in mapped, NEW x \in Buffers
       PROVE  BufferKept(d, x)'
  <2>1. BufferKept(d, x) /\ BufferKept(c, b) /\ d \in Captures
    BY <1>4, <1>12 DEF IInv, BuffersKept
  <2>2. ASSUME NEW m \in 1..rawSeq
        PROVE  Keeps(m, d, x)' <=> Keeps(m, d, x) /\ ~(m = raw /\ back)
    <3>1. CASE m # raw
      BY <1>8, <2>2, <3>1 DEF Keeps
    <3>2. CASE m = raw
      <4>1. raw # NoPicture
        BY <1>5, <2>2, <3>2 DEF NoPicture
      <4>2. QED
        BY <1>8, <1>12, <2>2, <3>2, <4>1 DEF Keeps
    <3>3. QED
      BY <3>1, <3>2
  <2>3. Keeps(next, d, x)' <=> d = c /\ x = b
    BY <1>3, <1>9 DEF Keeps
  <2>4. back /\ d = pic[raw].from /\ x = pic[raw].buf => raw \in 1..rawSeq /\ Keeps(raw, d, x)
    BY <1>6 DEF Keeps
  <2>5. x \in queued'[d] <=> \/ x \in queued[d] /\ ~(d = c /\ x = b)
                             \/ back /\ d = pic[raw].from /\ x = pic[raw].buf
    BY <1>11, <2>1
  <2>6. back /\ ~(d = pic[raw].from /\ x = pic[raw].buf) => ~Keeps(raw, d, x)
    BY DEF Keeps
  <2> HIDE DEF back
  <2>7. 1..rawSeq' = 1..rawSeq \cup {next} /\ next \notin 1..rawSeq
    BY <1>3, <1>5
  <2>8. CASE d = c /\ x = b
    <3>1. x \notin queued'[d]
      BY <1>4, <2>1, <2>4, <2>5, <2>8 DEF BufferKept
    <3>2. \A m \in 1..rawSeq : ~Keeps(m, d, x)'
      BY <1>4, <2>1, <2>2, <2>8 DEF BufferKept
    <3>3. \A m \in 1..rawSeq' : Keeps(m, d, x)' <=> m = next
      BY <2>3, <2>8, <2>7, <3>2
    <3>4. next \in 1..rawSeq'
      BY <2>7
    <3>5. QED
      BY <3>1, <3>3, <3>4 DEF BufferKept
  <2>9. CASE ~(d = c /\ x = b)
    <3>1. \A m \in 1..rawSeq' : Keeps(m, d, x)'
                 <=> m \in 1..rawSeq /\ Keeps(m, d, x) /\ ~(m = raw /\ back)
      BY <2>2, <2>3, <2>9, <2>7
    <3>2. CASE back /\ d = pic[raw].from /\ x = pic[raw].buf
      <4>1. x \in queued'[d] /\ \A m \in 1..rawSeq' : ~Keeps(m, d, x)'
        BY <2>1, <2>4, <2>5, <3>1, <3>2 DEF BufferKept
      <4>2. QED
        BY <4>1 DEF BufferKept
    <3>3. CASE ~(back /\ d = pic[raw].from /\ x = pic[raw].buf)
      <4>1. \A m \in 1..rawSeq' : Keeps(m, d, x)' <=> m \in 1..rawSeq /\ Keeps(m, d, x)
        BY <2>6, <3>1, <3>3
      <4>2. x \in queued'[d] <=> x \in queued[d]
        BY <2>5, <2>9, <3>3
      <4>3. QED
        BY <2>1, <2>7, <4>1, <4>2 DEF BufferKept
    <3>4. QED
      BY <3>2, <3>3
  <2>10. QED
    BY <2>8, <2>9
<1>13. BuffersKept'
  BY <1>3, <1>12 DEF BuffersKept
<1>14. PinsCounted'
  <2>1. Pinners(rawSeq + 1) = {}
    BY <1>3, <1>5 DEF Pinners, IInv, WorkTaken
  <2>2. \A m \in 1..rawSeq : pic'[m].pins = Cardinality(Pinners(m))
    BY <1>8 DEF IInv, PinsCounted
  <2>3. \A m : Cardinality(Pinners(m))' = Cardinality(Pinners(m))
    BY <1>3, PinnersSame
  <2>4. pic'[rawSeq'].pins = 0 /\ Cardinality(Pinners(rawSeq + 1)) = 0
    BY <1>9, <2>1, FS_EmptySet
  <2>5. QED
    BY <1>3, <1>5, <2>2, <2>3, <2>4 DEF PinsCounted
<1>15. Released'
  <2>1. ASSUME NEW m \in 1..rawSeq
        PROVE  /\ pic'[m].stale <=> m # raw'
               /\ pic'[m].given <=> \/ pic'[m].pixels = "copy"
                                    \/ pic'[m].stale /\ Free(m)'
    BY <1>3, <1>5, <1>8, <2>1 DEF IInv, Released, Free
  <2>2. /\ ~pic'[rawSeq'].stale /\ ~pic'[rawSeq'].given /\ pic'[rawSeq'].pixels # "copy"
    BY <1>2, <1>9
  <2>3. QED
    BY <1>3, <1>5, <2>1, <2>2 DEF Released, Free
<1>16. QED
  BY <1>3, <1>5, <1>8, <1>9, <1>10, <1>11, <1>13, <1>14, <1>15
     DEF PicturesKept, LatestTaken, Pictures

\* Nothing happens to the pictures.
LEMMA PicturesSame ==
    ASSUME IInv, UNCHANGED <<raw, rawSeq, pic, queued, mapped>>,
           \A n : Cardinality(Pinners(n))' = Cardinality(Pinners(n))
    PROVE  PicturesKept' /\ \A m \in 1..rawSeq : pic'[m].from = pic[m].from
  BY DEF PicturesKept, IInv, TypeOK, PinsCounted, LatestTaken, Released, Free,
     BuffersKept, BufferKept, Keeps

\* A capture starts with all its buffers queued and no picture in any.
LEMMA StartKeeps ==
    ASSUME IInv, StartCapture
    PROVE  PicturesKept' /\ \A m \in 1..rawSeq : pic'[m].from = pic[m].from
<1>1. PICK c : c = mgr.cap + 1
  OBVIOUS
<1>2. /\ mgr.cap \in Nat /\ c \in Captures /\ \A m \in 1..rawSeq : pic[m].from # c
      /\ c \notin mapped /\ mapped \subseteq Captures
      /\ queued \in [Captures -> SUBSET Buffers]
  BY <1>1, ConstantTypes, TakenType
     DEF StartCapture, IInv, TypeOK, CapturesInOrder, Captures, Picture
<1>3. /\ UNCHANGED <<raw, rawSeq, pic, job>> /\ mapped' = mapped \cup {c}
      /\ queued' = [queued EXCEPT ![c] = Buffers]
  BY <1>1 DEF StartCapture, buffer
<1>4. ASSUME NEW d \in mapped', NEW b \in Buffers
      PROVE  BufferKept(d, b)'
  <2>1. CASE d = c
    BY <1>2, <1>3, <1>4, <2>1 DEF BufferKept, Keeps
  <2>2. CASE d # c
    <3>1. d \in mapped /\ queued'[d] = queued[d]
      BY <1>2, <1>3, <1>4, <2>2
    <3>2. BufferKept(d, b)
      BY <3>1 DEF IInv, BuffersKept
    <3>3. QED
      BY <1>3, <3>1, <3>2 DEF BufferKept, Keeps
  <2>3. QED
    BY <2>1, <2>2
<1>5. PinsCounted' /\ LatestTaken' /\ Released'
  BY <1>3, PinnersSame DEF IInv, PinsCounted, LatestTaken, Released, Free
<1>6. BuffersKept'
  BY <1>4 DEF BuffersKept
<1>7. QED
  BY <1>2, <1>3, <1>5, <1>6 DEF PicturesKept, IInv, TypeOK

\* A reader that closes takes its buffers with it.
LEMMA CloseKeeps ==
    ASSUME IInv, NEW c \in Captures, Close(c)
    PROVE  PicturesKept' /\ \A m \in 1..rawSeq : pic'[m].from = pic[m].from
<1>1. /\ UNCHANGED <<raw, rawSeq, pic, job>> /\ mapped' = mapped \ {c}
      /\ queued' = [queued EXCEPT ![c] = {}]
      /\ queued \in [Captures -> SUBSET Buffers]
  BY DEF Close, buffer, IInv, TypeOK
<1>2. ASSUME NEW d \in mapped', NEW b \in Buffers
      PROVE  BufferKept(d, b)'
  <2>1. d \in mapped /\ queued'[d] = queued[d]
    BY <1>1, <1>2
  <2>2. BufferKept(d, b)
    BY <2>1 DEF IInv, BuffersKept
  <2>3. QED
    BY <1>1, <2>1, <2>2 DEF BufferKept, Keeps
<1>3. PinsCounted' /\ LatestTaken' /\ Released'
  BY <1>1, PinnersSame DEF IInv, PinsCounted, LatestTaken, Released, Free
<1>4. BuffersKept'
  BY <1>2 DEF BuffersKept
<1>5. QED
  BY <1>1, <1>3, <1>4 DEF PicturesKept, IInv, TypeOK

(***************************************************************************)
(* The rest of the invariant, and the pieces put together.                 *)
(***************************************************************************)

\* The types of everything but the pictures.
RestTypeOK ==
    /\ jpeg \in [Kinds -> [of : 0..MaxPictures, seq : 0..MaxPictures]]
    /\ encMu \in Callers \cup {None}
    /\ job \in [Callers -> Job]
    /\ loop \in [Captures -> Loop]
    /\ mapped \subseteq Captures
    /\ mgr \in [at : {"start", "run", "wait", "over"}, cap : 0..MaxCaptures,
                why : {"none", "restart", "reset", "shutdown"}]
    /\ overlapped \in BOOLEAN /\ outdated \subseteq Callers

\* What the callers, the loops and the manager do is orderly.
WorkKept == /\ RestTypeOK /\ WorkTaken /\ CapturesInOrder /\ OneLoop
            /\ JPEGsHonest /\ FloorsKept /\ LatestIsFresh

\* The pictures and the work together are the invariant, ...
LEMMA PutTogether ==
    ASSUME PicturesKept', WorkKept', rawSeq' \in 0..MaxPictures
    PROVE  IInv'
  BY DEF PicturesKept, WorkKept, RestTypeOK, IInv, TypeOK

\* ... and the other way round, with the types the steps need.
LEMMA TakenApart ==
    ASSUME IInv
    PROVE  /\ WorkKept /\ rawSeq \in 0..MaxPictures /\ rawSeq \in Nat
           /\ raw \in 0..rawSeq /\ raw \in Nat
           /\ \A c \in Captures : loop[c] \in Loop
           /\ \A e \in Callers : job[e] \in Job
  BY ConstantTypes DEF IInv, TypeOK, WorkKept, RestTypeOK, LatestTaken, NoPicture

(***************************************************************************)
(* The capture loop.                                                       *)
(***************************************************************************)

\* A loop at another step, with another picture or none, is a loop.
LEMMA LoopFields ==
    ASSUME NEW m \in Loop, NEW n \in 0..MaxPictures,
           NEW at \in {"off", "head", "read", "use", "detach", "drain", "close", "gone"}
    PROVE  /\ [m EXCEPT !.at = at, !.pic = n] \in Loop
           /\ [m EXCEPT !.at = at, !.pic = n].at = at
           /\ [m EXCEPT !.at = at, !.pic = n].pic = n
  BY DEF Loop

\* A loop that goes to another step, without a picture, is a loop.
LEMMA GoToLoop ==
    ASSUME IInv, NEW c \in Captures, NEW at,
           at \in {"gone", "close", "head", "detach", "read"}, GoTo(c, at)
    PROVE  \E l \in Loop : /\ loop' = [loop EXCEPT ![c] = l]
                           /\ l.at = at /\ l.pic = NoPicture
<1> DEFINE l == [loop[c] EXCEPT !.at = at, !.pic = NoPicture]
<1>1. loop[c] \in Loop /\ NoPicture \in 0..MaxPictures /\ loop \in [Captures -> Loop]
  BY TakenApart, ConstantTypes DEF NoPicture, WorkKept, RestTypeOK
<1>2. l \in Loop /\ l.at = at /\ l.pic = NoPicture
  BY <1>1 DEF Loop
<1>3. loop' = [loop EXCEPT ![c] = l]
  BY <1>1 DEF GoTo
<1> HIDE DEF l
<1>4. QED
  BY <1>2, <1>3

\* A loop only moves on to another step, and may have cleared the buffer.
MovesOn(c, l) ==
    /\ loop[c].at \notin {"off", "gone"}
    /\ l \in Loop /\ l.at \in {"head", "read", "detach", "drain", "close"}
    /\ l.at = "drain" => l.pic \in 1..rawSeq
    /\ loop' = [loop EXCEPT ![c] = l]
    /\ UNCHANGED <<encMu, job, mapped, mgr, overlapped, outdated, rawSeq>>
    /\ jpeg' = jpeg \/ jpeg' = [k \in Kinds |-> NoJPEG]
    /\ raw' = raw \/ l.at = "detach"
    /\ \A m \in 1..rawSeq : pic'[m].from = pic[m].from

\* Such a step keeps the work orderly.
LEMMA LoopMovesOn ==
    ASSUME IInv, NEW c \in Captures, NEW l, MovesOn(c, l)
    PROVE  WorkKept'
<1> USE DEF MovesOn
<1>1. WorkKept /\ loop \in [Captures -> Loop]
  BY TakenApart DEF WorkKept, RestTypeOK
<1>2. RestTypeOK'
  <2>1. NoJPEG \in [of : 0..MaxPictures, seq : 0..MaxPictures]
    BY ConstantTypes DEF NoJPEG, NoPicture
  <2>2. jpeg' \in [Kinds -> [of : 0..MaxPictures, seq : 0..MaxPictures]]
    BY <1>1, <2>1 DEF WorkKept, RestTypeOK
  <2>3. QED
    BY <1>1, <2>2 DEF WorkKept, RestTypeOK
<1>3. \A d \in Captures : loop'[d] = IF d = c THEN l ELSE loop[d]
  BY <1>1
<1>4. WorkTaken'
  BY <1>1, <1>3 DEF WorkKept, WorkTaken, Encoding
<1>5. CapturesInOrder'
  BY <1>1, <1>3 DEF WorkKept, CapturesInOrder
<1>6. OneLoop'
  BY <1>1, <1>3 DEF WorkKept, OneLoop
<1>7. JPEGsHonest'
  BY <1>1 DEF WorkKept, JPEGsHonest, NoJPEG
<1>8. FloorsKept' /\ LatestIsFresh'
  BY <1>1 DEF WorkKept, FloorsKept, LatestIsFresh
<1>9. QED
  BY <1>2, <1>4, <1>5, <1>6, <1>7, <1>8 DEF WorkKept

\* The loop looks whether it has been cancelled.
LEMMA HeadInv ==
    ASSUME IInv, NEW c \in Captures, Head(c)
    PROVE  IInv'
<1>1. /\ UNCHANGED <<buffer, encMu, job, queued, mapped, mgr, overlapped, outdated>>
      /\ loop[c].at = "head" /\ \E at \in {"detach", "read"} : GoTo(c, at)
  BY DEF Head
<1>2. PICK l \in Loop : loop' = [loop EXCEPT ![c] = l] /\ l.at \in {"detach", "read"}
  BY <1>1, GoToLoop
<1>3. PicturesKept' /\ \A m \in 1..rawSeq : pic'[m].from = pic[m].from
  BY <1>1, PicturesSame, PinnersSame DEF buffer
<1>4. MovesOn(c, l)
  BY <1>1, <1>2, <1>3 DEF MovesOn, buffer
<1>5. WorkKept'
  BY <1>4, LoopMovesOn
<1>6. QED
  BY <1>1, <1>3, <1>5, TakenApart, PutTogether DEF buffer

\* The loop takes a picture.
LEMMA UpdateRawInv ==
    ASSUME IInv, NEW c \in Captures, UpdateRaw(c)
    PROVE  IInv'
<1>1. /\ PicturesKept' /\ rawSeq' = rawSeq + 1 /\ raw' = rawSeq'
      /\ \A m \in 1..rawSeq : pic'[m].from = pic[m].from
      /\ rawSeq' \in Pictures /\ pic'[rawSeq'].from = c
      /\ loop' = [loop EXCEPT ![c] = [at |-> "use", pic |-> rawSeq', errs |-> 0]]
  BY UpdateRawKeeps
<1>2. /\ UNCHANGED <<jpeg, encMu, job, mapped, mgr, overlapped, outdated>>
      /\ loop[c].at = "read"
  BY DEF UpdateRaw
<1>3. WorkKept /\ loop \in [Captures -> Loop] /\ rawSeq \in Nat
  BY TakenApart DEF WorkKept, RestTypeOK
<1>4. rawSeq' \in 0..MaxPictures /\ 1..rawSeq' = 1..rawSeq \cup {rawSeq'} /\ rawSeq' \in 1..rawSeq'
  BY <1>1, <1>3, ConstantTypes DEF Pictures
<1>5. RestTypeOK'
  <2>1. [at |-> "use", pic |-> rawSeq', errs |-> 0] \in Loop
    BY <1>4, ConstantTypes DEF Loop
  <2>2. QED
    BY <1>1, <1>2, <1>3, <2>1 DEF WorkKept, RestTypeOK
<1>6. \A d \in Captures : loop'[d] = IF d = c THEN [at |-> "use", pic |-> rawSeq', errs |-> 0]
                                     ELSE loop[d]
  BY <1>1, <1>3
<1>7. WorkTaken'
  BY <1>2, <1>3, <1>4, <1>6 DEF WorkKept, WorkTaken, Encoding
<1>8. CapturesInOrder'
  <2>1. c \in mapped
    BY <1>2, <1>3 DEF WorkKept, CapturesInOrder
  <2>2. \A m \in 1..rawSeq' : pic'[m].from \in 1..mgr'.cap
    BY <1>1, <1>2, <1>3, <1>4, <2>1 DEF WorkKept, CapturesInOrder
  <2>3. QED
    BY <1>2, <1>3, <1>6, <2>2 DEF WorkKept, CapturesInOrder
<1>9. OneLoop'
  BY <1>1, <1>2, <1>3, <1>6 DEF WorkKept, OneLoop
<1>10. FloorsKept'
  <2>1. \A e \in Callers : job[e].floor \in Nat
    BY TakenApart, ConstantTypes DEF Job
  <2>2. QED
    BY <1>1, <1>2, <1>3, <2>1 DEF WorkKept, FloorsKept
<1>11. JPEGsHonest' /\ LatestIsFresh'
  BY <1>2, <1>3 DEF WorkKept, JPEGsHonest, LatestIsFresh
<1>12. WorkKept'
  BY <1>5, <1>7, <1>8, <1>9, <1>10, <1>11 DEF WorkKept
<1>13. QED
  BY <1>1, <1>4, <1>12, PutTogether

\* A read fails, for the last time or not.
LEMMA ReadFailsInv ==
    ASSUME IInv, NEW c \in Captures, ReadFails(c)
    PROVE  IInv'
<1>1. /\ UNCHANGED <<rawSeq, encMu, job, mapped, mgr, overlapped, outdated>>
      /\ loop[c].at = "read" /\ loop[c] \in Loop /\ loop \in [Captures -> Loop]
  BY TakenApart DEF ReadFails, WorkKept, RestTypeOK
<1>2. CASE loop[c].errs + 1 >= MaxErrors
  <2>1. Clear /\ GoTo(c, "detach")
    BY <1>2 DEF ReadFails
  <2>2. PICK l \in Loop : loop' = [loop EXCEPT ![c] = l] /\ l.at = "detach"
    BY <2>1, GoToLoop
  <2>3. /\ PicturesKept' /\ raw' = NoPicture
        /\ \A m \in 1..rawSeq : pic'[m].from = pic[m].from
    BY <1>1, <2>1, ClearKeeps
  <2>4. jpeg' = [k \in Kinds |-> NoJPEG]
    BY <2>1 DEF Clear
  <2>5. MovesOn(c, l)
    BY <1>1, <2>2, <2>3, <2>4 DEF MovesOn
  <2>6. WorkKept'
    BY <2>5, LoopMovesOn
  <2>7. QED
    BY <1>1, <2>3, <2>6, TakenApart, PutTogether
<1>3. CASE ~(loop[c].errs + 1 >= MaxErrors)
  <2>1. UNCHANGED <<raw, pic, jpeg, queued>>
        /\ loop' = [loop EXCEPT ![c].at = "head", ![c].errs = @ + 1]
    BY <1>3 DEF ReadFails
  <2> DEFINE l == [loop[c] EXCEPT !.at = "head", !.errs = @ + 1]
  <2>2. l \in Loop /\ l.at = "head"
    <3>1. loop[c].errs + 1 \in 0..(MaxErrors - 1)
      BY <1>1, <1>3, ConstantTypes DEF Loop
    <3>2. QED
      BY <1>1, <3>1 DEF Loop
  <2>3. loop' = [loop EXCEPT ![c] = l]
    BY <1>1, <2>1
  <2> HIDE DEF l
  <2>4. PicturesKept' /\ \A m \in 1..rawSeq : pic'[m].from = pic[m].from
    BY <1>1, <2>1, PicturesSame, PinnersSame
  <2>5. MovesOn(c, l)
    BY <1>1, <2>1, <2>2, <2>3, <2>4 DEF MovesOn
  <2>6. WorkKept'
    BY <2>5, LoopMovesOn
  <2>7. QED
    BY <1>1, <2>4, <2>6, TakenApart, PutTogether
<1>4. QED
  BY <1>2, <1>3

\* The loop has used its picture.
LEMMA DeliverInv ==
    ASSUME IInv, NEW c \in Captures, Deliver(c)
    PROVE  IInv'
<1>1. /\ UNCHANGED <<raw, rawSeq, pic, encMu, job, queued, mapped, mgr, overlapped, outdated>>
      /\ loop[c].at = "use" /\ loop[c] \in Loop /\ loop \in [Captures -> Loop]
      /\ WorkKept
  BY TakenApart DEF Deliver, WorkKept, RestTypeOK
<1>2. PICK made \in {{}, Kinds \cap {"cropped"}, Kinds} :
        jpeg' = [k \in Kinds |-> IF k \in made THEN [of |-> loop[c].pic, seq |-> rawSeq]
                                 ELSE jpeg[k]]
  BY DEF Deliver
<1>3. GoTo(c, "head")
  BY DEF Deliver
<1>4. PICK l \in Loop : loop' = [loop EXCEPT ![c] = l] /\ l.at = "head"
  BY <1>3, GoToLoop
<1>5. PicturesKept' /\ \A m \in 1..rawSeq : pic'[m].from = pic[m].from
  BY <1>1, PicturesSame, PinnersSame
<1>6. \A d \in Captures : loop'[d] = IF d = c THEN l ELSE loop[d]
  BY <1>1, <1>4
<1>7. RestTypeOK'
  <2>1. [of |-> loop[c].pic, seq |-> rawSeq] \in [of : 0..MaxPictures, seq : 0..MaxPictures]
    BY <1>1, TakenApart DEF Loop
  <2>2. jpeg' \in [Kinds -> [of : 0..MaxPictures, seq : 0..MaxPictures]]
    BY <1>1, <1>2, <2>1 DEF WorkKept, RestTypeOK
  <2>3. QED
    BY <1>1, <1>4, <2>2 DEF WorkKept, RestTypeOK
<1>8. WorkTaken' /\ CapturesInOrder' /\ OneLoop'
  BY <1>1, <1>4, <1>6 DEF WorkKept, WorkTaken, Encoding, CapturesInOrder, OneLoop
<1>9. JPEGsHonest'
  <2>1. ~overlapped => loop[c].pic = rawSeq
    BY <1>1 DEF WorkKept, OneLoop, WorkTaken, IInv, LatestTaken, NoPicture
  <2>2. QED
    BY <1>1, <1>2, <2>1 DEF WorkKept, JPEGsHonest
<1>10. FloorsKept' /\ LatestIsFresh'
  BY <1>1 DEF WorkKept, FloorsKept, LatestIsFresh
<1>11. WorkKept'
  BY <1>7, <1>8, <1>9, <1>10 DEF WorkKept
<1>12. QED
  BY <1>1, <1>5, <1>11, TakenApart, PutTogether

\* The loop ends, and looks whether there is a picture to copy.
LEMMA DetachInv ==
    ASSUME IInv, NEW c \in Captures, Detach(c)
    PROVE  IInv'
<1>1. /\ UNCHANGED <<raw, rawSeq, pic, jpeg, encMu, job, queued, mapped, mgr, overlapped, outdated>>
      /\ loop[c].at = "detach" /\ loop[c] \in Loop /\ loop \in [Captures -> Loop]
  BY TakenApart DEF Detach, buffer, WorkKept, RestTypeOK
<1>2. PICK l \in Loop : /\ l.at \in {"close", "drain"}
                        /\ l.at = "drain" => l.pic \in 1..rawSeq
                        /\ loop' = [loop EXCEPT ![c] = l]
  <2>1. CASE raw = NoPicture \/ pic[raw].pixels = "blank"
    <3>1. GoTo(c, "close")
      BY <2>1 DEF Detach
    <3>2. PICK l \in Loop : loop' = [loop EXCEPT ![c] = l] /\ l.at = "close"
      BY <3>1, GoToLoop
    <3>3. QED
      BY <3>2
  <2>2. CASE ~(raw = NoPicture \/ pic[raw].pixels = "blank")
    <3>1. loop' = [loop EXCEPT ![c].at = "drain", ![c].pic = raw]
      BY <2>2 DEF Detach
    <3> DEFINE l == [loop[c] EXCEPT !.at = "drain", !.pic = raw]
    <3>2. raw \in 1..rawSeq /\ raw \in 0..MaxPictures
      BY <2>2, TakenApart, ConstantTypes DEF NoPicture
    <3>3. l \in Loop /\ l.at = "drain" /\ l.pic = raw
      BY <1>1, <3>2, LoopFields
    <3>4. loop' = [loop EXCEPT ![c] = l]
      BY <1>1, <3>1
    <3> HIDE DEF l
    <3>5. QED
      BY <3>2, <3>3, <3>4
  <2>3. QED
    BY <2>1, <2>2
<1>3. PicturesKept' /\ \A m \in 1..rawSeq : pic'[m].from = pic[m].from
  BY <1>1, PicturesSame, PinnersSame
<1>4. MovesOn(c, l)
  BY <1>1, <1>2, <1>3 DEF MovesOn
<1>5. WorkKept'
  BY <1>4, LoopMovesOn
<1>6. QED
  BY <1>1, <1>3, <1>5, TakenApart, PutTogether

\* The loop has copied the picture, or does without.
LEMMA DetachCopiesInv ==
    ASSUME IInv, NEW c \in Captures, DetachCopies(c)
    PROVE  IInv'
<1>1. /\ UNCHANGED <<raw, rawSeq, jpeg, encMu, job, mapped, mgr, overlapped, outdated>>
      /\ loop[c].at = "drain" /\ loop[c] \in Loop /\ loop \in [Captures -> Loop]
  BY TakenApart DEF DetachCopies, WorkKept, RestTypeOK
<1>2. PICK n : n = loop[c].pic
  OBVIOUS
<1>3. n \in 1..rawSeq
  BY <1>1, <1>2, TakenApart DEF WorkKept, WorkTaken
<1>4. PICK l \in Loop : loop' = [loop EXCEPT ![c] = l] /\ l.at = "close"
  <2>1. GoTo(c, "close")
    BY DEF DetachCopies
  <2>2. QED
    BY <2>1, GoToLoop
<1>5. PicturesKept' /\ \A m \in 1..rawSeq : pic'[m].from = pic[m].from
  <2>1. CASE raw = n /\ Free(n)
    <3>1. /\ pic' = [pic EXCEPT ![n].pixels = "copy", ![n].given = TRUE]
          /\ Give(n, ~pic[n].given)
      BY <1>2, <2>1 DEF DetachCopies
    <3>2. QED
      BY <1>1, <1>3, <2>1, <3>1, CopyKeeps
  <2>2. CASE ~(raw = n /\ Free(n))
    <3>1. UNCHANGED <<pic, queued>>
      BY <1>2, <2>2 DEF DetachCopies
    <3>2. QED
      BY <1>1, <3>1, PicturesSame, PinnersSame
  <2>3. QED
    BY <2>1, <2>2
<1>6. MovesOn(c, l)
  BY <1>1, <1>4, <1>5 DEF MovesOn
<1>7. WorkKept'
  BY <1>6, LoopMovesOn
<1>8. QED
  BY <1>1, <1>5, <1>7, TakenApart, PutTogether

\* The reader closes.
LEMMA CloseInv ==
    ASSUME IInv, NEW c \in Captures, Close(c)
    PROVE  IInv'
<1>1. /\ UNCHANGED <<raw, rawSeq, pic, jpeg, encMu, job, mgr, overlapped, outdated>>
      /\ mapped' = mapped \ {c} /\ WorkKept
      /\ loop[c].at = "close" /\ loop[c] \in Loop /\ loop \in [Captures -> Loop]
  BY TakenApart DEF Close, buffer, WorkKept, RestTypeOK
<1>2. PICK l \in Loop : loop' = [loop EXCEPT ![c] = l] /\ l.at = "gone"
  <2>1. GoTo(c, "gone")
    BY DEF Close
  <2>2. QED
    BY <2>1, GoToLoop
<1>3. PicturesKept' /\ \A m \in 1..rawSeq : pic'[m].from = pic[m].from
  BY CloseKeeps
<1>4. \A d \in Captures : loop'[d] = IF d = c THEN l ELSE loop[d]
  BY <1>1, <1>2
<1>5. RestTypeOK'
  BY <1>1, <1>2 DEF WorkKept, RestTypeOK
<1>6. WorkTaken' /\ CapturesInOrder' /\ OneLoop'
  BY <1>1, <1>2, <1>4 DEF WorkKept, WorkTaken, Encoding, CapturesInOrder, OneLoop
<1>7. JPEGsHonest' /\ FloorsKept' /\ LatestIsFresh'
  BY <1>1 DEF WorkKept, JPEGsHonest, FloorsKept, LatestIsFresh
<1>8. WorkKept'
  BY <1>5, <1>6, <1>7 DEF WorkKept
<1>9. QED
  BY <1>1, <1>3, <1>8, TakenApart, PutTogether

(***************************************************************************)
(* The callers.                                                            *)
(***************************************************************************)

\* What a caller's step leaves alone, and what it may do to its own job.
CallerStep(e, j) ==
    /\ UNCHANGED <<raw, rawSeq, loop, mapped, mgr, overlapped>>
    /\ job' = [job EXCEPT ![e] = j]
    /\ j \in Job /\ j.floor <= rawSeq
    /\ j.at \in {"look", "encode", "encodeAt"} => j.pic \in 1..rawSeq
    /\ j.at \in {"look", "encode"} => j.floor <= j.pic /\ j.kind \in Kinds
    /\ j.at = "lock" => j.kind \in Kinds
    /\ encMu' \in Callers \cup {None}
    /\ \/ jpeg' = jpeg
       \/ \E k \in Kinds, n \in 1..rawSeq : jpeg' = [jpeg EXCEPT ![k] = [of |-> n, seq |-> n]]
    /\ outdated' \subseteq Callers
    /\ ~overlapped => outdated' \subseteq outdated
    /\ \A m \in 1..rawSeq : pic'[m].from = pic[m].from

\* Such a step keeps the work orderly.
LEMMA CallerKeeps ==
    ASSUME IInv, NEW e \in Callers, NEW j, CallerStep(e, j)
    PROVE  WorkKept'
<1> USE DEF CallerStep
<1>1. WorkKept /\ job \in [Callers -> Job] /\ rawSeq \in 0..MaxPictures
  BY TakenApart DEF WorkKept, RestTypeOK
<1>2. \A d \in Callers : job'[d] = IF d = e THEN j ELSE job[d]
  BY <1>1
<1>3. RestTypeOK'
  <2>1. \A n \in 1..rawSeq : [of |-> n, seq |-> n] \in [of : 0..MaxPictures, seq : 0..MaxPictures]
    BY <1>1, ConstantTypes
  <2>2. jpeg' \in [Kinds -> [of : 0..MaxPictures, seq : 0..MaxPictures]]
    BY <1>1, <2>1 DEF WorkKept, RestTypeOK
  <2>3. job' \in [Callers -> Job]
    BY <1>1
  <2>4. QED
    BY <1>1, <2>2, <2>3 DEF WorkKept, RestTypeOK
<1>4. WorkTaken'
  BY <1>1, <1>2 DEF WorkKept, WorkTaken, Encoding
<1>5. CapturesInOrder'
  BY <1>1 DEF WorkKept, CapturesInOrder
<1>6. OneLoop'
  BY <1>1 DEF WorkKept, OneLoop
<1>7. JPEGsHonest'
  BY <1>1 DEF WorkKept, JPEGsHonest, RestTypeOK
<1>8. FloorsKept'
  BY <1>1, <1>2 DEF WorkKept, FloorsKept
<1>9. LatestIsFresh'
  BY <1>1 DEF WorkKept, LatestIsFresh
<1>10. QED
  BY <1>3, <1>4, <1>5, <1>6, <1>7, <1>8, <1>9 DEF WorkKept

\* A caller is given an answer that is not older than what it asked for.
LEMMA AnswerKeeps ==
    ASSUME IInv, NEW e \in Callers, NEW n, NEW floor, Answer(e, n, floor),
           n \in 1..(floor - 1) => overlapped
    PROVE  /\ job' = [job EXCEPT ![e] = IdleJob] /\ outdated' \subseteq Callers
           /\ ~overlapped => outdated' \subseteq outdated
           /\ IdleJob \in Job /\ IdleJob.at = "idle" /\ IdleJob.floor = NoPicture
           /\ NoPicture <= rawSeq
<1>1. outdated \subseteq Callers /\ rawSeq \in Nat
  BY TakenApart DEF WorkKept, RestTypeOK
<1>2. IdleJob \in Job /\ IdleJob.at = "idle" /\ IdleJob.floor = NoPicture
  BY ConstantTypes DEF IdleJob, Job, NoPicture
<1>3. QED
  BY <1>1, <1>2 DEF Answer, NoPicture

\* Latest or LatestRaw finds the JPEG of the latest picture, or asks for encMu.
LEMMA LatestInv ==
    ASSUME IInv, NEW e \in Callers, NEW k \in Kinds, Latest(e, k)
    PROVE  IInv'
<1>1. /\ UNCHANGED <<raw, rawSeq, pic, jpeg, encMu, loop, queued, mapped, mgr, overlapped>>
      /\ job[e].at = "idle" /\ ~Encoding(e)
  BY DEF Latest, buffer, Encoding
<1>2. WorkKept /\ rawSeq \in Nat /\ raw \in 0..rawSeq /\ rawSeq \in 0..MaxPictures
      /\ job \in [Callers -> Job]
  BY TakenApart DEF WorkKept, RestTypeOK
<1>3. PICK j : CallerStep(e, j) /\ j.at \in {"idle", "lock"}
  <2>1. CASE raw = NoPicture \/ (jpeg[k].of # NoPicture /\ jpeg[k].seq = raw)
    <3>1. Answer(e, jpeg[k].of, raw)
      BY <2>1 DEF Latest
    <3>2. jpeg[k].of \in 1..(raw - 1) => overlapped
      BY <1>2, <2>1 DEF WorkKept, JPEGsHonest, NoPicture
    <3>3. CallerStep(e, IdleJob)
      BY <1>1, <1>2, <3>1, <3>2, AnswerKeeps DEF CallerStep, WorkKept, RestTypeOK
    <3>4. QED
      BY <3>3 DEF IdleJob
  <2>2. CASE ~(raw = NoPicture \/ (jpeg[k].of # NoPicture /\ jpeg[k].seq = raw))
    <3> DEFINE j == [at |-> "lock", kind |-> k, pic |-> NoPicture, floor |-> raw]
    <3>1. job' = [job EXCEPT ![e] = j] /\ UNCHANGED outdated
      BY <2>2 DEF Latest
    <3>2. j \in Job /\ j.at = "lock" /\ j.floor = raw /\ j.kind = k
      BY <1>2, ConstantTypes DEF Job, NoPicture
    <3> HIDE DEF j
    <3>3. CallerStep(e, j)
      BY <1>1, <1>2, <3>1, <3>2 DEF CallerStep, WorkKept, RestTypeOK
    <3>4. QED
      BY <3>2, <3>3
  <2>3. QED
    BY <2>1, <2>2
<1>4. PicturesKept' /\ \A m \in 1..rawSeq : pic'[m].from = pic[m].from
  <2>1. ~Encoding(e)' /\ \A d \in Callers \ {e} : job'[d] = job[d]
    BY <1>2, <1>3 DEF CallerStep, Encoding
  <2>2. \A n : Cardinality(Pinners(n))' = Cardinality(Pinners(n))
    BY <1>1, <2>1, PinnersChanged DEF IInv
  <2>3. QED
    BY <1>1, <2>2, PicturesSame
<1>5. WorkKept'
  BY <1>3, CallerKeeps
<1>6. QED
  BY <1>1, <1>2, <1>4, <1>5, PutTogether

\* A caller gets encMu and pins the latest picture.
LEMMA EncodeLatestInv ==
    ASSUME IInv, NEW e \in Callers, EncodeLatest(e)
    PROVE  IInv'
<1>1. /\ UNCHANGED <<raw, rawSeq, jpeg, loop, mapped, mgr, overlapped, queued>>
      /\ job[e].at = "lock" /\ ~Encoding(e)
  BY DEF EncodeLatest, Encoding
<1>2. /\ WorkKept /\ rawSeq \in Nat /\ raw \in 0..rawSeq /\ rawSeq \in 0..MaxPictures
      /\ job \in [Callers -> Job] /\ job[e] \in Job /\ job[e].floor \in Nat
      /\ job[e].floor <= rawSeq /\ job[e].kind \in Kinds
  BY <1>1, TakenApart, ConstantTypes DEF WorkKept, RestTypeOK, FloorsKept, Job
<1>3. CASE raw = NoPicture
  <2>1. Answer(e, NoPicture, job[e].floor) /\ UNCHANGED <<pic, encMu>>
    BY <1>3 DEF EncodeLatest
  <2>2. NoPicture \notin 1..(job[e].floor - 1)
    BY <1>2 DEF NoPicture
  <2>3. CallerStep(e, IdleJob)
    BY <1>1, <1>2, <2>1, <2>2, AnswerKeeps DEF CallerStep, WorkKept, RestTypeOK
  <2>4. WorkKept'
    BY <2>3, CallerKeeps
  <2>5. ~Encoding(e)' /\ \A d \in Callers \ {e} : job'[d] = job[d]
    BY <1>2, <2>3 DEF CallerStep, Encoding, IdleJob
  <2>6. \A n : Cardinality(Pinners(n))' = Cardinality(Pinners(n))
    BY <1>1, <2>5, PinnersChanged DEF IInv
  <2>7. PicturesKept'
    BY <1>1, <2>1, <2>6, PicturesSame
  <2>8. QED
    BY <1>1, <1>2, <2>4, <2>7, PutTogether
<1>4. CASE raw # NoPicture
  <2>1. Pin(e, "look") /\ encMu' = e /\ UNCHANGED outdated
    BY <1>4 DEF EncodeLatest
  <2>2. /\ PicturesKept' /\ raw \in 1..rawSeq
        /\ \A m \in 1..rawSeq : pic'[m].from = pic[m].from
    BY <1>1, <1>4, <2>1, PinKeeps
  <2> DEFINE j == [job[e] EXCEPT !.at = "look", !.pic = raw]
  <2>3. j \in Job /\ j.at = "look" /\ j.pic = raw /\ j.floor = job[e].floor /\ j.kind = job[e].kind
    <3>1. raw \in 0..MaxPictures
      BY <1>2, <2>2, ConstantTypes
    <3>2. QED
      BY <1>2, <3>1 DEF Job
  <2>4. job' = [job EXCEPT ![e] = j]
    BY <1>2, <2>1 DEF Pin
  <2> HIDE DEF j
  <2>5. raw = rawSeq
    BY <1>4 DEF IInv, LatestTaken
  <2>6. CallerStep(e, j)
    BY <1>1, <1>2, <2>1, <2>2, <2>3, <2>4, <2>5 DEF CallerStep, WorkKept, RestTypeOK
  <2>7. WorkKept'
    BY <2>6, CallerKeeps
  <2>8. QED
    BY <1>1, <1>2, <2>2, <2>7, PutTogether
<1>5. QED
  BY <1>3, <1>4

\* A caller that looks at, or encodes, a picture.
LEMMA EncodingType ==
    ASSUME IInv, NEW e \in Callers, Encoding(e)
    PROVE  /\ WorkKept /\ rawSeq \in Nat /\ rawSeq \in 0..MaxPictures
           /\ job \in [Callers -> Job] /\ job[e] \in Job
           /\ job[e].pic \in 1..rawSeq /\ job[e].floor \in Nat /\ job[e].floor <= rawSeq
           /\ job[e].at # "encodeAt" => /\ job[e].floor <= job[e].pic
                                        /\ job[e].kind \in Kinds
  BY TakenApart, ConstantTypes DEF WorkKept, RestTypeOK, FloorsKept, WorkTaken, Job, Encoding

\* A caller finds that the JPEG has been made meanwhile, or goes on to make it.
LEMMA LookInv ==
    ASSUME IInv, NEW e \in Callers, Look(e)
    PROVE  IInv'
<1>1. /\ UNCHANGED <<raw, rawSeq, jpeg, loop, mapped, mgr, overlapped>>
      /\ job[e].at = "look" /\ Encoding(e)
  BY DEF Look, Encoding
<1>2. PICK k \in Kinds : k = job[e].kind
  BY <1>1, EncodingType
<1>3. CASE jpeg[k].of # NoPicture /\ jpeg[k].seq = job[e].pic
  <2>1. Unpin(job[e].pic) /\ Answer(e, jpeg[k].of, job[e].floor) /\ encMu' = None
    BY <1>2, <1>3 DEF Look
  <2>2. jpeg[k].of \in 1..(job[e].floor - 1) => overlapped
    BY <1>1, <1>2, <1>3, EncodingType DEF WorkKept, JPEGsHonest
  <2>3. CallerStep(e, IdleJob)
    <3>1. job' = [job EXCEPT ![e] = IdleJob]
      BY <2>1 DEF Answer
    <3>2. /\ PicturesKept' /\ \A m \in 1..rawSeq : pic'[m].from = pic[m].from
      BY <1>1, <2>1, <3>1, UnpinKeeps
    <3>3. QED
      BY <1>1, <2>1, <2>2, <3>2, AnswerKeeps DEF CallerStep
  <2>4. PicturesKept'
    BY <1>1, <2>1, <2>3, UnpinKeeps DEF CallerStep
  <2>5. WorkKept'
    BY <2>3, CallerKeeps
  <2>6. QED
    BY <1>1, <2>4, <2>5, EncodingType, PutTogether
<1>4. CASE ~(jpeg[k].of # NoPicture /\ jpeg[k].seq = job[e].pic)
  <2>1. /\ job' = [job EXCEPT ![e].at = "encode"]
        /\ UNCHANGED <<pic, queued, encMu, outdated>>
    BY <1>2, <1>4 DEF Look
  <2> DEFINE j == [job[e] EXCEPT !.at = "encode"]
  <2>2. job' = [job EXCEPT ![e] = j]
    BY <1>1, <2>1, EncodingType
  <2>3. j \in Job /\ j.at = "encode" /\ j.pic = job[e].pic /\ j.floor = job[e].floor
        /\ j.kind = job[e].kind
    BY <1>1, EncodingType DEF Job
  <2> HIDE DEF j
  <2>4. CallerStep(e, j)
    BY <1>1, <2>1, <2>2, <2>3, EncodingType DEF CallerStep, WorkKept, RestTypeOK
  <2>5. Encoding(e)' /\ job'[e].pic = job[e].pic /\ \A d \in Callers \ {e} : job'[d] = job[d]
    BY <1>1, <2>2, <2>3, EncodingType DEF Encoding
  <2>6. \A n : Cardinality(Pinners(n))' = Cardinality(Pinners(n))
    BY <1>1, <2>5, PinnersChanged DEF IInv
  <2>7. PicturesKept'
    BY <1>1, <2>1, <2>6, PicturesSame
  <2>8. WorkKept'
    BY <2>4, CallerKeeps
  <2>9. QED
    BY <1>1, <2>7, <2>8, EncodingType, PutTogether
<1>5. QED
  BY <1>3, <1>4

\* A caller has made the JPEG.
LEMMA StoreInv ==
    ASSUME IInv, NEW e \in Callers, Store(e)
    PROVE  IInv'
<1>1. /\ UNCHANGED <<raw, rawSeq, loop, mapped, mgr, overlapped>>
      /\ job[e].at = "encode" /\ Encoding(e)
  BY DEF Store, Encoding
<1>2. PICK n \in 1..rawSeq : n = job[e].pic
  BY <1>1, EncodingType
<1>3. /\ jpeg' = [jpeg EXCEPT ![job[e].kind] = [of |-> n, seq |-> n]]
      /\ Unpin(job[e].pic) /\ Answer(e, n, job[e].floor) /\ encMu' = None
  BY <1>2 DEF Store
<1>4. n \notin 1..(job[e].floor - 1)
  BY <1>1, <1>2, EncodingType
<1>5. job' = [job EXCEPT ![e] = IdleJob]
  BY <1>3 DEF Answer
<1>6. PicturesKept' /\ \A m \in 1..rawSeq : pic'[m].from = pic[m].from
  BY <1>1, <1>3, <1>5, UnpinKeeps
<1>7. CallerStep(e, IdleJob)
  <2>1. job[e].kind \in Kinds
    BY <1>1, EncodingType
  <2>2. QED
    BY <1>1, <1>2, <1>3, <1>4, <1>6, <2>1, AnswerKeeps DEF CallerStep
<1>8. WorkKept'
  BY <1>7, CallerKeeps
<1>9. QED
  BY <1>1, <1>6, <1>8, EncodingType, PutTogether

\* LatestAt pins the latest picture.
LEMMA LatestAtInv ==
    ASSUME IInv, NEW e \in Callers, LatestAt(e)
    PROVE  IInv'
<1>1. /\ UNCHANGED <<raw, rawSeq, jpeg, encMu, loop, queued, mapped, mgr, overlapped, outdated>>
      /\ job[e].at = "idle" /\ raw # NoPicture /\ Pin(e, "encodeAt") /\ ~Encoding(e)
  BY DEF LatestAt, Encoding
<1>2. /\ WorkKept /\ rawSeq \in Nat /\ rawSeq \in 0..MaxPictures
      /\ job \in [Callers -> Job] /\ job[e] \in Job /\ job[e].floor <= rawSeq
  BY TakenApart DEF WorkKept, RestTypeOK, FloorsKept
<1>3. /\ PicturesKept' /\ raw \in 1..rawSeq
      /\ \A m \in 1..rawSeq : pic'[m].from = pic[m].from
  BY <1>1, PinKeeps
<1> DEFINE j == [job[e] EXCEPT !.at = "encodeAt", !.pic = raw]
<1>4. j \in Job /\ j.at = "encodeAt" /\ j.pic = raw /\ j.floor = job[e].floor
  <2>1. raw \in 0..MaxPictures
    BY <1>2, <1>3, ConstantTypes
  <2>2. QED
    BY <1>2, <2>1 DEF Job
<1>5. job' = [job EXCEPT ![e] = j]
  BY <1>1, <1>2 DEF Pin
<1> HIDE DEF j
<1>6. CallerStep(e, j)
  BY <1>1, <1>2, <1>3, <1>4, <1>5 DEF CallerStep, WorkKept, RestTypeOK
<1>7. WorkKept'
  BY <1>6, CallerKeeps
<1>8. QED
  BY <1>1, <1>2, <1>3, <1>7, PutTogether

\* LatestAt has made its JPEG.
LEMMA LatestAtDoneInv ==
    ASSUME IInv, NEW e \in Callers, LatestAtDone(e)
    PROVE  IInv'
<1>1. /\ UNCHANGED <<raw, rawSeq, jpeg, encMu, loop, mapped, mgr, overlapped, outdated>>
      /\ Encoding(e) /\ Unpin(job[e].pic) /\ job' = [job EXCEPT ![e] = IdleJob]
  BY DEF LatestAtDone, Encoding
<1>2. PicturesKept' /\ \A m \in 1..rawSeq : pic'[m].from = pic[m].from
  BY <1>1, UnpinKeeps
<1>3. CallerStep(e, IdleJob)
  <2>1. IdleJob \in Job /\ IdleJob.at = "idle" /\ IdleJob.floor = 0
    BY ConstantTypes DEF IdleJob, Job, NoPicture
  <2>2. QED
    BY <1>1, <1>2, <2>1, EncodingType DEF CallerStep, WorkKept, RestTypeOK
<1>4. WorkKept'
  BY <1>3, CallerKeeps
<1>5. QED
  BY <1>1, <1>2, <1>4, EncodingType, PutTogether

(***************************************************************************)
(* The manager.                                                            *)
(***************************************************************************)

\* The manager starts a capture.
LEMMA StartCaptureInv ==
    ASSUME IInv, StartCapture
    PROVE  IInv'
<1>1. PICK c : c = mgr.cap + 1
  OBVIOUS
<1>2. /\ UNCHANGED <<raw, rawSeq, pic, jpeg, encMu, job, overlapped, outdated>>
      /\ mgr.at = "start" /\ mgr.cap < MaxCaptures
      /\ mgr' = [at |-> "run", cap |-> c, why |-> "none"]
      /\ loop' = [loop EXCEPT ![c].at = "head"] /\ mapped' = mapped \cup {c}
  BY <1>1 DEF StartCapture, buffer
<1>3. /\ WorkKept /\ loop \in [Captures -> Loop] /\ mgr.cap \in Nat /\ c \in Captures
      /\ loop[c] \in Loop /\ rawSeq \in 0..MaxPictures
  BY <1>1, <1>2, TakenApart, ConstantTypes DEF WorkKept, RestTypeOK, Captures
<1> DEFINE l == [loop[c] EXCEPT !.at = "head"]
<1>4. l \in Loop /\ l.at = "head" /\ loop' = [loop EXCEPT ![c] = l]
  BY <1>2, <1>3 DEF Loop
<1> HIDE DEF l
<1>5. PicturesKept' /\ \A m \in 1..rawSeq : pic'[m].from = pic[m].from
  BY StartKeeps
<1>6. \A d \in Captures : loop'[d] = IF d = c THEN l ELSE loop[d]
  BY <1>3, <1>4
<1>7. RestTypeOK'
  <2>1. c \in 0..MaxCaptures
    BY <1>3, ConstantTypes DEF Captures
  <2>2. mgr' \in [at : {"start", "run", "wait", "over"}, cap : 0..MaxCaptures,
                  why : {"none", "restart", "reset", "shutdown"}]
    BY <1>2, <2>1
  <2>3. loop' \in [Captures -> Loop] /\ mapped' \subseteq Captures
    BY <1>2, <1>3, <1>4 DEF WorkKept, RestTypeOK
  <2>4. QED
    BY <1>2, <1>3, <2>2, <2>3 DEF WorkKept, RestTypeOK
<1>8. WorkTaken'
  BY <1>2, <1>3, <1>4, <1>6 DEF WorkKept, WorkTaken, Encoding
<1>9. CapturesInOrder'
  <2>1. mgr'.cap = c /\ \A d \in Captures : d \in Nat
    BY <1>2, ConstantTypes DEF Captures
  <2>2. mapped' \subseteq 1..c
    BY <1>1, <1>2, <1>3 DEF WorkKept, CapturesInOrder, Captures
  <2>3. \A n \in 1..rawSeq' : pic'[n].from \in 1..c
    BY <1>1, <1>2, <1>3 DEF WorkKept, CapturesInOrder
  <2>4. \A d \in Captures : /\ loop'[d].at = "off" <=> d > c
                            /\ loop'[d].at \notin {"off", "gone"} => d \in mapped'
    BY <1>1, <1>2, <1>3, <1>4, <1>6, <2>1 DEF WorkKept, CapturesInOrder
  <2>5. QED
    BY <2>1, <2>2, <2>3, <2>4 DEF CapturesInOrder
<1>10. OneLoop'
  BY <1>2, <1>3, <1>4, <1>6 DEF WorkKept, OneLoop
<1>11. JPEGsHonest' /\ FloorsKept' /\ LatestIsFresh'
  BY <1>2, <1>3 DEF WorkKept, JPEGsHonest, FloorsKept, LatestIsFresh
<1>12. WorkKept'
  BY <1>7, <1>8, <1>9, <1>10, <1>11 DEF WorkKept
<1>13. QED
  BY <1>2, <1>3, <1>5, <1>12, PutTogether

\* The manager stops the capture.
LEMMA StopInv ==
    ASSUME IInv, Stop
    PROVE  IInv'
<1>1. /\ UNCHANGED <<raw, rawSeq, pic, jpeg, encMu, job, loop, queued, mapped,
                   overlapped, outdated>>
      /\ mgr.at = "run"
  BY DEF Stop, buffer
<1>2. WorkKept /\ rawSeq \in 0..MaxPictures
  BY TakenApart
<1>3. PICK why \in {"restart", "reset", "shutdown"} :
        mgr' = [mgr EXCEPT !.at = "wait", !.why = why]
  BY DEF Stop
<1>4. mgr' \in [at : {"start", "run", "wait", "over"}, cap : 0..MaxCaptures,
                why : {"none", "restart", "reset", "shutdown"}]
      /\ mgr'.cap = mgr.cap /\ mgr'.at = "wait"
  BY <1>2, <1>3 DEF WorkKept, RestTypeOK
<1>5. PicturesKept'
  BY <1>1, PicturesSame, PinnersSame
<1>6. RestTypeOK'
  BY <1>1, <1>2, <1>4 DEF WorkKept, RestTypeOK
<1>7. WorkTaken' /\ CapturesInOrder' /\ OneLoop'
  BY <1>1, <1>2, <1>4 DEF WorkKept, WorkTaken, Encoding, CapturesInOrder, OneLoop
<1>8. JPEGsHonest' /\ FloorsKept' /\ LatestIsFresh'
  BY <1>1, <1>2 DEF WorkKept, JPEGsHonest, FloorsKept, LatestIsFresh
<1>9. WorkKept'
  BY <1>6, <1>7, <1>8 DEF WorkKept
<1>10. QED
  BY <1>1, <1>2, <1>5, <1>9, PutTogether

\* The manager goes on to the next capture, waited for or not.
LEMMA GoOnInv ==
    ASSUME IInv, GoOn
    PROVE  IInv'
<1>1. /\ UNCHANGED <<rawSeq, encMu, job, loop, mapped, outdated>>
      /\ mgr.at = "wait"
      /\ overlapped' = (overlapped \/ loop[mgr.cap].at # "gone")
      /\ mgr' = [mgr EXCEPT !.at = IF mgr.why = "shutdown" THEN "over" ELSE "start",
                            !.why = "none"]
      /\ Clear \/ UNCHANGED <<raw, pic, jpeg, queued>>
  BY DEF GoOn
<1>2. WorkKept /\ rawSeq \in 0..MaxPictures /\ mgr.cap \in Nat
  BY TakenApart, ConstantTypes DEF WorkKept, RestTypeOK
<1>3. mgr' \in [at : {"start", "run", "wait", "over"}, cap : 0..MaxCaptures,
                why : {"none", "restart", "reset", "shutdown"}]
      /\ mgr'.cap = mgr.cap
  BY <1>1, <1>2 DEF WorkKept, RestTypeOK
<1>4. overlapped' \in BOOLEAN
  BY <1>1
<1>5. /\ PicturesKept' /\ \A m \in 1..rawSeq : pic'[m].from = pic[m].from
      /\ jpeg' = jpeg \/ jpeg' = [k \in Kinds |-> NoJPEG]
  <2>1. CASE Clear
    BY <1>1, <2>1, ClearKeeps DEF Clear
  <2>2. CASE UNCHANGED <<raw, pic, jpeg, queued>>
    BY <1>1, <2>2, PicturesSame, PinnersSame
  <2>3. QED
    BY <1>1, <2>1, <2>2
<1>6. RestTypeOK'
  <2>1. NoJPEG \in [of : 0..MaxPictures, seq : 0..MaxPictures]
    BY ConstantTypes DEF NoJPEG, NoPicture
  <2>2. jpeg' \in [Kinds -> [of : 0..MaxPictures, seq : 0..MaxPictures]]
    BY <1>2, <1>5, <2>1 DEF WorkKept, RestTypeOK
  <2>3. QED
    BY <1>1, <1>2, <1>3, <1>4, <2>2 DEF WorkKept, RestTypeOK
<1>7. WorkTaken' /\ CapturesInOrder'
  BY <1>1, <1>2, <1>3, <1>5 DEF WorkKept, WorkTaken, Encoding, CapturesInOrder
<1>8. ~overlapped' => ~overlapped /\ \A c \in Captures : loop[c].at \in {"off", "gone"}
  BY <1>1, <1>2 DEF WorkKept, OneLoop
<1>9. OneLoop'
  BY <1>1, <1>8 DEF OneLoop
<1>10. JPEGsHonest' /\ FloorsKept' /\ LatestIsFresh'
  BY <1>1, <1>2, <1>5, <1>8 DEF WorkKept, JPEGsHonest, NoJPEG, FloorsKept, LatestIsFresh
<1>11. WorkKept'
  BY <1>6, <1>7, <1>9, <1>10 DEF WorkKept
<1>12. QED
  BY <1>1, <1>2, <1>5, <1>11, PutTogether

(***************************************************************************)
(* The theorems.                                                           *)
(***************************************************************************)

\* The invariant holds at the start.
LEMMA InitInv == Init => IInv
<1> SUFFICES ASSUME Init PROVE IInv
  OBVIOUS
<1>1. /\ raw = 0 /\ rawSeq = 0 /\ 1..rawSeq = {} /\ mgr.cap = 0 /\ mapped = {}
      /\ \A n \in Pictures : n > 0
  BY ConstantTypes DEF Init, NoPicture, Pictures
<1>2. TypeOK
  <2>1. \A e \in Callers : IdleJob \in Job
    BY ConstantTypes DEF IdleJob, Job, NoPicture
  <2>2. [at |-> "off", pic |-> NoPicture, errs |-> 0] \in Loop
    BY ConstantTypes DEF Loop, NoPicture
  <2>3. NoJPEG \in [of : 0..MaxPictures, seq : 0..MaxPictures]
    BY ConstantTypes DEF NoJPEG, NoPicture
  <2>4. mgr \in [at : {"start", "run", "wait", "over"}, cap : 0..MaxCaptures,
                 why : {"none", "restart", "reset", "shutdown"}]
    BY ConstantTypes DEF Init
  <2>5. pic \in [Pictures -> Picture \cup {NoFrame}]
        /\ \A n \in Pictures : pic[n] # NoFrame <=> n <= rawSeq
    BY <1>1 DEF Init, Pictures
  <2>6. /\ jpeg \in [Kinds -> [of : 0..MaxPictures, seq : 0..MaxPictures]]
        /\ job \in [Callers -> Job] /\ loop \in [Captures -> Loop]
        /\ queued \in [Captures -> SUBSET Buffers]
    BY <2>1, <2>2, <2>3 DEF Init
  <2>7. /\ raw \in 0..MaxPictures /\ rawSeq \in 0..MaxPictures
    BY <1>1, ConstantTypes
  <2>8. /\ encMu \in Callers \cup {None} /\ mapped \subseteq Captures
        /\ overlapped \in BOOLEAN /\ outdated \subseteq Callers
    BY DEF Init
  <2>9. QED
    BY <2>4, <2>5, <2>6, <2>7, <2>8 DEF TypeOK
<1>3. PinsCounted /\ LatestTaken /\ Released /\ WorkTaken /\ BuffersKept
  BY <1>1 DEF Init, PinsCounted, LatestTaken, Released, WorkTaken, Encoding, IdleJob,
     BuffersKept, NoPicture
<1>4. CapturesInOrder
  BY <1>1 DEF Init, CapturesInOrder, Captures
<1>5. OneLoop /\ JPEGsHonest /\ FloorsKept /\ LatestIsFresh
  BY <1>1 DEF Init, OneLoop, JPEGsHonest, NoJPEG, FloorsKept, IdleJob, NoPicture,
     LatestIsFresh
<1>6. QED
  BY <1>2, <1>3, <1>4, <1>5 DEF IInv

\* Every step keeps the invariant.
LEMMA NextInv == IInv /\ [Next]_vars => IInv'
<1> SUFFICES ASSUME IInv, [Next]_vars PROVE IInv'
  OBVIOUS
<1>1. CASE Manager
  BY <1>1, StartCaptureInv, StopInv, GoOnInv DEF Manager
<1>2. CASE \E c \in Captures : CaptureLoop(c)
  BY <1>2, HeadInv, UpdateRawInv, ReadFailsInv, DeliverInv, DetachInv, DetachCopiesInv,
     CloseInv DEF CaptureLoop
<1>3. CASE \E e \in Callers : Caller(e)
  BY <1>3, LatestInv, EncodeLatestInv, LookInv, StoreInv, LatestAtInv, LatestAtDoneInv
     DEF Caller
<1>4. CASE UNCHANGED vars
  <2>1. /\ UNCHANGED <<raw, rawSeq, pic, queued, mapped>> /\ UNCHANGED job
        /\ UNCHANGED <<jpeg, encMu, loop, mgr, overlapped, outdated>>
    BY <1>4 DEF vars, buffer
  <2>2. PicturesKept'
    BY <2>1, PicturesSame, PinnersSame
  <2>3. WorkKept'
    BY <2>1, TakenApart DEF WorkKept, RestTypeOK, WorkTaken, Encoding, CapturesInOrder,
       OneLoop, JPEGsHonest, FloorsKept, LatestIsFresh
  <2>4. QED
    BY <2>1, <2>2, <2>3, TakenApart, PutTogether
<1>5. QED
  BY <1>1, <1>2, <1>3, <1>4 DEF Next

\* The inductive invariant holds in every reachable state.
THEOREM PicturesInvariance == Spec => []IInv
  BY InitInv, NextInv, PTL DEF Spec

\* Every variable has its type, for any number of buffers, callers, captures
\* and pictures.
THEOREM PicturesTypeCorrect == Spec => []TypeOK
<1>1. IInv => TypeOK
  BY DEF IInv
<1>2. QED
  BY <1>1, PicturesInvariance, PTL

\* No buffer of an open capture leaks and none is given back twice, however
\* UpdateRaw, Clear, Detach and the callers' unpins follow on one another.
THEOREM NoBufferLeaks == Spec => []BuffersAccounted
<1>1. IInv => BuffersAccounted
  <2> SUFFICES ASSUME IInv, NEW c \in mapped, NEW b \in Buffers
      PROVE  LET keeping == {n \in 1..rawSeq : /\ pic[n].from = c /\ pic[n].buf = b
                                               /\ ~pic[n].given}
             IN  IF b \in queued[c] THEN keeping = {}
                 ELSE \E n \in keeping :
                         /\ keeping = {n}
                         /\ n = raw \/ \E e \in Callers : Encoding(e) /\ job[e].pic = n
    BY DEF BuffersAccounted
  <2>1. BufferKept(c, b)
    BY DEF IInv, BuffersKept
  <2>2. CASE b \in queued[c]
    BY <2>1, <2>2 DEF BufferKept, Keeps
  <2>3. CASE b \notin queued[c]
    <3>1. PICK n \in 1..rawSeq : Keeps(n, c, b)
      BY <2>1, <2>3 DEF BufferKept
    <3>2. {m \in 1..rawSeq : /\ pic[m].from = c /\ pic[m].buf = b /\ ~pic[m].given} = {n}
      BY <2>1, <3>1 DEF BufferKept, Keeps
    <3>3. n = raw \/ pic[n].pins > 0
      BY <3>1, TakenType DEF IInv, Released, Free, Keeps, Picture
    <3>4. n = raw \/ \E e \in Callers : Encoding(e) /\ job[e].pic = n
      BY <3>3, PinnedIsEncoded DEF IInv
    <3>5. QED
      BY <2>3, <3>2, <3>4
  <2>4. QED
    BY <2>2, <2>3
<1>2. QED
  BY <1>1, PicturesInvariance, PTL

\* The driver never has the memory of the latest picture, nor of one that is
\* being encoded, whoever lets go of it last.
THEOREM NoPictureOverwritten == Spec => []PicturesIntact
<1>1. IInv => PicturesIntact
  <2> SUFFICES ASSUME IInv PROVE PicturesIntact
    OBVIOUS
  <2>1. raw # NoPicture => Intact(raw)
    <3>1. raw # NoPicture => raw \in 1..rawSeq
      BY TakenApart DEF NoPicture
    <3>2. QED
      BY <3>1 DEF IInv, Released, Intact
  <2>2. ASSUME NEW e \in Callers, Encoding(e)
        PROVE  Intact(job[e].pic)
    <3>1. PICK n \in 1..rawSeq : n = job[e].pic
      BY <2>2 DEF IInv, WorkTaken
    <3>2. ~Free(n)
      BY <2>2, <3>1, PinnedIsEncoded DEF IInv, Free
    <3>3. QED
      BY <3>1, <3>2 DEF IInv, Released, Intact
  <2>3. QED
    BY <2>1, <2>2 DEF PicturesIntact
<1>2. QED
  BY <1>1, PicturesInvariance, PTL

\* As long as the manager has waited for each loop, the picture a loop has
\* handed to the video encoder keeps its memory until the loop is done with it.
THEOREM LoopKeepsItsPicture == Spec => []LoopPictureIntact
<1>1. IInv => LoopPictureIntact
  <2> SUFFICES ASSUME IInv, ~overlapped, NEW c \in Captures, loop[c].at = "use"
      PROVE  Intact(loop[c].pic)
    BY DEF LoopPictureIntact
  <2>1. loop[c].pic = raw /\ raw \in 1..rawSeq
    BY DEF IInv, OneLoop, WorkTaken
  <2>2. QED
    BY <2>1 DEF IInv, Released, Intact
<1>2. QED
  BY <1>1, PicturesInvariance, PTL

\* As long as the manager has waited for each loop, no caller is given a JPEG
\* of an older picture than the latest when it asked.
THEOREM NoOldPicture == Spec => []LatestIsFresh
<1>1. IInv => LatestIsFresh
  BY DEF IInv
<1>2. QED
  BY <1>1, PicturesInvariance, PTL
=============================================================================
