---------------------------- MODULE PartsProofs -----------------------------
(* The composition of the components that share nothing (MCParts): each      *)
(* behaves in it as it does alone, so that what is proved of a component is  *)
(* proved of the composition that TLC checks.                                *)
EXTENDS MCParts, InputProofs, PictureProofs, RecordProofs

\* Each step of the composition is a step of the component at work, and leaves
\* the others as they are.
LEMMA PartsAreApart == PartsSpec => /\ SettleSpec /\ BiDiSpec /\ RecorderSpec /\ FFmpegSpec /\ M2MSpec
                                    /\ AudioSpec /\ MicSpec /\ RotateSpec /\ CropSpec /\ StoreSpec
<1>1. PartsSpec => SettleSpec
  <2>1. PartsInit => SettleInit
    BY DEF PartsInit
  <2>2. [PartsNext]_partsVars => [SettleNext]_settleVars
    BY DEF PartsNext, partsVars, inputVars, pictureVars, soundVars
  <2>3. QED
    BY <2>1, <2>2, PTL DEF PartsSpec, SettleSpec
<1>2. PartsSpec => BiDiSpec
  <2>1. PartsInit => BiDiInit
    BY DEF PartsInit
  <2>2. [PartsNext]_partsVars => [BiDiNext]_bidiVars
    BY DEF PartsNext, partsVars, inputVars, pictureVars, soundVars
  <2>3. QED
    BY <2>1, <2>2, PTL DEF PartsSpec, BiDiSpec
<1>3. PartsSpec => RecorderSpec
  <2>1. PartsInit => RecorderInit
    BY DEF PartsInit
  <2>2. [PartsNext]_partsVars => [RecorderNext]_recorderVars
    BY DEF PartsNext, partsVars, inputVars, pictureVars, soundVars
  <2>3. QED
    BY <2>1, <2>2, PTL DEF PartsSpec, RecorderSpec
<1>4. PartsSpec => FFmpegSpec
  <2>1. PartsInit => FFmpegInit
    BY DEF PartsInit
  <2>2. [PartsNext]_partsVars => [FFmpegNext]_ffmpegVars
    BY DEF PartsNext, partsVars, inputVars, pictureVars, soundVars
  <2>3. QED
    BY <2>1, <2>2, PTL DEF PartsSpec, FFmpegSpec
<1>5. PartsSpec => M2MSpec
  <2>1. PartsInit => M2MInit
    BY DEF PartsInit
  <2>2. [PartsNext]_partsVars => [M2MNext]_m2mVars
    BY DEF PartsNext, partsVars, inputVars, pictureVars, soundVars
  <2>3. QED
    BY <2>1, <2>2, PTL DEF PartsSpec, M2MSpec
<1>6. PartsSpec => AudioSpec
  <2>1. PartsInit => AudioInit
    BY DEF PartsInit
  <2>2. [PartsNext]_partsVars => [AudioNext]_audioVars
    BY DEF PartsNext, partsVars, inputVars, pictureVars, soundVars
  <2>3. QED
    BY <2>1, <2>2, PTL DEF PartsSpec, AudioSpec
<1>7. PartsSpec => MicSpec
  <2>1. PartsInit => MicInit
    BY DEF PartsInit
  <2>2. [PartsNext]_partsVars => [MicNext]_micVars
    BY DEF PartsNext, partsVars, inputVars, pictureVars, soundVars
  <2>3. QED
    BY <2>1, <2>2, PTL DEF PartsSpec, MicSpec
<1>8. PartsSpec => RotateSpec
  <2>1. PartsInit => RotateInit
    BY DEF PartsInit
  <2>2. [PartsNext]_partsVars => [RotateNext]_rotateVars
    BY DEF PartsNext, partsVars, inputVars, pictureVars, soundVars
  <2>3. QED
    BY <2>1, <2>2, PTL DEF PartsSpec, RotateSpec
<1>9. PartsSpec => CropSpec
  <2>1. PartsInit => CropInit
    BY DEF PartsInit
  <2>2. [PartsNext]_partsVars => [CropNext]_cropVars
    BY DEF PartsNext, partsVars, inputVars, pictureVars, soundVars
  <2>3. QED
    BY <2>1, <2>2, PTL DEF PartsSpec, CropSpec
<1>10. PartsSpec => StoreSpec
  <2>1. PartsInit => StoreInit
    BY DEF PartsInit
  <2>2. [PartsNext]_partsVars => [StoreNext]_storeVars
    BY DEF PartsNext, partsVars, inputVars, pictureVars, soundVars
  <2>3. QED
    BY <2>1, <2>2, PTL DEF PartsSpec, StoreSpec
<1>11. QED
  BY <1>1, <1>2, <1>3, <1>4, <1>5, <1>6, <1>7, <1>8, <1>9, <1>10

\* Type correctness of every component, at work or at rest.
THEOREM PartsAreTyped == PartsSpec => []PartsTypeOK
<1>1. /\ SettleTypeOK /\ BiDiTypeOK /\ RecorderTypeOK /\ FFmpegTypeOK /\ M2MTypeOK /\ AudioTypeOK
      /\ MicTypeOK /\ RotateTypeOK /\ CropTypeOK /\ StoreTypeOK
      => PartsTypeOK
  BY DEF PartsTypeOK
<1>2. QED
  BY <1>1, PartsAreApart, SettledIsTyped, BiDiIsTyped, RecorderIsTyped, FFmpegIsTyped, M2MIsTyped,
     AudioIsTyped, MicIsTyped, TurnIsTyped, CropIsTyped, StoreIsTyped, PTL

\* What the components promise, of the composition.
THEOREM PartsKeepTheirWord ==
    PartsSpec => /\ [](/\ OwnGesturesSettle /\ FingerTracksTouch /\ InputAccounted /\ SessionServed
                       /\ SamplesStamped /\ BuffersKept /\ DecodesAsTold /\ TurnKnowsPhone /\ CropKept)
                 /\ KeepsRecordings /\ HeardFresh /\ OneFrameTurnsNothing
  BY PartsAreApart, GesturesSettle, FingerIsTracked, HeldIsNoted, ServedToTheEnd, EverySampleStamped,
     EveryBufferKept, ToldBeforeItPlays, TurnEndsRight, CropIsKept, RecordingsAreKept, HeardIsFresh,
     OddFramesPass, PTL
=============================================================================
