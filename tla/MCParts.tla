------------------------------ MODULE MCParts ------------------------------
(* Instances of the components that share no state with each other, for TLC: *)
(* a behaviour is one of any of them, the others resting in their initial    *)
(* states. What one is to another (the broadcaster that uses an encoder, the *)
(* HID back-end under the settled one) is in each the other's environment.   *)
EXTENDS SettledHID, BiDiSession, HoldRecorder, FFmpegEncoder, M2MEncoder, PhoneAudio, GadgetMic,
        RotateMenu, CropTracker, CropStore, TLC

VARIABLE part   \* whose behaviour this is

SessionSymmetry == Permutations(BiDiSessions)

CropRects == {[turned |-> "portrait", area |-> 30], [turned |-> "landscape", area |-> 100],
              [turned |-> NotTurned, area |-> 60]}

PartsInit ==
    /\ SettleInit /\ BiDiInit /\ RecorderInit /\ FFmpegInit /\ M2MInit /\ AudioInit /\ MicInit
    /\ RotateInit /\ CropInit /\ StoreInit
    /\ part \in {"settle", "bidi", "recorder", "ffmpeg", "m2m", "audio", "mic", "rotate", "crop",
                 "store"}

inputVars == <<settleVars, bidiVars, rotateVars, recorderVars>>
pictureVars == <<ffmpegVars, m2mVars, cropVars, storeVars>>
soundVars == <<audioVars, micVars>>
partsVars == <<inputVars, pictureVars, soundVars, part>>

PartsNext ==
    /\ UNCHANGED part
    /\ \/ part = "settle" /\ SettleNext
          /\ UNCHANGED <<bidiVars, rotateVars, recorderVars, pictureVars, soundVars>>
       \/ part = "bidi" /\ BiDiNext
          /\ UNCHANGED <<settleVars, rotateVars, recorderVars, pictureVars, soundVars>>
       \/ part = "recorder" /\ RecorderNext
          /\ UNCHANGED <<settleVars, bidiVars, rotateVars, pictureVars, soundVars>>
       \/ part = "ffmpeg" /\ FFmpegNext
          /\ UNCHANGED <<m2mVars, cropVars, storeVars, inputVars, soundVars>>
       \/ part = "m2m" /\ M2MNext
          /\ UNCHANGED <<ffmpegVars, cropVars, storeVars, inputVars, soundVars>>
       \/ part = "audio" /\ AudioNext
          /\ UNCHANGED <<micVars, inputVars, pictureVars>>
       \/ part = "mic" /\ MicNext
          /\ UNCHANGED <<audioVars, inputVars, pictureVars>>
       \/ part = "rotate" /\ RotateNext
          /\ UNCHANGED <<settleVars, bidiVars, recorderVars, pictureVars, soundVars>>
       \/ part = "crop" /\ CropNext
          /\ UNCHANGED <<ffmpegVars, m2mVars, storeVars, inputVars, soundVars>>
       \/ part = "store" /\ StoreNext
          /\ UNCHANGED <<ffmpegVars, m2mVars, cropVars, inputVars, soundVars>>

\* States are told apart by the part at work; those of the BiDi session that
\* InputAccounted sets aside not by what the backend holds, and those of a turn
\* that TurnKnowsPhone sets aside not by whether roadie knew better before,
\* which nothing else looks at.
PartsView ==
    LET aside == mixed \/ cut
    IN  <<part, CASE part = "settle" -> settleVars
                  [] part = "bidi" -> <<bidiActive, session, conn, thread, aside,
                                        IF aside THEN {} ELSE down>>
                  [] part = "recorder" -> recorderVars
                  [] part = "ffmpeg" -> ffmpegVars
                  [] part = "m2m" -> m2mVars
                  [] part = "audio" -> audioVars
                  [] part = "mic" -> micVars
                  [] part = "rotate" -> <<phoneVars, orientation, landscape, turnPc, walk,
                                          closingMenu, calm, calm /\ knew>>
                  [] part = "crop" -> cropVars
                  [] part = "store" -> storeVars>>

PartsSpec == PartsInit /\ [][PartsNext]_partsVars

\* The variables of the component at work keep their types.
PartsTypeOK ==
    /\ part = "settle" => SettleTypeOK
    /\ part = "bidi" => BiDiTypeOK
    /\ part = "recorder" => RecorderTypeOK
    /\ part = "ffmpeg" => FFmpegTypeOK
    /\ part = "m2m" => M2MTypeOK
    /\ part = "audio" => AudioTypeOK
    /\ part = "mic" => MicTypeOK
    /\ part = "rotate" => RotateTypeOK
    /\ part = "crop" => CropTypeOK
    /\ part = "store" => StoreTypeOK
=============================================================================
