----------------------------- MODULE CropStore -----------------------------
(* The crop chosen and the crops saved, in memory and in a file (crop_api.go, *)
(* crop_store.go, the settings request of server.go, the start in main.go):   *)
(* requests change both, one at a time, and roadie may end anywhere. A crop   *)
(* is there or not; what the requests refuse for its form is left out.        *)
CONSTANTS CropRequests, NoFile

Orientations == {"portrait", "landscape"}
CropFiles == [use : {"auto", "off", "saved"}, savedFor : SUBSET Orientations]

ASSUME StoreConstants == "free" \notin CropRequests /\ NoFile \notin CropFiles

VARIABLES
    use, savedFor,  \* FrameBuffer.cropUse, and the orientations a crop is saved for
    storeMu, asks,  \* cropMu; per request where it is
    onDisk, tmp,    \* the file and the one that replaces it: [use, savedFor], or NoFile
    unwritten       \* history: a write failed since the last one that did not

memoryVars == <<use, savedFor>>
fileVars == <<onDisk, tmp, unwritten>>
storeVars == <<memoryVars, storeMu, asks, fileVars>>

Default == use = "auto" /\ savedFor = {}
Current == [use |-> use, savedFor |-> savedFor]

StoreInit ==
    /\ use = "auto" /\ savedFor = {} /\ storeMu = "free"
    /\ asks = [q \in CropRequests |-> "no"]
    /\ onDisk = NoFile /\ tmp = NoFile /\ unwritten = FALSE

-----------------------------------------------------------------------------
(* Requests                                                                  *)

\* A request takes cropMu, or has it, and goes on to the next step.
Holding(q, at, next) ==
    /\ asks[q] = at /\ storeMu = IF at = "no" THEN "free" ELSE q
    /\ asks' = [asks EXCEPT ![q] = next]
    /\ storeMu' = IF next = "no" THEN "free" ELSE q

\* PUT: "saved" needs a crop to use. It was looked for under cropMu.
chooseCrop(q) ==
    /\ Holding(q, "no", "store")
    /\ use' \in {"auto", "off"} \cup (IF savedFor # {} THEN {"saved"} ELSE {})
    /\ UNCHANGED <<savedFor, fileVars>>

\* The settings request's two-way form of it.
SetAutocrop(q) ==
    /\ Holding(q, "no", "store")
    /\ use' \in {"auto", "off"}
    /\ UNCHANGED <<savedFor, fileVars>>

\* POST saves the crop, and then chooses it.
saveCrop(q) ==
    \/ /\ Holding(q, "no", "choose")
       /\ \E o \in Orientations : savedFor' = savedFor \cup {o}
       /\ UNCHANGED <<use, fileVars>>
    \/ /\ Holding(q, "choose", "store")
       /\ use' = "saved"
       /\ UNCHANGED <<savedFor, fileVars>>

\* Mutant: "saved" stays chosen with the last crop gone.
BugClearKeepsChoice(q) ==
    /\ Holding(q, "no", "store")
    /\ \E gone \in SUBSET Orientations \ {{}} : savedFor' = savedFor \ gone
    /\ UNCHANGED <<use, fileVars>>

\* DELETE clears one crop or both; with none left "saved" becomes "auto".
clearCrop(q) ==
    /\ Holding(q, "no", "store")
    /\ \E gone \in SUBSET Orientations \ {{}} : savedFor' = savedFor \ gone
    /\ use' = IF use = "saved" /\ savedFor' = {} THEN "auto" ELSE use
    /\ UNCHANGED fileVars

\* The default needs no file, and the file goes; anything else is written
\* beside it. Either may fail, and the request then says so.
storeCrops(q) ==
    \/ /\ Default /\ Holding(q, "store", "no")
       /\ onDisk' = NoFile /\ unwritten' = FALSE
       /\ UNCHANGED <<memoryVars, tmp>>
    \/ /\ ~Default /\ Holding(q, "store", "rename")
       /\ tmp' = Current
       /\ UNCHANGED <<memoryVars, onDisk, unwritten>>
    \/ /\ Holding(q, "store", "no")
       /\ unwritten' = TRUE
       /\ UNCHANGED <<memoryVars, onDisk, tmp>>

\* The rename replaces the file whole.
renameCrops(q) ==
    /\ Holding(q, "rename", "no")
    /\ \/ onDisk' = tmp /\ tmp' = NoFile /\ unwritten' = FALSE
       \/ unwritten' = TRUE /\ UNCHANGED <<onDisk, tmp>>
    /\ UNCHANGED memoryVars

\* Roadie ends anywhere and starts again. A file without a choice, written
\* before there was one, does not occur.
loadSavedCrops ==
    /\ use' = IF onDisk = NoFile THEN "auto" ELSE onDisk.use
    /\ savedFor' = IF onDisk = NoFile THEN {} ELSE onDisk.savedFor
    /\ storeMu' = "free" /\ asks' = [q \in CropRequests |-> "no"]
    /\ unwritten' = FALSE
    /\ UNCHANGED <<onDisk, tmp>>

StoreNext ==
    \/ \E q \in CropRequests : \/ chooseCrop(q) \/ SetAutocrop(q) \/ saveCrop(q) \/ clearCrop(q)
                               \/ storeCrops(q) \/ renameCrops(q)
    \/ loadSavedCrops

StoreSpec == StoreInit /\ [][StoreNext]_storeVars

-----------------------------------------------------------------------------

StoreTypeOK ==
    /\ Current \in CropFiles /\ {onDisk, tmp} \subseteq CropFiles \cup {NoFile}
    /\ storeMu \in CropRequests \cup {"free"}
    /\ asks \in [CropRequests -> {"no", "choose", "store", "rename"}]
    /\ unwritten \in BOOLEAN

\* Whenever no request is changing it, the crop in memory is the one a
\* restart would bring back, unless its write failed, and "saved" is chosen
\* only with a crop saved: across requests that overlap, clearing the last
\* crop, and roadie ending half way through a request.
CropKept ==
    storeMu = "free" =>
        /\ use = "saved" => savedFor # {}
        /\ ~unwritten => IF onDisk = NoFile THEN Default ELSE onDisk = Current
=============================================================================
