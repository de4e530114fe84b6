------------------------- MODULE RecordingDelivery -------------------------
(* What the hold recorder promises (record.go:25-32, API.md:823): a hold's   *)
(* recording goes on until the hold, or roadie, ends it; it is then written  *)
(* to the disk, kept there, and leaves the disk only when the station has    *)
(* it. The end of roadie loses a recording that goes on, and also one that   *)
(* was closed and is not wholly on the disk yet; it loses none that is kept. *)
(* main.go:518-519 says more: that a recording the exit cuts off stays on    *)
(* the disk. Nobody waits for it to get there. The code keeps this promise   *)
(* to the one recording of a hold: a second one of the same hold shares the  *)
(* first one's files (record.go:111).                                        *)
CONSTANT Recordings

VARIABLES fate,
          up      \* roadie runs

deliveryVars == <<fate, up>>

Fates == {"none", "going", "closing", "kept", "delivered", "lost"}

DeliveryInit == fate = [n \in Recordings |-> "none"] /\ up = TRUE

Becomes(n, from, to) ==
    /\ fate[n] \in from
    /\ fate' = [fate EXCEPT ![n] = to]
    /\ UNCHANGED up

Begin(n)   == Becomes(n, {"none"}, "going")
Finish(n)  == Becomes(n, {"going"}, "closing")
Keep(n)    == Becomes(n, {"closing"}, "kept")
Deliver(n) == Becomes(n, {"closing", "kept"}, "delivered")

\* The disk does not take it.
DiskFails(n) == Becomes(n, {"closing"}, "lost")

RoadieEnds ==
    /\ up /\ up' = FALSE
    /\ fate' = [n \in Recordings |-> IF fate[n] \in {"going", "closing"} THEN "lost" ELSE fate[n]]

RoadieStarts == ~up /\ up' = TRUE /\ UNCHANGED fate

\* With a second recording of the hold, all but a delivery can be undone.
Disturbed == /\ \E m, n \in Recordings : m # n /\ fate[m] # "none" /\ fate[n] # "none"
             /\ fate' \in [Recordings -> Fates]
             /\ \A n \in Recordings : /\ fate[n] \in {"none", "delivered"} => fate'[n] = fate[n]
                                      /\ fate'[n] = "none" => fate[n] = "none"
             /\ up' \in BOOLEAN

DeliveryNext == \/ \E n \in Recordings : \/ Begin(n) \/ Finish(n) \/ Keep(n) \/ Deliver(n)
                                         \/ DiskFails(n)
                \/ RoadieEnds \/ RoadieStarts \/ Disturbed

DeliverySpec == DeliveryInit /\ [][DeliveryNext]_deliveryVars
=============================================================================
