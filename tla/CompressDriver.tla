--------------------------- MODULE CompressDriver ---------------------------
(* How a compress device may be used, whoever uses it and from how many      *)
(* threads: opened once, given metadata before it plays, paused only while   *)
(* it plays, and closed only when it is stopped and no thread is inside a    *)
(* blocking call (compress_wait, a drain) on its handle.                     *)

CONSTANTS Metadata, NoMeta,
          NeedsMetadata  \* whether the device decodes with them

VARIABLES device,    \* what the device was last told to do
          metadata,  \* the metadata it has for the track
          call       \* whether a blocking call is under way

driverVars == <<device, metadata, call>>

DriverInit == device \in {"closed", "setup"} /\ metadata = NoMeta /\ call = "none"

Open ==
    /\ device = "closed" /\ device' = "setup"
    /\ UNCHANGED <<metadata, call>>
SetMetadata ==
    /\ device # "closed" /\ metadata' \in Metadata
    /\ UNCHANGED <<device, call>>

\* A start while it plays, too, would be no step.
Start ==
    /\ device = "setup" /\ (NeedsMetadata => metadata # NoMeta)
    /\ device' = "running"
    /\ UNCHANGED <<metadata, call>>
Pause ==
    /\ device = "running" /\ device' = "paused"
    /\ UNCHANGED <<metadata, call>>
Resume ==
    /\ device = "paused" /\ device' = "running"
    /\ UNCHANGED <<metadata, call>>

\* A stop drops the metadata, and makes a call that is under way return.
Stop ==
    /\ device # "closed" /\ device' = "setup" /\ metadata' = NoMeta
    /\ UNCHANGED call
Close ==
    /\ device = "setup" /\ metadata = NoMeta /\ call = "none"
    /\ device' = "closed"
    /\ UNCHANGED <<metadata, call>>

CallBegins ==
    /\ device # "closed" /\ call = "none" /\ call' = "pending"
    /\ UNCHANGED <<device, metadata>>
CallReturns ==
    /\ call = "pending" /\ call' = "none"
    /\ UNCHANGED <<device, metadata>>

DriverNext ==
    \/ Open \/ SetMetadata \/ Start \/ Pause \/ Resume \/ Stop \/ Close
    \/ CallBegins \/ CallReturns

DriverSpec == DriverInit /\ [][DriverNext]_driverVars
=============================================================================
