----------------------------- MODULE MCVolume -----------------------------
(***************************************************************************)
(* An instance of VolumeRestore: a Postgres pinned to its nodes in every   *)
(* way Sanitize knows, and a Redis with a RuntimeClass that dest does not  *)
(* have.                                                                   *)
(***************************************************************************)
EXTENDS VolumeRestore, TLC

Pinned == [pins |-> Pins, spread |-> TRUE, tolerations |-> Tolerations,
           runtime |-> "gvisor", fsGroup |-> 999, engine |-> "postgres"]
Plain == [pins |-> {}, spread |-> FALSE, tolerations |-> {"own"},
          runtime |-> "nvidia", fsGroup |-> 999, engine |-> "redis"]

TwoClaims == <<"data", "logs">>
TwoTemplates == {Pinned, Plain}
OnePinned == {Pinned}
Storage == "premium" :> "standard"
Runtimes == "gvisor" :> "kata"
=============================================================================
