--------------------------- MODULE MCStreamManager ---------------------------
(* Instances of StreamManager for TLC. *)
EXTENDS StreamManagerProofs

AllCalls == API
PushOnly == {"add", "kernel"}
DestroyCalls == {"add", "kernel", "destroy"}
=============================================================================
