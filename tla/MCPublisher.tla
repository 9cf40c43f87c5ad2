------------------------------ MODULE MCPublisher ------------------------------
(* Instances of Publisher for TLC.  A Duration has 6 bits and a second 2      *)
(* units: 3 s and 5 s fit, 9 s wraps to a negative and 17 s to a small one.   *)
EXTENDS Publisher

MCRequests == {3, 5, 9, 17}
MCConfigured == [heartbeat |-> 0, telemetry |-> 4]
FewRequests == {3, 9}
=============================================================================
