---------------------------- MODULE LatencyPipe ----------------------------
(***************************************************************************)
(* What a DSP channel promises whoever feeds it: a pipe of fixed latency.  *)
(* A caller hands one block in and gets one block out; between two calls   *)
(* the pipe holds Latency blocks, never more and never fewer, so audio     *)
(* neither drifts nor runs dry however long it plays.                      *)
(***************************************************************************)
EXTENDS Naturals

CONSTANTS Latency   \* blocks held between two calls

VARIABLES flight    \* blocks handed in and not yet handed out

Init == flight = Latency

Accept == flight = Latency /\ flight' = Latency + 1

Deliver == flight = Latency + 1 /\ flight' = Latency

Next == Accept \/ Deliver

Spec == Init /\ [][Next]_flight
=============================================================================
