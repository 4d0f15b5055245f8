----------------------------- MODULE MCRelayPod -----------------------------
(***************************************************************************)
(* Instances of RelayPod for TLC.                                          *)
(***************************************************************************)
EXTENDS RelayPod, TLC

CONSTANTS c1, c2, i1, i2, t1, t2

\* Connections are interchangeable, and so are ids and topics.
Interchangeable == Permutations({c1, c2}) \cup Permutations({i1, i2}) \cup Permutations({t1, t2})

=============================================================================
