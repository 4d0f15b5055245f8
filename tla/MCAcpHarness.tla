---------------------------- MODULE MCAcpHarness ----------------------------
(***************************************************************************)
(* Model-checking instances of AcpHarness.  The constants are given in the *)
(* .cfg files; channels are interchangeable, agent slots are not (the pool *)
(* prefers the lowest index).                                              *)
(***************************************************************************)
EXTENDS AcpHarness, TLC

ChannelSymmetry == Permutations(Channels)
=============================================================================
