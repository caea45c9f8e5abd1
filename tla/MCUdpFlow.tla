----------------------------- MODULE MCUdpFlow -----------------------------
(***************************************************************************)
(* UdpFlow for TLC: the workers of a target run the same code, and no      *)
(* property tells them apart.                                              *)
(***************************************************************************)
EXTENDS UdpFlow, TLC

WorkerSymmetry == Permutations(Workers)
=============================================================================
