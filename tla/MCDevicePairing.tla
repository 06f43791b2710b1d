---------------------------- MODULE MCDevicePairing ----------------------------
(* Model values for TLC.  Codes, requests and kiosks are interchangeable.  *)
EXTENDS DevicePairing, TLC

Symmetry ==
    Permutations(Codes) \cup Permutations(Requests) \cup Permutations(Kiosks)
=============================================================================
