---------------------------- MODULE MCKioskSession ----------------------------
(* Model values for TLC.                                                   *)
EXTENDS KioskSession
=============================================================================
