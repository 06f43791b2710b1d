---------------------------- MODULE MCAdminAccess ----------------------------
(* Model values for TLC.                                                   *)
EXTENDS AdminAccess
=============================================================================
