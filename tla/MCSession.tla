------------------------------ MODULE MCSession ------------------------------
(* An instance of Session.tla for TLC.                                       *)
EXTENDS Session
=============================================================================
