------------------------------ MODULE MCProvider ------------------------------
(* Instances of Provider.tla for TLC.                                        *)
EXTENDS Provider

MCParts == <<"source", "executable">>
=============================================================================
