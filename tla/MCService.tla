------------------------------ MODULE MCService ------------------------------
(* Instances of Service.tla for TLC: viewports are interchangeable.          *)
EXTENDS Service, TLC

Symmetric == Permutations(Clients)
=============================================================================
