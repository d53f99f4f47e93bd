------------------------------- MODULE Workflows -------------------------------
(* The workflow kinds of the workbench, by name. *)
EXTENDS Reproductions

Kinds ==
  [telemetry |-> Telemetry, observable |-> Observable, window |-> Window, acquired |-> Acquired,
   design |-> Design, declared |-> DeclaredWork, circle |-> Circle, bim |-> Bim,
   acquisition |-> Acquisition, geodesic |-> Geodesic, geometry |-> Geometry, proved |-> Proved,
   stability |-> Stability, companion |-> Companion, residual |-> Residual, chain |-> Chain,
   free_energy |-> FreeEnergy, julia |-> Julia, thermal |-> Thermal, machine |-> Machine,
   energy |-> Energy]
=============================================================================
