----------------------------- MODULE MCAtomicFiles -----------------------------
(* Instances of AtomicFiles.tla for TLC.                                     *)
EXTENDS AtomicFiles, TLC

\* Writers, documents and files are interchangeable.
Alike == Permutations(Writers) \cup Permutations(Documents) \cup Permutations(Inodes)
=============================================================================
