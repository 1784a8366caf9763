---------------------------- MODULE MCIpcStartup ----------------------------
(* Instances of IpcStartup for TLC. *)
EXTENDS IpcStartup, TLC

Symmetry == Permutations(Producers) \cup Permutations(Consumers)

=============================================================================
