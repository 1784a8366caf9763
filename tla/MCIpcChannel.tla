---------------------------- MODULE MCIpcChannel ----------------------------
(***************************************************************************)
(* Instances of IpcChannel for TLC.  notify wraps around at NotifyMod, as  *)
(* the code's counter does at 2^32, so that the wrap occurs.               *)
(***************************************************************************)
EXTENDS IpcChannel, TLC

Symmetry == Permutations(Producers) \cup Permutations(Consumers)

=============================================================================
