---------------------------- MODULE MCIpcBuffer ----------------------------
(***************************************************************************)
(* Instances of IpcBuffer for TLC, on rings of 64 bytes.  Payloads         *)
(* of 8 and 12 bytes make entries of 32 and 40, so that a lap ends with a  *)
(* header's room, less, or more, placeholders of several sizes occur, and  *)
(* some entries have padding behind their payload.                         *)
(***************************************************************************)
EXTENDS IpcBufferInv, TLC

Symmetry == Permutations(Producers) \cup Permutations(Consumers)

=============================================================================
