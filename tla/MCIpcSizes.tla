----------------------------- MODULE MCIpcSizes -----------------------------
(* IpcSizes with the real headers and words of 9 bits. *)
EXTENDS IpcSizes

=============================================================================
