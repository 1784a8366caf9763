--------------------------- MODULE MCIpcEndpoints ---------------------------
(* Small instances of IpcEndpoints, with the headers of a channel. *)
EXTENDS IpcEndpoints

=============================================================================
