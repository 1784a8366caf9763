---------------------------- MODULE MCShmSegment ----------------------------
(* Small instances of ShmSegment. *)
EXTENDS ShmSegment

=============================================================================
