----------------------------- MODULE MCBoxCloud -----------------------------
(* Instances of BoxCloud for TLC. *)
EXTENDS BoxCloud

CONSTANTS uploader
=============================================================================
