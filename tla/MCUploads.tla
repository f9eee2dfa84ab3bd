------------------------------- MODULE MCUploads -------------------------------
(* UploadStore for TLC; users and contents are named in the configurations. *)
EXTENDS UploadStore, TLC
================================================================================
