----------------------------- MODULE MCPutUpload ----------------------------
(***************************************************************************)
(* Instance of PutUpload for model checking: all of it is in the .cfg.     *)
(***************************************************************************)
EXTENDS PutUpload
=============================================================================
