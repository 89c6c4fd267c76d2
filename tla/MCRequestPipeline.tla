------------------------- MODULE MCRequestPipeline -------------------------
(***************************************************************************)
(* Two requests, one of which has a database that may fail or hang, and    *)
(* two keys, one of which may be revoked; the other request's answer is in *)
(* memory.                                                                 *)
(***************************************************************************)
EXTENDS RequestPipeline
=============================================================================
