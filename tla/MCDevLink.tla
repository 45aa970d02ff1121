------------------------------ MODULE MCDevLink ------------------------------
(***************************************************************************)
(* Instances of DevLink for TLC.  Three addresses: the bufferevent in use, *)
(* the one a slow writer still holds, and a third so that malloc need not  *)
(* reuse either.                                                           *)
(***************************************************************************)
EXTENDS DevLink
=============================================================================
