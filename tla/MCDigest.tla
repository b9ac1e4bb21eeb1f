------------------------------- MODULE MCDigest -------------------------------
(*****************************************************************************)
(* Two runs of the digest over two users: one with e-mail, one in-app only.  *)
(*****************************************************************************)
EXTENDS Digest

MCWorklist == <<<<"ann", "IN_APP">>, <<"ann", "EMAIL">>, <<"bob", "IN_APP">>>>
===============================================================================
